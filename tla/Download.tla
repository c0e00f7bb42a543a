------------------------------ MODULE Download ------------------------------
(***************************************************************************)
(* Downloads to a file (src/src/download.cc).  A download is a window that *)
(* one timeout drives (downloadCallback: libcurl is asked to go on) and    *)
(* another one takes away (Download_cleanup_window: when the window is     *)
(* hidden it is given to Fl::delete_widget, which deletes it when the      *)
(* handlers have returned).  Both keep the address of the window.          *)
(*                                                                         *)
(* The file is opened for appending and a download asks for what the file  *)
(* does not have yet, so that one that was cancelled can be resumed.  What *)
(* is written passes through the buffer of stdio.                          *)
(***************************************************************************)
EXTENDS Integers, Sequences, FiniteSets, SequencesExt

CONSTANTS Downloads,   \* identifiers of download windows, naturals
          Whole,       \* number of pieces of the resource
          CurlErrors,  \* bound on the calls of curl_multi_perform that fail
          Patient      \* the user resumes a file only when its old window is gone

ASSUME DownloadAssumption ==
  /\ Downloads \subseteq Nat \ {0} /\ Whole \in Nat /\ Patient \in BOOLEAN

VARIABLES window,      \* per download: "none", "shown", "hidden", "given", "deleted"
          driving,     \* its download timeout is pending
          cleaning,    \* its cleanup timeout is pending
          running,     \* running_handles
          closes,      \* checkClose
          offset,      \* resumeOffset
          got,         \* pieces that libcurl has passed on
          buffer,      \* ... that stdio has not written yet
          saved,        \* the pieces in the file
          alert,       \* the download whose fl_alert waits for the user, or 0
          failed       \* downloads with which libcurl has failed (history)

downloadVars == <<window, driving, cleaning, running, closes, offset, got, buffer,
                  saved, alert, failed>>

Fails(d) == Cardinality(failed) < CurlErrors /\ failed' = failed \cup {d}

HasWindow(d) == window[d] \notin {"none", "deleted"}
Started == {d \in Downloads : window[d] # "none"}

\* The pieces of the resource from a position on.
Pieces(from, n) == [i \in 1 .. n |-> from + i]

-----------------------------------------------------------------------------
(* libcurl.                                                                *)

\* curl_multi_perform: some pieces arrive, or the transfer ends: with the last
\* piece, or before it when it fails (what the end was is never asked).
Perform(d) ==
  \E n \in 0 .. Whole - offset[d] - got[d] :
    /\ got' = [got EXCEPT ![d] = @ + n]
    /\ buffer' = [buffer EXCEPT ![d] = @ \o Pieces(offset[d] + got[d], n)]
    /\ running' \in {[running EXCEPT ![d] = r] : r \in {0, 1}}
    /\ offset[d] + got[d] + n = Whole => running'[d] = 0

\* fwrite's buffer goes to the end of the file, whoever has written there since.
Flush(d) ==
  /\ HasWindow(d) /\ buffer[d] # <<>>
  /\ saved' = saved \o buffer[d]
  /\ buffer' = [buffer EXCEPT ![d] = <<>>]
  /\ UNCHANGED <<window, driving, cleaning, running, closes, offset, got, alert, failed>>

-----------------------------------------------------------------------------
(* The window.                                                             *)

Wish == IF Patient THEN \A d \in Started : window[d] = "deleted" ELSE TRUE

\* a_Download_start: DlGui::DlGui and DlGui::start.  Nothing is asked for when the
\* file is whole (the server's answer to that has no data).
Start(d) ==
  /\ alert = 0 /\ Wish
  /\ window[d] = "none" /\ \A e \in Downloads : e < d => window[e] # "none"
  /\ window' = [window EXCEPT ![d] = "shown"]
  /\ offset' = [offset EXCEPT ![d] = Len(saved)]
  /\ closes' \in {[closes EXCEPT ![d] = c] : c \in BOOLEAN}
  /\ driving' = [driving EXCEPT ![d] = TRUE]
  /\ cleaning' = [cleaning EXCEPT ![d] = TRUE]
  /\ running' \in {[running EXCEPT ![d] = r] : r \in {0, 1}}
  /\ Len(saved) >= Whole => running'[d] = 0
  /\ UNCHANGED <<got, buffer, saved, alert, failed>>

\* DlGui::start when curl_multi_perform fails at once: after the alert the window
\* is hidden and has no timeout.
StartFails(d) ==
  /\ alert = 0 /\ Wish /\ Fails(d)
  /\ window[d] = "none" /\ \A e \in Downloads : e < d => window[e] # "none"
  /\ window' = [window EXCEPT ![d] = "hidden"]
  /\ offset' = [offset EXCEPT ![d] = Len(saved)]
  /\ UNCHANGED <<driving, cleaning, running, closes, got, buffer, saved, alert>>

\* Download_close_window, or the window manager.  An alert is modal.
CloseWindow(d) ==
  /\ alert = 0 /\ window[d] = "shown"
  /\ window' = [window EXCEPT ![d] = "hidden"]
  /\ UNCHANGED <<driving, cleaning, running, closes, offset, got, buffer, saved, alert, failed>>

\* The check button "Close when done".
Check(d) ==
  /\ alert = 0 /\ window[d] = "shown"
  /\ closes' = [closes EXCEPT ![d] = ~@]
  /\ UNCHANGED <<window, driving, cleaning, running, offset, got, buffer, saved, alert, failed>>

\* DlGui::complete: hides the window; its a_Timeout_remove comes before the
\* callback that called it adds the timeout again.
Complete(d) ==
  /\ window' = [window EXCEPT ![d] = IF closes[d] /\ @ = "shown" THEN "hidden" ELSE @]
  /\ UNCHANGED <<got, buffer, running, alert>>

\* DlGui::downloadCallback and mainloop.
DownloadCallback(d) ==
  /\ driving[d] /\ HasWindow(d)
  /\ \/ /\ running[d] = 0 /\ Complete(d)
        /\ UNCHANGED <<driving, failed>>
     \/ /\ running[d] # 0 /\ Perform(d)
        /\ UNCHANGED <<window, driving, alert, failed>>
     \* fl_alert waits in a loop of its own; this timeout is not pending then.
     \/ /\ running[d] # 0 /\ Fails(d) /\ alert = 0
        /\ alert' = d
        /\ driving' = [driving EXCEPT ![d] = FALSE]
        /\ UNCHANGED <<window, got, buffer, running>>
  /\ UNCHANGED <<cleaning, closes, offset, saved>>

\* fl_alert returns into mainloop, which hides the window; the callback goes on.
AlertEnds ==
  /\ alert # 0
  /\ window' = [window EXCEPT ![alert] = IF @ = "shown" THEN "hidden" ELSE @]
  /\ driving' = [driving EXCEPT ![alert] = TRUE]
  /\ alert' = 0
  /\ UNCHANGED <<cleaning, running, closes, offset, got, buffer, saved, failed>>

\* Seeded bug: the timeout is not repeated while the window is shown.
Mut_CleanupWindow(d) ==
  /\ cleaning[d]
  /\ cleaning' = [cleaning EXCEPT ![d] = FALSE]
  /\ window' = [window EXCEPT ![d] = IF @ = "shown" THEN @ ELSE "given"]
  /\ UNCHANGED <<driving, running, closes, offset, got, buffer, saved, alert, failed>>

\* Download_cleanup_window.
CleanupWindow(d) ==
  /\ cleaning[d]
  /\ IF window[d] = "shown"
     THEN UNCHANGED <<window, cleaning>>
     ELSE /\ window' = [window EXCEPT ![d] = "given"]
          /\ cleaning' = [cleaning EXCEPT ![d] = FALSE]
  /\ UNCHANGED <<driving, running, closes, offset, got, buffer, saved, alert, failed>>

\* Seeded bug: the download timeout stays.
Mut_Delete(d) ==
  /\ window[d] = "given"
  /\ window' = [window EXCEPT ![d] = "deleted"]
  /\ saved' = saved \o buffer[d]
  /\ buffer' = [buffer EXCEPT ![d] = <<>>]
  /\ UNCHANGED <<driving, cleaning, running, closes, offset, got, alert, failed>>

\* Fl::delete_widget's deletion, at the end of a round of the event loop: DlGui::~DlGui
\* closes the file and takes the download timeout away.
Delete(d) ==
  /\ window[d] = "given"
  /\ window' = [window EXCEPT ![d] = "deleted"]
  /\ saved' = saved \o buffer[d]
  /\ buffer' = [buffer EXCEPT ![d] = <<>>]
  /\ driving' = [driving EXCEPT ![d] = FALSE]
  /\ UNCHANGED <<cleaning, running, closes, offset, got, alert, failed>>

DownloadInit ==
  /\ window = [d \in Downloads |-> "none"]
  /\ driving = [d \in Downloads |-> FALSE] /\ cleaning = [d \in Downloads |-> FALSE]
  /\ running = [d \in Downloads |-> 0] /\ closes = [d \in Downloads |-> TRUE]
  /\ offset = [d \in Downloads |-> 0] /\ got = [d \in Downloads |-> 0]
  /\ buffer = [d \in Downloads |-> <<>>]
  /\ saved = <<>>
  /\ alert = 0 /\ failed = {}

DownloadNext ==
  \/ \E d \in Downloads :
       \/ Start(d) \/ StartFails(d) \/ CloseWindow(d) \/ Check(d)
       \/ DownloadCallback(d) \/ CleanupWindow(d) \/ Delete(d) \/ Flush(d)
  \/ AlertEnds

\* Timeouts are repeated, and the loop ends its rounds.
DownloadFairness ==
  \A d \in Downloads : WF_downloadVars(CleanupWindow(d)) /\ WF_downloadVars(Delete(d))

DownloadSpec == DownloadInit /\ [][DownloadNext]_downloadVars /\ DownloadFairness

-----------------------------------------------------------------------------
\* Nothing that still runs holds a window that is deleted: neither a timeout nor the
\* mainloop that an alert has interrupted.  (A download with which libcurl itself
\* has failed may leave its mainloop in the alert while the window is deleted.)
NoUseAfterDelete ==
  \A d \in Downloads \ failed :
    window[d] = "deleted" => ~driving[d] /\ ~cleaning[d] /\ alert # d

\* The file is the beginning of the resource, each piece once, however often the
\* download was cancelled and resumed.
FileIsBeginning == saved = Pieces(0, Len(saved))

\* Windows, timeouts and the file agree at every moment.
DownloadsAreRight == NoUseAfterDelete /\ FileIsBeginning

\* A window that was closed is deleted at last.
ClosedAreDeleted ==
  \A d \in Downloads : (window[d] = "hidden" /\ d \notin failed) ~> window[d] = "deleted"
=============================================================================
