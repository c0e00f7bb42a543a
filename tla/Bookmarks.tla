------------------------------ MODULE Bookmarks ------------------------------
(***************************************************************************)
(* The bookmarks (bms.c) and the menu and dialogs that edit them           *)
(* (bookmark.cc): every edit changes the lists, writes the file and reads  *)
(* it back.  A file is its sections' titles and its bookmarks, each with   *)
(* the number of its section.  Writing may fail: the file cannot be        *)
(* opened, or the disk is full and what follows is not written.            *)
(***************************************************************************)
EXTENDS Integers, Sequences, FiniteSets, SequencesExt

CONSTANTS BookmarkUrls,       \* the pages that are bookmarked; titles follow from them
          SectionTitles,     \* of sections
          Unclassified,
          NoFile,
          BigFile,    \* a file of more lines is backed up (256 bytes)
          MaxSections, MaxBookmarks, MaxFailures

VARIABLES bms,        \* B_bms: key, section, url
          bm_key,
          secs,       \* B_secs: section, title
          sec_key,
          is_ready,
          bmFile,       \* bookmark.txt
          backup,     \* bookmark.bak
          last_section,
          bmDialog,     \* the dialog that is open
          failures    \* how often writing has failed

bookmarkVars ==
  <<bms, bm_key, secs, sec_key, is_ready, bmFile, backup, last_section, bmDialog, failures>>

NoDialog == [kind |-> "none", key |-> -1, url |-> NoFile, choice |-> -1]

(* The lists and counters.                                                 *)
NewMem == [bms |-> <<>>, bm_key |-> 0, secs |-> <<>>, sec_key |-> 0]

Add(m, section, url) ==
  [m EXCEPT !.bm_key = @ + 1, !.bms = Append(@, [key |-> m.bm_key + 1, section |-> section, url |-> url])]

SecAdd(m, title) ==
  [m EXCEPT !.sec_key = @ + 1, !.secs = Append(@, [section |-> m.sec_key, title |-> title])]

(* a_Bms_del and a_Bms_sec_del: the counter of an empty list restarts.     *)
Without(m, kept) == [m EXCEPT !.bms = kept, !.bm_key = IF kept = <<>> THEN 0 ELSE @]
Del(m, key) == Without(m, SelectSeq(m.bms, LAMBDA b : b.key # key))

SecDel(m, section) ==
  LET known == \E i \in DOMAIN m.secs : m.secs[i].section = section
      secsLeft == SelectSeq(m.secs, LAMBDA s : s.section # section)
      kept == SelectSeq(m.bms, LAMBDA b : ~known \/ b.section # section)
      left == IF kept = m.bms THEN m ELSE Without(m, kept)
  IN  [left EXCEPT !.secs = secsLeft, !.sec_key = IF secsLeft = <<>> THEN 0 ELSE @]

Move(m, key, section) ==
  [m EXCEPT !.bms = [i \in DOMAIN @ |-> IF @[i].key = key THEN [@[i] EXCEPT !.section = section] ELSE @[i]]]

(* Bms_normalize: sections are numbered from zero, in order, and one after *)
(* the other the bookmarks of each are given its new number.               *)
Renumbered(m, i) ==
  [j \in DOMAIN m.bms |->
     IF m.bms[j].section = m.secs[i].section THEN [m.bms[j] EXCEPT !.section = i - 1] ELSE m.bms[j]]

AtLeastOne(m) == IF m.secs = <<>> THEN SecAdd(m, Unclassified) ELSE m

(* A mutant: the sections are renumbered, the bookmarks are not.           *)
Mut_Normalized(m0) ==
  [AtLeastOne(m0) EXCEPT !.secs = [i \in DOMAIN @ |-> [@[i] EXCEPT !.section = i - 1]]]

Normalized(m0) ==
  LET m == AtLeastOne(m0)
      moved[i \in 0 .. Len(m.secs)] ==
        IF i = 0 THEN m.bms ELSE Renumbered([m EXCEPT !.bms = moved[i - 1]], i)
  IN  [m EXCEPT !.secs = [i \in DOMAIN @ |-> [@[i] EXCEPT !.section = i - 1]],
                !.bms = moved[Len(m.secs)]]

(* Bms_load: the sections are renumbered as they come, the bookmarks keep  *)
(* the numbers in the file.                                                *)
Loaded(f) ==
  LET added[i \in 0 .. Len(f.bms)] ==
        IF i = 0 THEN NewMem ELSE Add(added[i - 1], f.bms[i].section, f.bms[i].url)
      sectioned[i \in 0 .. Len(f.secs)] ==
        IF i = 0 THEN added[Len(f.bms)] ELSE SecAdd(sectioned[i - 1], f.secs[i])
  IN  sectioned[Len(f.secs)]

(* a_Bms_save: the sections, then the bookmarks of each; upto lines are    *)
(* written.  What it does to the files: [ok, file, backup, mem].           *)
Lines(f) == IF f = NoFile THEN 0 ELSE Len(f.secs) + Len(f.bms)

Contents(m, upto) ==
  LET ofSection(i) == SelectSeq(m.bms, LAMBDA b : b.section = m.secs[i].section)
      all[i \in 0 .. Len(m.secs)] == IF i = 0 THEN <<>> ELSE all[i - 1] \o ofSection(i)
      lines == all[Len(m.secs)]
      few(s, n) == SubSeq(s, 1, IF n < Len(s) THEN n ELSE Len(s))
  IN  [secs |-> few([i \in DOMAIN m.secs |-> m.secs[i].title], upto),
       bms |-> [i \in 1 .. Len(few(lines, upto - Len(m.secs))) |->
                  [section |-> lines[i].section, url |-> lines[i].url]]]

Saved(m, f, b, opened, upto) ==
  LET moved == f # NoFile /\ Lines(f) > BigFile
  IN  IF ~opened THEN [ok |-> FALSE, file |-> IF moved THEN NoFile ELSE f,
                       backup |-> IF moved THEN f ELSE b, mem |-> m]
      ELSE [ok |-> TRUE, file |-> Contents(Normalized(m), upto),
            backup |-> IF moved THEN f ELSE b, mem |-> Normalized(m)]

(* a_Bms_init after what was there is gone: a missing file is created.     *)
Inited(f, b, opened) ==
  LET made == Saved(NewMem, f, b, opened, MaxSections + MaxBookmarks)
  IN  IF f # NoFile THEN [ready |-> TRUE, file |-> f, backup |-> b, mem |-> Loaded(f)]
      ELSE IF ~made.ok THEN [ready |-> FALSE, file |-> f, backup |-> b, mem |-> NewMem]
      ELSE [ready |-> TRUE, file |-> made.file, backup |-> b, mem |-> Loaded(made.file)]

Mem == [bms |-> bms, bm_key |-> bm_key, secs |-> secs, sec_key |-> sec_key]
Take(m) == bms' = m.bms /\ bm_key' = m.bm_key /\ secs' = m.secs /\ sec_key' = m.sec_key
Became(s) == is_ready' = s.ready /\ bmFile' = s.file /\ backup' = s.backup /\ Take(s.mem)

(* The end of every dialog but Cancel: a_Bms_save, then                    *)
(* a_Bookmarks_reload: a_Bms_freeall and a_Bms_init.                       *)
Commit(m) ==
  \E fine, opened, again \in BOOLEAN, upto \in 0 .. MaxSections + MaxBookmarks :
    LET s == Saved(m, bmFile, backup, opened, upto) IN
      /\ opened => again
      /\ IF fine THEN opened /\ upto = MaxSections + MaxBookmarks
         ELSE failures < MaxFailures /\ (opened \/ upto = 0)
      /\ failures' = IF fine THEN failures ELSE failures + 1
      /\ Became(Inited(s.file, s.backup, again))
      /\ bmDialog' = NoDialog

(* The choice of a dialog: FLTK replaces an item whose label is there      *)
(* already, and chooses nothing for a number that is too large.            *)
ChoiceItems(s) ==
  LET all[i \in 0 .. Len(s)] ==
        IF i = 0 THEN <<>>
        ELSE IF Contains(all[i - 1], s[i].title) THEN all[i - 1] ELSE Append(all[i - 1], s[i].title)
  IN  all[Len(s)]
Chosen(s, n) == IF n < Len(ChoiceItems(s)) THEN n ELSE -1

OpenBmDialog(d) == bmDialog' = d /\ UNCHANGED <<last_section, failures>>

(* a_Bookmarks_popup and a_Bookmarks_add read the file when it was not.    *)
LoadBookmarks ==
  /\ bmDialog.kind = "none" /\ ~is_ready
  /\ \E opened \in BOOLEAN :
       /\ IF opened THEN failures' = failures ELSE failures < MaxFailures /\ failures' = failures + 1
       /\ Became(Inited(bmFile, backup, opened))
  /\ UNCHANGED <<bmDialog, last_section>>

StartAdd == \E u \in BookmarkUrls :
  /\ bmDialog.kind = "none" /\ is_ready /\ Len(bms) < MaxBookmarks
  /\ OpenBmDialog([kind |-> "bookmark", key |-> -1, url |-> u, choice |-> Chosen(secs, last_section)])
  /\ UNCHANGED <<bms, bm_key, secs, sec_key, is_ready, bmFile, backup>>

StartEdit == \E i \in DOMAIN bms :
  /\ bmDialog.kind = "none" /\ is_ready
  /\ OpenBmDialog([kind |-> "bookmark", key |-> bms[i].key, url |-> bms[i].url,
           choice |-> Chosen(secs, bms[i].section)])
  /\ UNCHANGED <<bms, bm_key, secs, sec_key, is_ready, bmFile, backup>>

StartSection == \E n \in -1 .. Len(secs) - 1 :
  /\ bmDialog.kind = "none" /\ is_ready
  /\ n = -1 => Len(secs) < MaxSections
  /\ n # 0   \* the menu has no item for the first section
  /\ OpenBmDialog([kind |-> "section", key |-> IF n = -1 THEN -1 ELSE secs[n + 1].section,
           url |-> NoFile, choice |-> -1])
  /\ UNCHANGED <<bms, bm_key, secs, sec_key, is_ready, bmFile, backup>>

ChooseSection == \E n \in 0 .. Len(ChoiceItems(secs)) - 1 :
  /\ bmDialog.kind = "bookmark" /\ bmDialog' = [bmDialog EXCEPT !.choice = n]
  /\ UNCHANGED <<bms, bm_key, secs, sec_key, is_ready, bmFile, backup, last_section, failures>>

(* Bookmarks_edit::save_cb; without a section it reads through NULL: the   *)
(* program ends there, and the user starts it again.                       *)
SaveBookmark ==
  /\ bmDialog.kind = "bookmark" /\ bmDialog.choice # -1
  /\ LET section == secs[bmDialog.choice + 1].section IN
       IF bmDialog.key = -1
       THEN last_section' = bmDialog.choice /\ Commit(Add(Mem, section, bmDialog.url))
       ELSE last_section' = last_section /\ Commit(Move(Mem, bmDialog.key, section))

DeleteBookmark ==
  /\ bmDialog.kind = "bookmark" /\ bmDialog.key > -1
  /\ Commit(Del(Mem, bmDialog.key)) /\ UNCHANGED last_section

SaveSection == \E t \in SectionTitles :
  /\ bmDialog.kind = "section" /\ UNCHANGED last_section
  /\ Commit(IF bmDialog.key = -1 THEN SecAdd(Mem, t)
            ELSE [Mem EXCEPT !.secs = [i \in DOMAIN @ |->
                    IF @[i].section = bmDialog.key THEN [@[i] EXCEPT !.title = t] ELSE @[i]]])

DeleteSection ==
  /\ bmDialog.kind = "section" /\ bmDialog.key > -1
  /\ Commit(SecDel(Mem, bmDialog.key)) /\ UNCHANGED last_section

CancelDialog ==
  /\ bmDialog.kind # "none" /\ bmDialog' = NoDialog
  /\ UNCHANGED <<bms, bm_key, secs, sec_key, is_ready, bmFile, backup, last_section, failures>>

(* The program ends, at any time, and is started again.                    *)
RestartBookmarks ==
  /\ Take(NewMem) /\ is_ready' = FALSE /\ last_section' = 0 /\ bmDialog' = NoDialog
  /\ UNCHANGED <<bmFile, backup, failures>>

BookmarkInit ==
  /\ bms = <<>> /\ bm_key = 0 /\ secs = <<>> /\ sec_key = 0
  /\ is_ready = FALSE /\ bmFile = NoFile /\ backup = NoFile
  /\ last_section = 0 /\ bmDialog = NoDialog /\ failures = 0

BookmarkNext ==
  \/ LoadBookmarks \/ StartAdd \/ StartEdit \/ StartSection \/ ChooseSection \/ SaveBookmark
  \/ DeleteBookmark \/ SaveSection \/ DeleteSection \/ CancelDialog \/ RestartBookmarks

----------------------------------------------------------------------------
(* What the user sees: a bag of urls under the titles of their sections.   *)
EntriesOf(titles, marks) ==
  LET under(i) == <<titles[marks[i].section + 1], marks[i].url>> IN
    [e \in {under(i) : i \in DOMAIN marks} |-> Cardinality({i \in DOMAIN marks : under(i) = e})]
TitlesOf(s) == [i \in DOMAIN s |-> s[i].title]
Shown == EntriesOf(TitlesOf(secs), bms)

(* Every bookmark is in a section, sections are numbered in order and a    *)
(* new one gets a new number.                                              *)
ListsAreSound ==
  /\ sec_key = Len(secs) /\ \A i \in DOMAIN secs : secs[i].section = i - 1
  /\ \A i \in DOMAIN bms : bms[i].section < Len(secs) /\ bms[i].key \in 1 .. bm_key
  /\ \A i, j \in DOMAIN bms : bms[i].key = bms[j].key => i = j

(* What the buttons of the dialog may do to what is seen.                  *)
Outcomes ==
  LET one(e) == SetToBag({e})
      chosen == <<ChoiceItems(secs)[bmDialog.choice + 1], bmDialog.url>>
      edited == CHOOSE i \in DOMAIN bms : bms[i].key = bmDialog.key
      old == <<secs[bms[edited].section + 1].title, bmDialog.url>>
      titled(t) == [i \in DOMAIN secs |-> IF secs[i].section = bmDialog.key THEN t ELSE secs[i].title]
      outside == {e \in DOMAIN Shown : e[1] # secs[bmDialog.key + 1].title}
  IN  {Shown} \cup
      IF bmDialog.kind = "bookmark"
      THEN LET without == IF bmDialog.key = -1 THEN Shown ELSE Shown (-) one(old) IN
             {without} \cup (IF bmDialog.choice = -1 THEN {} ELSE {without (+) one(chosen)})
      ELSE IF bmDialog.key = -1 THEN {}
           ELSE {EntriesOf(titled(t), bms) : t \in SectionTitles} \cup {[e \in outside |-> Shown[e]]}

(* An edit that is written changes the bookmark or section of the dialog   *)
(* and no other, although all sections are renumbered and all keys given   *)
(* anew, and the next start shows the same.  (Sections of one title are    *)
(* one item of the dialog's choice: see the README.)                       *)
EditIsExact ==
  [][/\ ListsAreSound'
     /\ is_ready' /\ failures' = failures =>
          /\ Shown' = EntriesOf(bmFile'.secs, bmFile'.bms)
          /\ ~is_ready /\ bmFile # NoFile => Shown' = EntriesOf(bmFile.secs, bmFile.bms)
          /\ is_ready /\ bmDialog.kind # "none" /\ bmDialog'.kind = "none"
             /\ Cardinality(ToSet(TitlesOf(secs))) = Len(secs) => Shown' \in Outcomes]_bookmarkVars
=============================================================================
