-------------------------------- MODULE Body --------------------------------
(***************************************************************************)
(* The body of a cache entry: the transfer, content and charset decoders of  *)
(* src/src/decode.c, fed by a_Cache_process_dbuf with whatever the network   *)
(* has delivered, the translated copy of the data that lives as long as it is *)
(* referenced, and the pages that read it while it grows.  A META element     *)
(* may change the charset of a page that is being read.                      *)
(*                                                                         *)
(* A byte is a symbol: "1".."9" and "0" are the digits of chunk headers,      *)
(* blocks of a gzip stream are the domain of Inflated, "meta" is the META     *)
(* element, "L" "T" is one character of two bytes.                           *)
(***************************************************************************)
EXTENDS Integers, Sequences, SequencesExt

CONSTANTS Messages,     \* the messages a server sends: [chunks, chunked, gzip, type]
          Inflated,     \* what each block of a gzip stream stands for
          Room,         \* bufsize, of the gzip decoder
          MetaType,     \* the charset of the META element
          BodyWindows,  \* windows that may open the page; the first one loads it
          MaxLookups,   \* bound on synchronous lookups
          Together      \* two windows may wait for the first bytes together

VARIABLES
    msg,      \* the message
    bodyArrived,  \* how much of it has been received
    entry,    \* the cache entry
    pages,    \* per window, the page it shows
    queue,    \* ClientQueue: windows whose page has a client
    due,      \* timeouts of zero seconds: "delayed" and the windows to be repushed
    lookup,   \* what the last a_Cache_get_buf gave
    lookups   \* number of those

bodyVars == <<msg, bodyArrived, entry, pages, queue, due, lookup, lookups>>

Absent == "absent"
Digits == <<"1", "2", "3", "4", "5", "6", "7", "8", "9">>
SizeOf(symbol) == IF \E d \in DOMAIN Digits : Digits[d] = symbol
                THEN CHOOSE d \in DOMAIN Digits : Digits[d] = symbol ELSE 0

\* The bytes on the wire.
Chunk(data) == <<Digits[Len(data)], "CR", "LF">> \o data \o <<"CR", "LF">>
Wire(m) == IF m.chunked
           THEN FlattenSeq([i \in DOMAIN m.chunks |-> Chunk(m.chunks[i])])
                  \o <<"0", "CR", "LF", "CR", "LF">>
           ELSE FlattenSeq(m.chunks)
Original(m) == IF m.gzip
               THEN FlattenSeq([i \in DOMAIN FlattenSeq(m.chunks) |->
                                  Inflated[FlattenSeq(m.chunks)[i]]])
               ELSE FlattenSeq(m.chunks)

Smaller(a, b) == IF a < b THEN a ELSE b
Suffix(s, i) == SubSeq(s, i, Len(s))

----------------------------------------------------------------------------
(* The decoders: each maps its state and new input to its state and output.  *)

RECURSIVE Chunked(_, _, _), Chars(_, _, _), Gzip(_, _, _)

\* Decode_chunked: remaining counts the CRLF after the data of a chunk.
Chunked(in, remaining, out) ==
    LET n == IF remaining > 2 THEN Smaller(remaining - 2, Len(in)) ELSE 0
        cr == IF remaining - n = 2 /\ Len(in) > n THEN 1 ELSE 0
        lf == IF remaining - n - cr = 1 /\ Len(in) > n + cr THEN 1 ELSE 0
        rest == Suffix(in, n + cr + lf + 1)
        eol == SelectInSeq(rest, LAMBDA b : b = "LF")
        size == SizeOf(rest[1])
        output == out \o SubSeq(in, 1, n)
    IN IF in = <<>> THEN [left |-> in, remaining |-> remaining, out |-> out]
       ELSE IF eol = 0
       THEN [left |-> rest, remaining |-> remaining - n - cr - lf, out |-> output]
       ELSE IF size = 0 THEN [left |-> rest, remaining |-> 0, out |-> output]
       ELSE Chunked(Suffix(rest, eol + 1), size + 2, output)

\* Seeded bug: the line that announces a chunk is not kept when it is not complete.
Mut_Dechunk(e, in) == [Chunked(e.left \o in, e.remaining, <<>>) EXCEPT !.left = <<>>]

Dechunk(e, in) == Chunked(e.left \o in, e.remaining, <<>>)

\* inflate: at most Room bytes of output; what is left of a block waits in zlib.
Inflate(pending, in) ==
    LET blocks == IF pending # <<>> \/ in = <<>> THEN 0 ELSE 1
        all == pending \o (IF blocks = 1 THEN Inflated[in[1]] ELSE <<>>)
    IN [out |-> SubSeq(all, 1, Smaller(Room, Len(all))), pending |-> Suffix(all, Room + 1), used |-> blocks]

\* Decode_gzip
Gzip(pending, in, out) ==
    IF in = <<>> THEN [pending |-> pending, out |-> out]
    ELSE LET r == Inflate(pending, in) IN Gzip(r.pending, Suffix(in, r.used + 1), out \o r.out)

\* iconv, and what Decode_charset makes of its errors.  A charset is "latin", of single
\* bytes, or "multi", with characters of two.
Chars(charset, in, out) ==
    IF in = <<>> THEN [left |-> in, out |-> out]
    ELSE IF charset = "latin" THEN Chars(charset, Tail(in), Append(out, <<in[1]>>))
    ELSE IF in[1] = "L" /\ Len(in) = 1 THEN [left |-> in, out |-> out]
    ELSE IF in[1] = "L" /\ in[2] = "T" THEN Chars(charset, Suffix(in, 3), Append(out, <<"L", "T">>))
    ELSE IF in[1] \in {"L", "T"} THEN Chars(charset, Tail(in), Append(out, <<"replacement">>))
    ELSE Chars(charset, Tail(in), Append(out, <<in[1]>>))

\* UTF-8 needs no decoder: its characters are taken as they are.
Plain(in) == [i \in DOMAIN in |-> <<in[i]>>]
NeedsDecoder(charset) == charset \notin {Absent, "utf8"}
Text(charset, in) == IF NeedsDecoder(charset) THEN Chars(charset, in, <<>>).out ELSE Plain(in)

----------------------------------------------------------------------------
(* The entry. *)

\* Cache_parse_header, which references the data of the entry.
NewBodyEntry(m) ==
    [left |-> <<>>, remaining |-> 0, pending |-> <<>>, data |-> <<>>,
     hdr |-> m.type, meta |-> Absent,
     decoder |-> IF NeedsDecoder(m.type) THEN m.type ELSE Absent, partial |-> <<>>,
     utf8 |-> <<>>, translated |-> NeedsDecoder(m.type), refs |-> 1, got |-> FALSE]

Type(e) == IF e.meta # Absent THEN e.meta ELSE e.hdr

\* Cache_ref_data
RefData(e) ==
    LET r == Chars(e.decoder, e.partial \o e.data, <<>>) IN
    IF e.decoder # Absent /\ (~e.translated \/ e.refs = 0)
    THEN [e EXCEPT !.refs = @ + 1, !.utf8 = r.out, !.translated = TRUE, !.partial = r.left]
    ELSE [e EXCEPT !.refs = @ + 1]

\* Cache_unref_data
UnrefData(e) ==
    LET last == e.decoder # Absent /\ e.refs = 1 IN
    [e EXCEPT !.refs = IF @ > 0 THEN @ - 1 ELSE 0,
              !.translated = @ /\ ~last, !.utf8 = IF last THEN <<>> ELSE @]

\* Cache_data
Data(e) == IF e.translated THEN e.utf8 ELSE Plain(e.data)

SameType(a, b) == a = b \/ {a, b} = {Absent, "utf8"}

\* a_Cache_set_content_type, from a META element
SetContentType(e, charset) ==
    IF e.meta # Absent THEN e
    ELSE IF SameType(e.hdr, charset) THEN [e EXCEPT !.meta = charset]
    ELSE [e EXCEPT !.meta = charset, !.partial = <<>>,
                   !.translated = FALSE, !.utf8 = <<>>,
                   !.decoder = IF NeedsDecoder(charset) THEN charset ELSE Absent]

\* a_Cache_process_dbuf, IORead: the three stages
BytesArrive(e, m, in) ==
    LET c == IF m.chunked THEN Dechunk(e, in)
             ELSE [left |-> <<>>, remaining |-> 0, out |-> in]
        z == IF m.gzip THEN Gzip(e.pending, c.out, <<>>) ELSE [pending |-> <<>>, out |-> c.out]
        t == IF e.decoder # Absent /\ e.translated
             THEN Chars(e.decoder, e.partial \o z.out, <<>>) ELSE [left |-> e.partial, out |-> <<>>]
    IN [e EXCEPT !.left = c.left, !.remaining = c.remaining, !.pending = z.pending,
                 !.data = @ \o z.out, !.partial = t.left,
                 !.utf8 = @ \o t.out]

----------------------------------------------------------------------------
(* The pages. *)

NoPage == [open |-> FALSE, type |-> Absent, seen |-> 0, text |-> <<>>, stopped |-> FALSE,
           made |-> FALSE]

\* Html_callback: a page parses what it has not parsed, up to a META element that changes
\* its type.  st: the entry, the pages and the windows to be repushed.
Parse(st, w) ==
    LET p == [st.pages[w] EXCEPT !.made = TRUE, !.type = IF st.pages[w].made THEN @ ELSE Type(st.entry)]
        data == Data(st.entry)
        meta == SelectInSubSeq(data, p.seen + 1, Len(data), LAMBDA c : c = <<"meta">>)
        e == IF meta = 0 THEN st.entry ELSE SetContentType(st.entry, MetaType)
        stops == meta # 0 /\ ~SameType(p.type, Type(e))
        end == IF stops THEN meta ELSE Len(data)
    IN IF p.stopped \/ end < p.seen THEN st
       ELSE [entry |-> e,
             pages |-> [st.pages EXCEPT ![w] = [p EXCEPT !.seen = end, !.stopped = stops,
                                                         !.text = @ \o SubSeq(data, p.seen + 1, end)]],
             repush |-> IF stops THEN Append(st.repush, w) ELSE st.repush]

\* Cache_process_queue: the clients in turn, if the type of the data could be guessed.
PassOn(e) ==
    LET st == [entry |-> e, pages |-> pages, repush |-> <<>>] IN
    IF e.data = <<>> /\ ~e.got THEN st ELSE FoldLeft(Parse, st, queue)

----------------------------------------------------------------------------
BodyInit ==
    /\ msg \in Messages
    /\ bodyArrived = 0
    /\ entry = NewBodyEntry(msg)
    /\ queue = <<BodyWindows[1]>>
    /\ pages = [w \in {BodyWindows[i] : i \in DOMAIN BodyWindows} |->
                  [NoPage EXCEPT !.open = w = BodyWindows[1]]]
    /\ due = <<>>
    /\ lookup = <<>> /\ lookups = 0

\* The main loop runs the timeouts that are due before it looks for data.
MayReceive == ~entry.got /\ due = <<>>

\* a_Cache_process_dbuf, IORead
ReceiveBytes(n) ==
    LET st == PassOn(BytesArrive(entry, msg, SubSeq(Wire(msg), bodyArrived + 1, bodyArrived + n))) IN
    /\ MayReceive /\ bodyArrived + n <= Len(Wire(msg))
    /\ bodyArrived' = bodyArrived + n
    /\ entry' = st.entry /\ pages' = st.pages /\ due' = due \o st.repush
    /\ UNCHANGED <<msg, queue, lookup, lookups>>

\* a_Cache_process_dbuf, IOClose
CloseBody ==
    LET st == PassOn([entry EXCEPT !.got = TRUE, !.left = <<>>, !.pending = <<>>]) IN
    /\ MayReceive /\ bodyArrived = Len(Wire(msg))
    /\ entry' = UnrefData(st.entry) /\ pages' = st.pages /\ due' = due \o st.repush
    /\ queue' = <<>>
    /\ UNCHANGED <<msg, bodyArrived, lookup, lookups>>

\* a_Cache_open_url of an entry that is known
Enqueue(w, timeouts) ==
    /\ queue' = Append(SelectSeq(queue, LAMBDA v : v # w), w)
    /\ pages' = [pages EXCEPT ![w] = [NoPage EXCEPT !.open = TRUE]]
    /\ due' = IF Contains(timeouts, "delayed") THEN timeouts ELSE Append(timeouts, "delayed")

Open(w) ==
    /\ ~pages[w].open
    /\ Together \/ \E v \in DOMAIN pages : pages[v].made
    /\ Enqueue(w, due)
    /\ UNCHANGED <<msg, bodyArrived, entry, lookup, lookups>>

\* Nav_repush_callback: the client of the window is stopped, and another one opened.
\* a_Cache_stop_client takes the entry off the delayed queue; the timeout stays.
RepushPage ==
    /\ due # <<>> /\ Head(due) # "delayed"
    /\ Enqueue(Head(due), Tail(due))
    /\ UNCHANGED <<msg, bodyArrived, entry, lookup, lookups>>

\* Cache_delayed_process_queue_callback
ProcessDelayed ==
    LET st == PassOn(RefData(entry)) IN
    /\ due # <<>> /\ Head(due) = "delayed"
    /\ entry' = UnrefData(st.entry) /\ pages' = st.pages /\ due' = Tail(due) \o st.repush
    /\ queue' = IF entry.got THEN <<>> ELSE queue
    /\ UNCHANGED <<msg, bodyArrived, lookup, lookups>>

\* View source, style sheets: a_Cache_get_buf, use, a_Cache_unref_buf
Lookup ==
    LET e == RefData(entry) IN
    /\ lookups < MaxLookups
    /\ lookups' = lookups + 1 /\ lookup' = Data(e) /\ entry' = UnrefData(e)
    /\ UNCHANGED <<msg, bodyArrived, pages, queue, due>>

BodyNext ==
    \/ \E n \in 1..Len(Wire(msg)) : ReceiveBytes(n)
    \/ CloseBody
    \/ \E i \in DOMAIN BodyWindows : Open(BodyWindows[i])
    \/ RepushPage
    \/ ProcessDelayed
    \/ Lookup

BodySpec == BodyInit /\ [][BodyNext]_bodyVars

----------------------------------------------------------------------------
\* However the network cuts a message, the decoders give a prefix of the original, and all of
\* it when the connection is closed.
DataIsOriginal ==
    /\ IsPrefix(entry.data, Original(msg))
    /\ entry.got => entry.data = Original(msg)

\* Once all has arrived and no timeout is due, each page has parsed the characters of the
\* original in the charset that the headers or the META element gave, from the first to the
\* last, whatever charset it began with; and so does a lookup read those that have arrived.
PagesAreTranslated ==
    /\ entry.got /\ due = <<>> =>
          \A w \in DOMAIN pages : pages[w].open =>
              pages[w].text = Text(Type(entry), Original(msg))
    /\ \E charset \in {msg.type, MetaType} :
          IsPrefix(lookup, Text(charset, Original(msg)))

\* cache.c, decode.c: a body is decoded and translated as a whole, however it arrives and
\* whoever reads it meanwhile.
BodyIsRight == DataIsOriginal /\ PagesAreTranslated
=============================================================================
