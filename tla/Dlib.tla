-------------------------------- MODULE Dlib --------------------------------
(***************************************************************************)
(* The dynamic strings, the lists and the string helpers of dlib.c, which  *)
(* everything else is built from: a string is the memory it was given and  *)
(* what of it is used; a list is an array with a capacity.  `text' and     *)
(* `items' are what the calls so far ought to have made of them.           *)
(***************************************************************************)
EXTENDS Integers, Sequences, FiniteSets, SequencesExt

CONSTANTS DlibBytes,     \* the bytes of a string, besides Nul
          NulByte,
          Junk,      \* a byte of memory nobody has written
          Elements,  \* integers: what lists hold, compared by their value
          RcLines,     \* what is parsed: sequences of bytes
          MaxText,   \* bounds of a string and of a list
          MaxItems

VARIABLES dstr,      \* Dstr: str, sz, len
          text,      \* the string it stands for
          list,      \* Dlist: list, sz, len
          items,     \* the sequence it stands for
          line       \* a line of a file

dlibVars == <<dstr, text, list, items, line>>

(***************************************************************************)
(* Strings.                                                                *)
(***************************************************************************)
Memory(n) == [i \in 0 .. n - 1 |-> Junk]
Poked(str, at, byte) == [i \in DOMAIN str |-> IF i = at THEN byte ELSE str[i]]

(* dStr_resize: a kept string is reallocated, or made empty.               *)
Resized(ds, n, keep) ==
  IF keep /\ n > ds.len
  THEN [ds EXCEPT !.str = [i \in 0 .. n - 1 |-> IF i < ds.sz THEN @[i] ELSE Junk], !.sz = n]
  ELSE [str |-> Poked(Memory(n), 0, NulByte), sz |-> n, len |-> 0]

NewDstr(n) == Resized([str |-> <<>>, sz |-> 0, len |-> 0], (IF n < 2 THEN 2 ELSE n) + 1, FALSE)

(* A mutant: room for the bytes, none for the Nul after them.              *)
Mut_Grown(ds, l) ==
  LET fits(k) == ds.len + l <= ds.sz * 2 ^ k
  IN  ds.sz * 2 ^ (CHOOSE k \in 0 .. ds.len + l : fits(k) /\ \A j \in 0 .. k - 1 : ~fits(j))

(* The size dStr_insert_l doubles to.                                      *)
Doubled(ds, l) ==
  LET fits(k) == ds.len + l < ds.sz * 2 ^ k
  IN  ds.sz * 2 ^ (CHOOSE k \in 0 .. ds.len + l : fits(k) /\ \A j \in 0 .. k - 1 : ~fits(j))

InsertL(ds, pos, s) ==
  LET l == Len(s)
      roomy == IF Doubled(ds, l) > ds.sz THEN Resized(ds, Doubled(ds, l), ds.len > 0) ELSE ds
      moved == [i \in DOMAIN roomy.str |->
                  IF i \in pos .. pos + l - 1 THEN s[i - pos + 1]
                  ELSE IF i \in pos + l .. ds.len + l - 1 THEN roomy.str[i - l]
                  ELSE roomy.str[i]]
  IN  IF l = 0 \/ pos \notin 0 .. ds.len THEN ds
      ELSE [roomy EXCEPT !.len = @ + l, !.str = Poked(moved, ds.len + l, NulByte)]

AppendC(ds, c) ==
  IF ds.sz > ds.len + 1
  THEN [ds EXCEPT !.str = Poked(Poked(@, ds.len, c), ds.len + 1, NulByte), !.len = @ + 1]
  ELSE InsertL(ds, ds.len, <<c>>)

Truncated(ds, len) ==
  IF len < ds.len THEN [ds EXCEPT !.str = Poked(@, len, NulByte), !.len = len] ELSE ds

Erased(ds, pos, len) ==
  LET moved == [i \in DOMAIN ds.str |->
                  IF i \in pos .. ds.len - len - 1 THEN ds.str[i + len] ELSE ds.str[i]]
  IN  IF pos < 0 \/ len <= 0 \/ pos + len > ds.len THEN ds
      ELSE [ds EXCEPT !.len = @ - len, !.str = Poked(moved, ds.len - len, NulByte)]

(* dStr_vsprintfa: vsnprintf writes what fits and says what it needed.     *)
Printed(ds, s) ==
  LET n == Len(s)
      fits == n < ds.sz - ds.len
      roomy == IF fits THEN ds ELSE Resized(ds, ds.len + n + 1, ds.len > 0)
      put == [i \in DOMAIN roomy.str |->
                IF i \in ds.len .. ds.len + n - 1 THEN s[i - ds.len + 1] ELSE roomy.str[i]]
  IN  [roomy EXCEPT !.len = @ + n, !.str = Poked(put, ds.len + n, NulByte)]

Same == UNCHANGED <<list, items, line>>
ShortTexts == UNION {[1 .. n -> DlibBytes] : n \in 1 .. 2}

NewString == \E n \in 0 .. 3 : dstr' = NewDstr(n) /\ text' = <<>> /\ Same

InsertText == \E s \in ShortTexts, pos \in 0 .. Len(text) :
  /\ Len(text) + Len(s) <= MaxText
  /\ dstr' = InsertL(dstr, pos, s)
  /\ text' = SubSeq(text, 1, pos) \o s \o SubSeq(text, pos + 1, Len(text))
  /\ Same

AppendByte == \E c \in DlibBytes \cup {NulByte} :
  /\ Len(text) < MaxText
  /\ dstr' = AppendC(dstr, c) /\ text' = Append(text, c)
  /\ Same

Truncate == \E n \in 0 .. MaxText :
  /\ dstr' = Truncated(dstr, n)
  /\ text' = IF n < Len(text) THEN SubSeq(text, 1, n) ELSE text
  /\ Same

Erase == \E pos \in 0 .. MaxText, n \in 0 .. 2 :
  /\ dstr' = Erased(dstr, pos, n)
  /\ text' = IF pos + n <= Len(text)
             THEN SubSeq(text, 1, pos) \o SubSeq(text, pos + n + 1, Len(text)) ELSE text
  /\ Same

Fit == dstr' = Resized(dstr, dstr.len + 1, TRUE) /\ text' = text /\ Same

Sprintf == \E s \in ShortTexts, append \in BOOLEAN :
  LET old == IF append THEN dstr ELSE Truncated(dstr, 0)
      before == IF append THEN text ELSE <<>> IN
  /\ Len(before) + Len(s) <= MaxText
  /\ dstr' = Printed(old, s) /\ text' = before \o s
  /\ Same

(***************************************************************************)
(* Lists.                                                                  *)
(***************************************************************************)
(* dList_insert_pos, and the places that are computed for it.              *)
InsertPos(l, data, pos) ==
  IF pos \notin 0 .. l.len THEN l
  ELSE [sz |-> IF l.sz = l.len THEN 2 * l.sz ELSE l.sz,
        len |-> l.len + 1,
        list |-> SubSeq(l.list, 1, pos) \o <<data>> \o SubSeq(l.list, pos + 1, l.len)]

Where(l, data) == LET at == {i \in 1 .. l.len : l.list[i] = data}
                  IN  IF at = {} THEN 0 ELSE Min(at)

Removed(l, data) ==
  IF Where(l, data) = 0 THEN l
  ELSE [l EXCEPT !.len = @ - 1, !.list = RemoveAt(@, Where(l, data))]

RemovedFast(l, data) ==
  IF Where(l, data) = 0 THEN l
  ELSE [l EXCEPT !.len = @ - 1,
                 !.list = SubSeq([@ EXCEPT ![Where(l, data)] = l.list[l.len]], 1, l.len - 1)]

(* The two halving searches: the place data goes to, and where it is.      *)
RECURSIVE SortedPlace(_, _, _, _, _, _)
SortedPlace(l, data, min, max, i, st) ==
  IF min > max THEN IF st >= 0 THEN i ELSE i + 1
  ELSE LET k == (min + max) \div 2
           cmp == l.list[k + 1] - data
       IN  CASE cmp < 0 -> SortedPlace(l, data, k + 1, max, k, cmp)
             [] cmp > 0 -> SortedPlace(l, data, min, k - 1, k, cmp)
             [] OTHER -> k

InsertSorted(l, data) == InsertPos(l, data, SortedPlace(l, data, 0, l.len - 1, 0, 0))

RECURSIVE FindSorted(_, _, _, _)
FindSorted(l, data, min, max) ==
  LET k == (min + max) \div 2 IN
  CASE min > max -> FALSE
    [] l.list[k + 1] < data -> FindSorted(l, data, k + 1, max)
    [] l.list[k + 1] > data -> FindSorted(l, data, min, k - 1)
    [] OTHER -> TRUE

(* QuickSort: one pass over a[left .. right] exchanges what is on the      *)
(* wrong side of *t, which may itself move.                                *)
RECURSIVE Partition(_)
Partition(s) ==
  LET a == s.a
      p == Min({i \in s.p .. Len(a) : i = s.t \/ a[i] >= a[s.t]})
      q == Max({i \in 1 .. s.q : i = s.t \/ a[i] <= a[s.t]})
      swapped == [a EXCEPT ![p] = a[q], ![q] = a[p]]
      t == CASE p = q -> s.t [] s.t = p -> q [] s.t = q -> p [] OTHER -> s.t
      next == [a |-> swapped, p |-> p + 1, q |-> q - 1, t |-> t]
  IN  CASE p > q -> [s EXCEPT !.p = p, !.q = q]
        [] p + 1 > q - 1 -> next
        [] OTHER -> Partition(next)

RECURSIVE QuickSort(_, _, _)
QuickSort(a, left, right) ==
  LET s == Partition([a |-> a, p |-> left, q |-> right, t |-> left])
      low == IF left < s.q THEN QuickSort(s.a, left, s.q) ELSE s.a
  IN  IF s.p < right THEN QuickSort(low, s.p, right) ELSE low

Sorted(l) == IF l.len > 1 THEN [l EXCEPT !.list = QuickSort(@, 1, l.len)] ELSE l

Rest == UNCHANGED <<dstr, text, line>>

Insert == \E e \in Elements, pos \in 0 .. Len(items) :
  /\ Len(items) < MaxItems
  /\ list' = InsertPos(list, e, pos) /\ items' = InsertAt(items, pos + 1, e)
  /\ Rest

Discard == \E e \in Elements, fast \in BOOLEAN :
  /\ list' = IF fast THEN RemovedFast(list, e) ELSE Removed(list, e)
  /\ items' = IF ~Contains(items, e) THEN items
              ELSE LET i == SelectInSeq(items, LAMBDA x : x = e) IN
                     IF fast /\ i < Len(items)
                     THEN SubSeq([items EXCEPT ![i] = items[Len(items)]], 1, Len(items) - 1)
                     ELSE RemoveAt(items, i)
  /\ Rest

(***************************************************************************)
(* Helpers on strings: a line stands for the characters before its Nul.    *)
(***************************************************************************)
IsSpace(c) == c \in {" ", "LF"}
Lowered(c) == IF c = "A" THEN "a" ELSE c

RECURSIVE Stripped(_)
Stripped(s) ==
  CASE s # <<>> /\ IsSpace(s[1]) -> Stripped(Tail(s))
    [] s # <<>> /\ IsSpace(s[Len(s)]) -> Stripped(Front(s))
    [] OTHER -> s

(* dStristr: i goes back by what had matched, and on by one.               *)
RECURSIVE Match(_, _, _, _)
Match(s, needle, i, j) ==
  CASE i > Len(s) \/ j > Len(needle) -> IF j > Len(needle) THEN (i - j) + 1 ELSE -1
    [] Lowered(s[i]) = Lowered(needle[j]) -> Match(s, needle, i + 1, j + 1)
    [] OTHER -> Match(s, needle, (i - (j - 1)) + 1, 1)
Stristr(s, needle) == Match(s, needle, 1, 1)

(* dParser_parse_rc_line: the name ends at the first blank or `=', only    *)
(* blanks may be between them, and one pair of quotes is taken off.        *)
StringFrom(s, i) == SubSeq(s, i, Len(s))
SkipBlanks(s) == LET on == {i \in 1 .. Len(s) : ~IsSpace(s[i])}
                 IN  IF on = {} THEN <<>> ELSE StringFrom(s, Min(on))

ParseRcLine(l) ==
  LET s == Stripped(l)
      eq == SelectInSeq(s, LAMBDA c : c = "=")
      end == SelectInSeq(s, LAMBDA c : c = "=" \/ IsSpace(c))
      after == IF end < eq THEN SkipBlanks(StringFrom(s, end + 1)) ELSE StringFrom(s, eq)
      value == SkipBlanks(Tail(after))
  IN  CASE s = <<>> -> [ret |-> 1, name |-> <<>>, value |-> <<>>]
        [] s # <<>> /\ s[1] = "#" -> [ret |-> 1, name |-> <<>>, value |-> <<>>]
        [] s # <<>> /\ s[1] # "#" /\ eq = 0 -> [ret |-> -1, name |-> <<>>, value |-> <<>>]
        [] OTHER ->
             LET name == SubSeq(s, 1, end - 1) IN
               IF Len(after) # Len(s) - eq + 1 THEN [ret |-> -1, name |-> name, value |-> <<>>]
               ELSE [ret |-> 0, name |-> name,
                     value |-> IF Len(value) >= 2 /\ value[1] = "Q" /\ value[Len(value)] = "Q"
                               THEN SubSeq(value, 2, Len(value) - 1) ELSE value]

DlibInit ==
  /\ dstr = NewDstr(0) /\ text = <<>>
  /\ list = [list |-> <<>>, sz |-> 1, len |-> 0] /\ items = <<>>
  /\ line \in RcLines

StringNext ==
  NewString \/ InsertText \/ AppendByte \/ Truncate \/ Erase \/ Fit \/ Sprintf

ListNext == Insert \/ Discard

----------------------------------------------------------------------------
(* The memory of a string holds its bytes and the Nul after them, whatever *)
(* it was grown, cut, shrunk or printed into.                              *)
StringIsWhole ==
  /\ dstr.len = Len(text) /\ dstr.len < dstr.sz
  /\ \A i \in 1 .. Len(text) : dstr.str[i - 1] = text[i]
  /\ dstr.str[dstr.len] = NulByte

(* A list holds what was put in it; sorting it permutes it, the halving    *)
(* insertion keeps it sorted and the halving search finds what is there.   *)
ListIsRight ==
  LET sorted == Sorted(list) IN
  /\ list.list = items /\ list.len = Len(items) /\ list.len <= list.sz
  /\ sorted.list = SortSeq(items, LAMBDA a, b : a < b)
  /\ \A e \in Elements :
       /\ InsertSorted(sorted, e).list = SortSeq(Append(items, e), LAMBDA a, b : a < b)
       /\ FindSorted(sorted, e, 0, list.len - 1) <=> Contains(items, e)

(* A line is "name = value" with any blanks around, and nothing else is;   *)
(* the first match of a needle is found whatever its case.                 *)
Blanks(s) == \A i \in 1 .. Len(s) : IsSpace(s[i])
Meant(l, first, eq, last) ==
  LET name == {k \in first .. eq : Blanks(SubSeq(l, k, eq - 1))} IN
  [name |-> SubSeq(l, first, Min(name) - 1),
   value |-> Stripped(SubSeq(l, eq + 1, last))]
LineIsParsed ==
  LET r == ParseRcLine(line)
      solid == {i \in 1 .. Len(line) : ~IsSpace(line[i])}
      eqs == {i \in solid : line[i] = "="}
      comment == solid = {} \/ line[Min(solid)] = "#"
      lower(s) == [i \in 1 .. Len(s) |-> Lowered(s[i])]
  IN  /\ r.ret = 1 <=> comment
      /\ ~comment /\ eqs # {} =>
           LET m == Meant(line, Min(solid), Min(eqs), Max(solid)) IN
             /\ r.ret = 0 <=> \A i \in 1 .. Len(m.name) : ~IsSpace(m.name[i])
             /\ r.ret = 0 => r.name = m.name /\ r.value \in {m.value, SubSeq(m.value, 2, Len(m.value) - 1)}
      /\ \A n \in 1 .. 3, i \in 1 .. Len(line) :
           LET needle == SubSeq(line, i, i + n - 1)
               at == {k \in 1 .. Len(line) - n + 1 : lower(SubSeq(line, k, k + n - 1)) = lower(needle)}
           IN  i + n - 1 <= Len(line) => Stristr(line, needle) = Min(at)

DlibIsRight == StringIsWhole /\ ListIsRight /\ LineIsParsed
=============================================================================
