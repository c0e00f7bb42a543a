-------------------------------- MODULE File --------------------------------
(***************************************************************************)
(* Local files and directories (file.c): a file: url is made into a path,  *)
(* and what is there is sent as it is, as a listing whose links lead to    *)
(* the entries, or as an error.  A string is a sequence of characters; an  *)
(* entity of HTML is one of them.                                          *)
(***************************************************************************)
EXTENDS Integers, Sequences, FiniteSets, SequencesExt

CONSTANTS Dirs,      \* the paths of the directories on the disk
          DiskFiles,     \* and of the files
          DataOf(_), \* what is in a file
          Typed,     \* urls that the user types
          Guess(_),  \* File_get_content_type_from_data, of the data of a file
          NoType     \* NULL

VARIABLES path,      \* of the page that is shown
          page,      \* what was read: [kind, ...]
          type       \* the content type it was given

fileVars == <<path, page, type>>

IsDir(p) == p \in Dirs

(* Escape_uri_str and File_parse_hex_octet: characters as two hex digits.  *)
Octets == ("%" :> <<"2", "5">>) @@ ("#" :> <<"2", "3">>) @@ (":" :> <<"3", "A">>)
          @@ ("'" :> <<"2", "7">>) @@ (" " :> <<"2", "0">>)
Escaped == DOMAIN Octets

EscapeUri(s) ==
  FlattenSeq([i \in DOMAIN s |-> IF s[i] \in Escaped THEN <<"%">> \o Octets[s[i]] ELSE <<s[i]>>])

(* Escape_html_str, and what the parser makes of an attribute.             *)
HtmlEntity == ("&" :> "&amp;") @@ ("<" :> "&lt;") @@ (">" :> "&gt;") @@ ("\"" :> "&quot;")
            @@ ("'" :> "&#39;")
EscapeHtml(s) == [i \in DOMAIN s |-> IF s[i] \in DOMAIN HtmlEntity THEN HtmlEntity[s[i]] ELSE s[i]]
Attribute(s) ==
  [i \in DOMAIN s |-> IF \E c \in DOMAIN HtmlEntity : HtmlEntity[c] = s[i]
                      THEN CHOOSE c \in DOMAIN HtmlEntity : HtmlEntity[c] = s[i] ELSE s[i]]

(* a_Url_new: a space of a link is encoded, and the link taken relative to *)
(* the directory of its base; a fragment stays part of the url.            *)
NewUrl(link, base) ==
  LET absolute == Len(link) > 0 /\ link[1] = "/"
      encoded == FlattenSeq([i \in DOMAIN link |->
                   IF link[i] = " " THEN <<"%", "2", "0">> ELSE <<link[i]>>])
  IN  IF absolute THEN encoded ELSE base \o encoded

(* File_normalize_path: one slash in front, the octets decoded in place,   *)
(* and what follows the last `#' cut off, unless there is such a file.     *)
(* A mutant: the decoded character is looked at again.                     *)
RECURSIVE Mut_Decode(_, _)
Mut_Decode(s, i) ==
  IF i > Len(s) THEN s
  ELSE IF s[i] = "%" /\ i + 2 <= Len(s) /\ \E c \in Escaped : Octets[c] = SubSeq(s, i + 1, i + 2)
  THEN LET c == CHOOSE c \in Escaped : Octets[c] = SubSeq(s, i + 1, i + 2)
       IN  Mut_Decode(SubSeq(s, 1, i - 1) \o <<c>> \o SubSeq(s, i + 3, Len(s)),
                      IF c = "%" THEN i ELSE i + 1)
  ELSE Mut_Decode(s, i + 1)

RECURSIVE DecodePath(_, _)
DecodePath(s, i) ==
  IF i > Len(s) THEN s
  ELSE IF s[i] = "%" /\ i + 2 <= Len(s) /\ \E c \in Escaped : Octets[c] = SubSeq(s, i + 1, i + 2)
  THEN LET c == CHOOSE c \in Escaped : Octets[c] = SubSeq(s, i + 1, i + 2)
       IN  DecodePath(SubSeq(s, 1, i - 1) \o <<c>> \o SubSeq(s, i + 3, Len(s)), i + 1)
  ELSE DecodePath(s, i + 1)

RECURSIVE OneSlash(_)
OneSlash(s) == IF Len(s) > 1 /\ s[1] = "/" /\ s[2] = "/" THEN OneSlash(Tail(s)) ELSE s

(* stat: a directory is there with and without a slash at its end.         *)
Bare(p) == IF Len(p) > 1 /\ p[Len(p)] = "/" THEN Front(p) ELSE p
IsThere(p) == IsDir(Bare(p)) \/ p \in DiskFiles

NormalizePath(url) ==
  LET p == DecodePath(OneSlash(url), 1)
      hash == SelectLastInSeq(p, LAMBDA c : c = "#")
  IN  IF hash # 0 /\ ~IsThere(p) THEN SubSeq(p, 1, hash - 1) ELSE p

(* File_dillodir_new: what is in a directory and not hidden; directories   *)
(* first, then by name.                                                    *)
WithSlash(p) == IF p[Len(p)] = "/" THEN p ELSE Append(p, "/")
Hidden(name) == name[1] \in {".", "#"} \/ name[Len(name)] = "~"
NamesIn(p) ==
  {n \in {SubSeq(q, Len(WithSlash(p)) + 1, Len(q)) :
            q \in {q \in Dirs \cup DiskFiles : IsStrictPrefix(WithSlash(p), q)}} :
     ~Contains(n, "/") /\ ~Hidden(n)}

Order == <<" ", "%", "&", "'", "-", ".", "2", "3", ":", "\"", "#", "?", "a", "b", "g">>
RankOf(c) == SelectInSeq(Order, LAMBDA x : x = c)
RECURSIVE Strcmp(_, _)
Strcmp(s, t) == IF s = <<>> \/ t = <<>> THEN s = <<>> /\ t # <<>>
                ELSE IF s[1] = t[1] THEN Strcmp(Tail(s), Tail(t)) ELSE RankOf(s[1]) < RankOf(t[1])
FileComp(p, m, n) ==
  LET a == IsDir(WithSlash(p) \o m)
      b == IsDir(WithSlash(p) \o n)
  IN  IF a = b THEN Strcmp(m, n) ELSE a

(* File_info2html, File_print_parent_dir and File_send_dir.                *)
LinkTo(name) == EscapeHtml(EscapeUri(name))
ParentOf(p) ==
  LET cut == Front(WithSlash(p))
  IN  SubSeq(cut, 1, SelectLastInSeq(cut, LAMBDA c : c = "/"))

SendDir(p) ==
  LET dirname == WithSlash(p)
      before(n) == {m \in NamesIn(p) : FileComp(p, m, n)}
      names == [i \in 1 .. Cardinality(NamesIn(p)) |->
                  CHOOSE n \in NamesIn(p) : Cardinality(before(n)) = i - 1]
  IN  [kind |-> "dir", base |-> EscapeHtml(EscapeUri(dirname)),
       parent |-> IF dirname = <<"/">> THEN <<>> ELSE EscapeHtml(EscapeUri(ParentOf(p))),
       links |-> [i \in DOMAIN names |-> LinkTo(names[i])]]

(* a_File_open and a_File_read.                                            *)
Read(p) ==
  IF ~IsThere(p) THEN [kind |-> "error"]
  ELSE IF IsDir(Bare(p)) THEN SendDir(p)
  ELSE [kind |-> "file", data |-> DataOf(p)]

(* File_content_type: by the extension, else by the data.                  *)
ExtTypes == (<<"g">> :> "image/gif") @@ (<<"b">> :> "text/html")
Extension(p) == LET dot == SelectLastInSeq(p, LAMBDA c : c = ".")
                IN  IF dot = 0 THEN <<>> ELSE SubSeq(p, dot + 1, Len(p))
ContentType(p) ==
  IF Extension(p) \in DOMAIN ExtTypes THEN ExtTypes[Extension(p)]
  ELSE IF IsThere(p) /\ ~IsDir(Bare(p)) THEN Guess(DataOf(p))
  ELSE NoType

(* Cache_inject_file.                                                      *)
InjectFile(url) ==
  LET p == NormalizePath(url) IN
    path' = p /\ page' = Read(p) /\ type' = ContentType(p)

TypeUrl == \E u \in Typed : InjectFile(u)

Base == Attribute(page.base)
Follow == \E i \in DOMAIN page.links :
  page.kind = "dir" /\ InjectFile(NewUrl(Attribute(page.links[i]), Base))

GoToParent ==
  page.kind = "dir" /\ page.parent # <<>> /\ InjectFile(NewUrl(Attribute(page.parent), Base))

FileInit == path = <<"/">> /\ page = SendDir(<<"/">>) /\ type = NoType
FileNext == TypeUrl \/ (page.kind = "dir" /\ Follow) \/ GoToParent

----------------------------------------------------------------------------
(* A listing leads to every entry that is not hidden, in order, and to     *)
(* nothing else, whatever its name is made of; the way up leads to where   *)
(* the way down came from.                                                 *)
ListingIsTrue ==
  page.kind = "dir" =>
    LET goal(i) == NormalizePath(NewUrl(Attribute(page.links[i]), Base)) IN
      /\ {goal(i) : i \in DOMAIN page.links} = {WithSlash(path) \o n : n \in NamesIn(path)}
      /\ Len(page.links) = Cardinality(NamesIn(path))
      /\ \A i, j \in DOMAIN page.links : IsDir(goal(j)) /\ ~IsDir(goal(i)) => j < i
      /\ \A i \in DOMAIN page.links : IsThere(goal(i))
      /\ page.parent # <<>> =>
           LET up == NormalizePath(NewUrl(Attribute(page.parent), Base)) IN
             IsDir(Bare(up)) /\ \E n \in NamesIn(up) : up \o n = Bare(path)
=============================================================================
