--------------------------------- MODULE Url ---------------------------------
(***************************************************************************)
(* URL resolution, Url_resolve_relative and a_Url_cmp of src/src/url.c: a     *)
(* page's links are resolved against its own URL, and followed.              *)
(*                                                                         *)
(* A URL is its parts; an absent one is None, as NULL is in a DilloUrl.  A    *)
(* path is whether it begins with a slash and the segments between slashes,   *)
(* so that the empty string is one empty segment.                           *)
(***************************************************************************)
EXTENDS Integers, Sequences, SequencesExt

CONSTANTS Bases,       \* the URLs that are typed
          References,  \* what links refer to
          MaxSegments, \* bound on the length of the paths that are followed
          NoPart       \* NULL

VARIABLES base,  \* the URL of the page
          ref    \* the link that was followed last

urlVars == <<base, ref>>

EmptyPath == [abs |-> FALSE, segs |-> <<"">>]
Empty(path) == path = NoPart \/ path = EmptyPath
Url(scheme, authority, path, query, fragment) ==
    [scheme |-> scheme, authority |-> authority, path |-> path, query |-> query,
     fragment |-> fragment]

----------------------------------------------------------------------------
(* The path of Url_resolve_relative. *)

\* The base path up to its last slash, and the path of the reference.
Merged(basePath, path) ==
    IF path.abs THEN path
    ELSE IF basePath = NoPart THEN path
    ELSE [abs |-> basePath.abs, segs |-> Front(basePath.segs) \o path.segs]

\* erase "./": the search ends at the first segment that ends with a dot and is not ".".
Dotted(segs, i) == i < Len(segs) /\ segs[i] \in {".", ".."}
EraseDots(path) ==
    LET segs == path.segs
        stops == {i \in DOMAIN segs : Dotted(segs, i) /\ segs[i] # "."}
        before(i) == \A j \in stops : i < j
        keep == SelectSeq([i \in DOMAIN segs |-> i],
                          LAMBDA i : ~(Dotted(segs, i) /\ segs[i] = "." /\ before(i)))
    IN [path EXCEPT !.segs = [k \in DOMAIN keep |-> segs[keep[k]]]]

\* erase last "."
EraseLastDot(path) ==
    [path EXCEPT !.segs = IF Last(@) = "." THEN Append(Front(@), "") ELSE @]

\* Seeded bug: what climbs above the top is kept.
Mut_EraseParents(path) ==
    LET climb(st, seg) == IF seg = ".." /\ st.segs # <<>> THEN [st EXCEPT !.segs = Front(@)]
                          ELSE [st EXCEPT !.segs = Append(@, seg)]
    IN FoldLeft(climb, [abs |-> path.abs, segs |-> <<>>], path.segs)

\* erase "<segment>/../" and "<segment>/..".  A first segment is erased without the slash
\* that follows, so that the path becomes an absolute one.
EraseParents(path) ==
    LET n == Len(path.segs)
        climb(st, i) ==
            LET seg == path.segs[i]
                first == st.segs = <<>> \/ (~st.abs /\ Len(st.segs) = 1)
                up == IF st.segs = <<>> THEN <<>> ELSE Front(st.segs)
            IN IF seg # ".." \/ (~st.abs /\ st.segs = <<>>)
               THEN [st EXCEPT !.segs = Append(@, seg)]
               ELSE IF i < n THEN [abs |-> st.abs \/ first, segs |-> up]
               ELSE IF first THEN EmptyPath
               ELSE [abs |-> st.abs, segs |-> Append(up, "")]
    IN FoldLeft(climb, [abs |-> path.abs, segs |-> <<>>], [i \in 1..n |-> i])

----------------------------------------------------------------------------
\* Url_resolve_relative
Resolve(b, r) ==
    IF r.path = NoPart /\ r.scheme = NoPart /\ r.authority = NoPart
    THEN [b EXCEPT !.path = IF @ = NoPart THEN [abs |-> TRUE, segs |-> <<"">>] ELSE @,
                   !.query = IF r.query = NoPart THEN @ ELSE r.query,
                   !.fragment = r.fragment]
    ELSE IF r.scheme # NoPart THEN r
    ELSE LET path == IF r.authority # NoPart
                     THEN IF r.path = NoPart THEN EmptyPath ELSE r.path
                     ELSE EraseParents(EraseLastDot(EraseDots(Merged(b.path, r.path))))
             authority == IF r.authority # NoPart THEN r.authority ELSE b.authority
             slash == \/ Empty(path) /\ (r.query # NoPart \/ r.fragment # NoPart)
                      \/ ~Empty(path) /\ ~path.abs
         IN Url(b.scheme, authority,
                IF authority # NoPart /\ slash THEN [path EXCEPT !.abs = TRUE]
                ELSE IF Empty(path) THEN NoPart ELSE path,
                r.query, r.fragment)

\* a_Url_cmp: a path that is missing is as one slash, and the fragment does not count.
PathCmp(path) == IF Empty(path) THEN <<"">> ELSE path.segs
Same(u, v) ==
    /\ u.authority = v.authority /\ PathCmp(u.path) = PathCmp(v.path)
    /\ u.query = v.query /\ u.scheme = v.scheme

----------------------------------------------------------------------------
(* RFC 3986, 5.2: the reference. *)

RemoveDotSegments(segs) ==
    LET n == Len(segs)
        next(out, i) ==
            LET up == IF segs[i] = ".." THEN IF out = <<>> THEN out ELSE Front(out) ELSE out IN
            IF segs[i] \notin {".", ".."} THEN Append(out, segs[i])
            ELSE IF i = n THEN Append(up, "") ELSE up
    IN FoldLeft(next, <<>>, [i \in 1..n |-> i])

Rfc(b, r) ==
    LET clean(path) == [abs |-> TRUE, segs |-> RemoveDotSegments(path.segs)]
        merged == IF r.path.abs \/ Empty(b.path) THEN r.path.segs
                  ELSE Front(b.path.segs) \o r.path.segs
        pathOf(u) == IF u.path = NoPart THEN NoPart ELSE clean(u.path)
    IN IF r.scheme # NoPart THEN [r EXCEPT !.path = pathOf(r)]
       ELSE IF r.authority # NoPart THEN [r EXCEPT !.scheme = b.scheme, !.path = pathOf(r)]
       ELSE IF r.path = NoPart
       THEN [b EXCEPT !.query = IF r.query = NoPart THEN @ ELSE r.query, !.fragment = r.fragment]
       ELSE Url(b.scheme, b.authority, [abs |-> TRUE, segs |-> RemoveDotSegments(merged)],
                r.query, r.fragment)

----------------------------------------------------------------------------
UrlInit == base \in Bases /\ ref = NoPart

\* a_Url_new with the URL of the page, and the page it names is opened.
Follow(r) ==
    LET u == Resolve(base, r) IN
    /\ u.path # NoPart => Len(u.path.segs) <= MaxSegments
    /\ base' = u /\ ref' = r

UrlNext == \E r \in References : Follow(r)
UrlSpec == UrlInit /\ [][UrlNext]_urlVars

----------------------------------------------------------------------------
\* Names a segment "." behind a segment "..".
DotAfterParent(r) ==
    \E i, j \in DOMAIN r.path.segs : i < j /\ r.path.segs[i] = ".." /\ r.path.segs[j] = "."
Clean(u) == u.path # NoPart /\ \A i \in DOMAIN u.path.segs : u.path.segs[i] \notin {".", ".."}
Parented(r) == r.path # NoPart /\ r.scheme = NoPart /\ r.authority = NoPart /\ ~DotAfterParent(r)

\* A link is resolved as RFC 3986 has it, up to what a_Url_cmp tells apart, from whatever
\* page links have led to: however many levels it climbs.  References with a "." behind a
\* "..", or with dots and an authority, and those of a page without a path, are another
\* matter: they may lead to a path that has dots.
ResolvesAsRfc ==
    [][ref' # NoPart =>
         (ref'.path = NoPart \/ (Parented(ref') /\ Clean(base)) =>
             Same(base', Rfc(base, ref')) /\ base'.fragment = ref'.fragment)]_urlVars
=============================================================================
