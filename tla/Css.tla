--------------------------------- MODULE Css ---------------------------------
(***************************************************************************)
(* The style engine, src/src/styleengine.cc, with the cascade and the        *)
(* selector matching of src/src/css.cc and the document tree of doctree.hh.  *)
(*                                                                         *)
(* The HTML parser opens and closes elements; the style of an element is     *)
(* computed once, at the latest when a child is opened, from the rules that   *)
(* are known by then.  Rules come in while the document is parsed.           *)
(*                                                                         *)
(* What a declaration sets is abstracted to who set it: a value is the level  *)
(* of the cascade and, for a rule, its position.  `known' remembers, for the  *)
(* properties, how many rules there were when a style was computed.          *)
(***************************************************************************)
EXTENDS Integers, Sequences, FiniteSets, FiniteSetsExt, SequencesExt

CONSTANTS Kinds,      \* elements with their attributes, see Start
          Rulesets,   \* what a style sheet may contain, see Parse
          MaxNodes,   \* bound on the elements of a document
          MaxRulesets,\* bound on the rulesets of a document
          NoStyle     \* NULL, where a style may stand

VARIABLES nodes,     \* the document tree: node -> its element and its place
          stack,     \* the open elements, outermost first
          selectors, \* selector -> its simple selectors, with the cache of each
          sheets,    \* level of the cascade -> list -> the rules of that list
          rules,     \* rule -> its selector, what it sets, its specificity
          restyled   \* BODY was opened

cssVars == <<nodes, stack, selectors, sheets, rules, restyled>>

Properties == {"color", "background"}
Inherited == {"color"}
AnyElement == "*"
NoNode == 0

Node == DOMAIN nodes

----------------------------------------------------------------------------
(* The document tree. *)

Parent(v) == nodes[v].parent
Sibling(v) == nodes[v].sibling

\* The node and what it is in, up to the root.
Ancestors(v) ==
    LET up[n \in 0 .. Len(nodes)] == IF n = NoNode THEN {} ELSE {n} \union up[Parent(n)]
    IN up[v]

\* Doctree::push.  A node has the number of its place in nodes, one more than its num.
Pushed(kind) ==
    LET parent == IF stack = <<>> THEN NoNode ELSE Last(stack).node
        before == {v \in Node : Parent(v) = parent}
    IN Append(nodes, [kind |-> kind, parent |-> parent,
                      sibling |-> IF before = {} THEN NoNode ELSE Max(before)])

----------------------------------------------------------------------------
(* Selectors. *)

SimpleMatch(simple, v) ==
    LET kind == nodes[v].kind
    IN /\ simple.element \in {AnyElement, kind.element}
       /\ simple.pseudo \in {"", kind.pseudo}
       /\ simple.id \in {"", kind.id}
       /\ ToSet(simple.klass) \subseteq ToSet(kind.klass)

SimpleSpecificity(simple) ==
    (IF simple.id = "" THEN 0 ELSE 1048576) + (1024 * Len(simple.klass))
    + (IF simple.pseudo = "" THEN 0 ELSE 1024) + (IF simple.element = AnyElement THEN 0 ELSE 1)

Specificity(parts) == FoldLeft(LAMBDA spec, part : spec + SimpleSpecificity(part.simple), 0, parts)

\* CssSelector::match.  The search for an ancestor does not look below the last node that
\* it once failed from: nothing there matched.  A search that fails leaves its start at
\* `failed' of its simple selector `at'.
Match(parts, node) ==
    LET no == [yes |-> FALSE, at |-> 0, failed |-> 0]
        comb(i) == IF i = Len(parts) THEN "child" ELSE parts[i + 1].combinator
        next(i, v) == IF parts[i].combinator = "adjacent" THEN Sibling(v) ELSE Parent(v)
        from[i \in 0 .. Len(parts), v \in 0 .. Len(nodes)] ==
            LET found == {u \in Ancestors(v) : /\ u > parts[i].notMatchingBefore
                                               /\ SimpleMatch(parts[i].simple, u)}
            IN IF i = 0 THEN [no EXCEPT !.yes = TRUE]
               ELSE IF v = NoNode THEN no
               ELSE IF comb(i) = "descendant"
                    THEN IF found = {} THEN [no EXCEPT !.at = i, !.failed = v]
                         ELSE from[i - 1, next(i, Max(found))]
               ELSE IF SimpleMatch(parts[i].simple, v) THEN from[i - 1, next(i, v)] ELSE no
    IN from[Len(parts), node]

\* Seeded bug: the search remembers where it ended, not where it began.
Mut_Remember(sels, rule, m) ==
    IF m.at = 0 THEN sels
    ELSE [sels EXCEPT ![rules[rule].selector][m.at].notMatchingBefore = Len(nodes) + 1]

\* What the match m of a rule leaves in the cache of its selector.
Remember(sels, rule, m) ==
    IF m.at = 0 THEN sels
    ELSE [sels EXCEPT ![rules[rule].selector][m.at].notMatchingBefore = m.failed]

----------------------------------------------------------------------------
(* Style sheets. *)

Levels == <<"agent", "user", "author", "author!", "user!">>

\* The list that addRule puts a rule in, by the last simple selector.
ListOf(simple) ==
    IF simple.id # "" THEN <<"id", simple.id>>
    ELSE IF simple.klass # <<>> THEN <<"class", simple.klass[1]>>
    ELSE <<"element", simple.element>>

\* The lists that apply looks at.
ListsOf(kind) ==
    (IF kind.id = "" THEN <<>> ELSE << <<"id", kind.id>> >>)
    \o [i \in DOMAIN kind.klass |-> <<"class", kind.klass[i]>>]
    \o << <<"element", kind.element>>, <<"element", AnyElement>> >>

List(sheet, name) == IF name \in DOMAIN sheet THEN sheet[name] ELSE <<>>

\* RuleList::insert
Insert(list, rule, table) ==
    LET behind == {i \in DOMAIN list : table[list[i]].spec <= table[rule].spec}
        at == IF behind = {} THEN 1 ELSE Max(behind) + 1
    IN InsertAt(list, at, rule)

\* CssStyleSheet::apply: the lists are merged, the least (specificity, position) first.
Merge(sheet, kind) ==
    LET lists == [i \in DOMAIN ListsOf(kind) |-> List(sheet, ListsOf(kind)[i])]
        rank(r) == <<rules[r].spec, r>>
        less(a, b) == a[1] < b[1] \/ (a[1] = b[1] /\ a[2] < b[2])
        take(st, n) ==
            LET left == {i \in DOMAIN lists : st.index[i] < Len(lists[i])}
                head(i) == lists[i][st.index[i] + 1]
                best == CHOOSE i \in left :
                            \A j \in left : /\ ~less(rank(head(j)), rank(head(i)))
                                            /\ head(i) = head(j) => i <= j
            IN [index |-> [st.index EXCEPT ![best] = @ + 1], out |-> Append(st.out, head(best))]
        total == FoldLeft(LAMBDA n, list : n + Len(list), 0, lists)
    IN FoldLeft(take, [index |-> [i \in DOMAIN lists |-> 0], out |-> <<>>],
                [n \in 1 .. total |-> n]).out

\* CssPropertyList::apply, onto st.props.
Assign(st, props, who) ==
    [st EXCEPT !.props = [p \in Properties |-> IF p \in props THEN who ELSE @[p]]]

Tried(st, rule, level, m) ==
    LET cached == [st EXCEPT !.selectors = Remember(@, rule, m)]
    IN IF m.yes THEN Assign(cached, rules[rule].props, <<level, rule>>) ELSE cached

ApplySheet(st, level, node) ==
    LET one(acc, rule) ==
            Tried(acc, rule, level, Match(acc.selectors[rules[rule].selector], node))
    IN FoldLeft(one, st, Merge(sheets[level], nodes[node].kind))

\* What the element says itself, before the rules of a level are applied.
Own(st, kind, level) ==
    CASE level = "author"  -> Assign(st, kind.hints, <<"hints", 0>>)
      [] level = "author!" -> Assign(st, kind.tagStyle, <<"tag", 0>>)
      [] level = "user!"   -> Assign(st, kind.tagStyleImportant, <<"tag!", 0>>)
      [] OTHER -> st

\* CssContext::apply
Cascade(sels, node) ==
    FoldLeft(LAMBDA st, level : ApplySheet(Own(st, nodes[node].kind, level), level, node),
             [selectors |-> sels, props |-> [p \in Properties |-> NoStyle]], Levels)

----------------------------------------------------------------------------
(* The style engine.  The dummy at the bottom of its stack has the initial style. *)

Initial == [p \in Properties |-> <<"initial", 0>>]
StyleBelow(st, i) == IF i = 1 THEN Initial ELSE st[i - 1].style

\* style0(i) on [stack, selectors].
Inherit(st, i, done) ==
    LET style == [p \in Properties |->
                     IF done.props[p] # NoStyle THEN done.props[p]
                     ELSE IF p \in Inherited THEN StyleBelow(st.stack, i)[p] ELSE Initial[p]]
    IN [selectors |-> done.selectors,
        stack |-> [st.stack EXCEPT ![i] = [@ EXCEPT !.style = style, !.known = Len(rules)]]]
Style0(st, i) == Inherit(st, i, Cascade(st.selectors, st.stack[i].node))

Top == Len(stack)
NotStyled == stack # <<>> /\ stack[Top].style = NoStyle
Here == [stack |-> stack, selectors |-> selectors]
Restyle(st) == stack' = st.stack /\ selectors' = st.selectors

\* startElement, and the attributes that the HTML parser sets right after it: the id, the
\* classes, the pseudo class of a link, style="..." and the hints.
StartElement(kind) ==
    /\ Len(nodes) < MaxNodes
    /\ nodes' = Pushed(kind)
    /\ \E below \in {IF NotStyled THEN Style0(Here, Top) ELSE Here} :
          Restyle([below EXCEPT !.stack =
              Append(@, [node |-> Len(nodes) + 1, style |-> NoStyle, known |-> 0])])
    /\ UNCHANGED <<sheets, rules, restyled>>

EndElement ==
    /\ stack # <<>>
    /\ stack' = Front(stack)
    /\ UNCHANGED <<nodes, selectors, sheets, rules, restyled>>

\* style(), for what the element shows.
Style ==
    /\ NotStyled
    /\ \E st \in {Style0(Here, Top)} : Restyle(st)
    /\ UNCHANGED <<nodes, sheets, rules, restyled>>

\* restyle()
Restyled == FoldLeft(Style0, Here, [i \in DOMAIN stack |-> i])

\* Html_tag_open_body, for the first BODY.
OpenBody ==
    /\ ~restyled
    /\ NotStyled
    /\ restyled' = TRUE
    /\ \E st \in {Restyled} : Restyle(st)
    /\ UNCHANGED <<nodes, sheets, rules>>

\* CssContext::addRule, for what a selector sets at a level.
AddRule(st, level, props, sel) ==
    LET parts == selectors'[sel]
        rule == Len(st.rules) + 1
        table == Append(st.rules, [selector |-> sel, props |-> props, level |-> level,
                                   spec |-> Specificity(parts)])
        list == ListOf(Last(parts).simple)
        sheet == st.sheets[level]
    IN IF props = {} THEN st
       ELSE [rules |-> table,
             sheets |-> [st.sheets EXCEPT ![level] =
                 [name \in DOMAIN sheet \union {list} |->
                     IF name = list THEN Insert(List(sheet, list), rule, table)
                     ELSE sheet[name]]]]

\* The end of CssParser::parseRuleset, with one selector: its cache is new, and the rule
\* of the declarations that are important shares it.
Parse(set) ==
    LET sel == Len(selectors) + 1
        plain == AddRule([rules |-> rules, sheets |-> sheets], set.origin, set.props, sel)
        both == IF set.origin = "agent" THEN plain
                ELSE AddRule(plain, IF set.origin = "user" THEN "user!" ELSE "author!",
                             set.important, sel)
    IN /\ Len(selectors) < MaxRulesets
       /\ set.origin # "author" => nodes = <<>>
       /\ selectors' = Append(selectors, [i \in DOMAIN set.parts |->
                           [simple |-> set.parts[i].simple, notMatchingBefore |-> 0,
                            combinator |-> set.parts[i].combinator]])
       /\ rules' = both.rules
       /\ sheets' = both.sheets
       /\ UNCHANGED <<nodes, stack, restyled>>

CssInit ==
    /\ nodes = <<>>
    /\ stack = <<>>
    /\ selectors = <<>>
    /\ sheets = [level \in ToSet(Levels) |-> <<>>]
    /\ rules = <<>>
    /\ restyled = FALSE

CssNext == \/ \E kind \in Kinds : StartElement(kind)
           \/ EndElement
           \/ Style
           \/ OpenBody
           \/ \E set \in Rulesets : Parse(set)

CssSpec == CssInit /\ [][CssNext]_cssVars

----------------------------------------------------------------------------
(* Properties. *)

\* A selector matches a node when its simple selectors match nodes that are related as its
\* combinators say.
Matches(parts, node) ==
    \E at \in [DOMAIN parts -> Node] :
        /\ at[Len(parts)] = node
        /\ \A i \in DOMAIN parts :
              /\ SimpleMatch(parts[i].simple, at[i])
              /\ i > 1 =>
                    CASE parts[i].combinator = "child" -> at[i - 1] = Parent(at[i])
                      [] parts[i].combinator = "adjacent" -> at[i - 1] = Sibling(at[i])
                      [] OTHER -> at[i - 1] \in Ancestors(at[i]) \ {at[i]}

\* What an element may get a property from: rank and value.
Sources(node, known, p) ==
    LET kind == nodes[node].kind
        rank == [level \in ToSet(Levels) |->
                    CASE level = "agent" -> 1 [] level = "user" -> 2 [] level = "author" -> 4
                      [] level = "author!" -> 6 [] OTHER -> 8]
        own(props, n, who) == IF p \in props THEN {[rank |-> <<n, 0, 0>>, who |-> who]} ELSE {}
    IN {[rank |-> <<rank[rules[r].level], rules[r].spec, r>>, who |-> <<rules[r].level, r>>] :
            r \in {r \in 1 .. known : /\ p \in rules[r].props
                                      /\ Matches(selectors[rules[r].selector], node)}}
       \union own(kind.hints, 3, <<"hints", 0>>) \union own(kind.tagStyle, 5, <<"tag", 0>>)
       \union own(kind.tagStyleImportant, 7, <<"tag!", 0>>)

Higher(a, b) ==
    \/ a[1] > b[1]
    \/ a[1] = b[1] /\ a[2] > b[2]
    \/ a[1] = b[1] /\ a[2] = b[2] /\ a[3] >= b[3]

\* An element that has a style has it from where CSS says: of all that sets a property, for
\* all the rules that were known, the highest in the order of the cascade, and else its
\* parent's, as it is now.  The code walks lists of rules, never visits an ancestor twice
\* and restyles the open elements when BODY is opened.
StyleIsRight ==
    \A i \in DOMAIN stack : stack[i].style # NoStyle =>
        \A p \in Properties :
            LET from == Sources(stack[i].node, stack[i].known, p)
            IN \/ \E s \in from : /\ \A o \in from : Higher(s.rank, o.rank)
                                  /\ stack[i].style[p] = s.who
               \/ /\ from = {}
                  /\ stack[i].style[p] = IF p \in Inherited THEN StyleBelow(stack, i)[p]
                                         ELSE Initial[p]
=============================================================================
