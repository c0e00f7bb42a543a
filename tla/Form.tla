-------------------------------- MODULE Form --------------------------------
(***************************************************************************)
(* A form that the user fills, resets and submits: the DilloHtmlForm of      *)
(* src/src/form.cc, the widgets of its controls in src/dw/fltkui.cc, and the *)
(* boundary that http.c finds in the data; and the search engine that        *)
(* "Create a search" in its menu makes of it (form.cc, menu.cc).             *)
(*                                                                         *)
(* A text is a sequence of characters.  In multipart data the line before a  *)
(* part, which the boundary makes, is one character too, so that a text may  *)
(* contain it.  Left out: the encoding to other charsets and the content     *)
(* type of a file.                                                          *)
(***************************************************************************)
EXTENDS Integers, Sequences, FiniteSets, SequencesExt, Prefs

CONSTANTS Forms,        \* the forms of a page, as the parser leaves them
          Texts,        \* what the user types
          Boundaries,   \* what rand() may give for a boundary
          Files,        \* the files the user may choose, with their content
          EnterForces,  \* prefs.enterpress_forces_submit
          Queries,      \* what the user types into the search bar
          Unset         \* NULL

VARIABLES form,      \* the form of the page
          controls,  \* the state of the widget of each control, and its file_data
          hiddens,   \* showing_hiddens
          clicked,   \* the control that submitted last
          wire,      \* the data it submitted: Unset when there was no submission
          origin,    \* the data of the form the last search was made from; or Unset
          opened     \* the query typed last, and the data of the URL it opened; or Unset

formVars == <<form, controls, hiddens, clicked, wire>>
searchVars == <<formVars, prefsVars, origin, opened>>

Inputs == DOMAIN form.inputs
Entries == {"text", "password", "index", "hidden"}
Toggles == {"checkbox", "radio"}
Selections == {"select", "list", "multi"}
Submits == {"submit", "image"}

FileSelector == <<"File selector">>
OrEmpty(text) == IF text = Unset THEN <<>> ELSE text

----------------------------------------------------------------------------
(* The controls. *)

\* ensureSelection and addOptionsTo: an option menu and a list of one selection keep the
\* last option that is selected.
SelectedAtFirst(c) ==
    LET selected == {k \in DOMAIN c.options : c.options[k].selected}
        ensured == IF selected = {} /\ c.options # <<>> THEN {1} ELSE selected
    IN IF c.type = "multi" \/ ensured = {} THEN ensured
       ELSE {CHOOSE k \in ensured : \A j \in ensured : j <= k}

NewControl(c) ==
    [text |-> IF c.type \in Entries \cup {"textarea"} THEN OrEmpty(c.value) ELSE <<>>,
     on |-> c.type \in Toggles /\ c.checked,
     chosen |-> IF c.type \in Selections THEN SelectedAtFirst(c) ELSE {},
     label |-> FileSelector, data |-> Unset]

\* DilloHtmlInput::reset.  The parts for selections are commented out.
ResetControl(c, w) ==
    CASE c.type \in Entries \cup {"textarea"} -> [w EXCEPT !.text = OrEmpty(c.value)]
      [] c.type \in Toggles -> [w EXCEPT !.on = c.checked]
      [] c.type = "file" -> [w EXCEPT !.label = FileSelector]
      [] OTHER -> w

FormInit ==
    /\ form \in Forms
    /\ controls = [i \in Inputs |-> NewControl(form.inputs[i])]
    /\ hiddens = FALSE
    /\ clicked = Unset
    /\ wire = Unset

\* A radio button is grouped with the first of its name (Html_get_radio_input).
SameGroup(i, j) ==
    \/ i = j
    \/ /\ form.inputs[j].type = "radio"
       /\ form.inputs[i].name # Unset /\ form.inputs[i].name = form.inputs[j].name

----------------------------------------------------------------------------
(* What is sent. *)

\* a_Url_encode_hex_str: a newline becomes a carriage return and a line feed.
Hex == [c \in {"&", "=", "%", "CR", "LF"} |->
          CASE c = "&" -> <<"2", "6">> [] c = "=" -> <<"3", "D">> [] c = "%" -> <<"2", "5">>
            [] c = "CR" -> <<"0", "D">> [] c = "LF" -> <<"0", "A">>]
EncodeChar(c) ==
    CASE c = " " -> <<"+">>
      [] c = "LF" -> <<"%">> \o Hex["CR"] \o <<"%">> \o Hex["LF"]
      [] c \in DOMAIN Hex \ {"LF"} -> <<"%">> \o Hex[c]
      [] OTHER -> <<c>>
Encode(text) == FoldLeft(LAMBDA data, c : data \o EncodeChar(c), <<>>, text)

FileIsShown(w) == w.label # <<>> /\ w.label # FileSelector

\* DilloHtmlInput::appendValuesTo: the values of a successful control.
Values(c, w, active) ==
    CASE c.type \in Entries \cup {"textarea"} -> <<w.text>>
      [] c.type \in Toggles ->
            IF c.name # Unset /\ c.value # Unset /\ w.on THEN <<c.value>> ELSE <<>>
      [] c.type = "submit" -> IF active THEN <<c.value>> ELSE <<>>
      [] c.type = "image" -> IF active THEN <<<<"1">>, <<"2">>>> ELSE <<>>
      [] c.type \in Selections ->
            FoldLeft(LAMBDA vs, k : IF k \in w.chosen
                                    THEN Append(vs, c.options[k].value) ELSE vs,
                     <<>>, [k \in DOMAIN c.options |-> k])
      [] c.type = "file" -> IF FileIsShown(w) /\ w.data # Unset THEN <<w.data>> ELSE <<>>
      [] OTHER -> <<>>

\* inputUrlencodeAppend drops a control without a name.
PairUrl(name, value) ==
    IF name = <<>> THEN <<>> ELSE Encode(name) \o <<"=">> \o Encode(value) \o <<"&">>

UrlOf(c, vs) ==
    LET name == OrEmpty(c.name)
        At(axis) == IF name = <<>> THEN <<axis>> ELSE Encode(name) \o <<".", axis>>
    IN CASE vs = <<>> -> <<>>
         [] c.type = "index" -> Encode(vs[1])
         [] c.type = "image" ->
              At("x") \o <<"=">> \o vs[1] \o <<"&">> \o At("y") \o <<"=">> \o vs[2] \o <<"&">>
         [] OTHER -> FoldLeft(LAMBDA data, v : data \o PairUrl(name, v), <<>>, vs)

\* inputMultipartAppend and filesInputMultipartAppend.  The data has a boundary line
\* before its first part and after each.
PartOf(name, file, value, b) ==
    IF name = <<>> THEN <<>>
    ELSE <<"name">> \o name \o (IF file = <<>> THEN <<>> ELSE <<"filename">> \o file)
           \o <<"value">> \o value \o <<b>>

PartsOf(c, w, vs, b) ==
    LET name == OrEmpty(c.name)
        At(axis) == IF name = <<>> THEN <<axis>> ELSE name \o <<".", axis>>
    IN CASE vs = <<>> -> <<>>
         [] c.type = "file" -> PartOf(name, w.label, vs[1], b)
         [] c.type = "image" ->
              PartOf(At("x"), <<>>, vs[1], b) \o PartOf(At("y"), <<>>, vs[2], b)
         [] OTHER -> FoldLeft(LAMBDA data, v : data \o PartOf(name, <<>>, v, b), <<>>, vs)

\* The inputs one after the other, each with its control and the values it has.
Submitted(active) ==
    [i \in Inputs |-> [input |-> form.inputs[i], control |-> controls[i],
                       values |-> Values(form.inputs[i], controls[i], i = active)]]

UrlEncoded(active) ==
    LET data == FoldLeft(LAMBDA d, s : d \o UrlOf(s.input, s.values), <<>>, Submitted(active)) IN
    IF data # <<>> /\ Last(data) = "&" THEN Front(data) ELSE data

FileName(s) == IF s.input.type = "file" /\ FileIsShown(s.control) THEN s.control.label ELSE <<>>

\* Seeded bug: the content of a file is not searched for the boundary.
Mut_Searched(active) ==
    FoldLeft(LAMBDA d, s :
                d \o OrEmpty(s.input.name) \o FileName(s)
                \o (IF s.input.type = "file" THEN <<>> ELSE FlattenSeq(s.values)),
             <<>>, Submitted(active))

\* makeMultipartBoundary: the names, file names and values.
Searched(active) ==
    FoldLeft(LAMBDA d, s : d \o OrEmpty(s.input.name) \o FileName(s) \o FlattenSeq(s.values),
             <<>>, Submitted(active))

Multipart(active, b) ==
    LET parts == FoldLeft(LAMBDA d, s : d \o PartsOf(s.input, s.control, s.values, b),
                          <<>>, Submitted(active)) IN
    IF parts = <<>> THEN <<>> ELSE <<b>> \o parts \o <<"--">>

\* buildQueryData: nothing when ten boundaries were all in the data.
QueryData(active) ==
    IF form.enctype = "urlencoded" THEN {UrlEncoded(active)}
    ELSE LET inData == {b \in Boundaries : Contains(Searched(active), b)} IN
         {Multipart(active, b) : b \in Boundaries \ inData}
         \cup (IF inData = {} THEN {} ELSE {Unset})

\* DilloHtmlForm::create_search: "%s" for the value of the first field that is empty.
FillFirstEmpty(data, value) ==
    LET empty == {k \in DOMAIN data : data[k] = "=" /\ (k = Len(data) \/ data[k + 1] = "&")}
        k == CHOOSE k \in empty : \A j \in empty : k <= j
    IN IF empty = {} THEN data
       ELSE SubSeq(data, 1, k) \o value \o SubSeq(data, k + 1, Len(data))
SearchUrl(data) == <<"?">> \o FillFirstEmpty(data, <<"%", "s">>)

----------------------------------------------------------------------------
(* What the user does. *)

Is(i, types) == form.inputs[i].type \in types
Untouched == UNCHANGED <<form, hiddens, clicked, wire>>

\* A hidden field can be edited while it is displayed.
Type(i) ==
    /\ Is(i, Entries \cup {"textarea"}) /\ (Is(i, {"hidden"}) => hiddens)
    /\ \E text \in Texts : controls' = [controls EXCEPT ![i].text = text]
    /\ Untouched

\* FltkRadioButtonResource::buttonClicked activates the button clicked, and no other.
Click(i) ==
    /\ Is(i, Toggles)
    /\ controls' = IF Is(i, {"checkbox"}) THEN [controls EXCEPT ![i].on = ~@]
                   ELSE [j \in Inputs |-> IF SameGroup(i, j)
                                          THEN [controls[j] EXCEPT !.on = j = i]
                                          ELSE controls[j]]
    /\ Untouched

Choose(i, k) ==
    /\ Is(i, Selections) /\ form.inputs[i].options[k].enabled
    /\ \/ /\ ~Is(i, {"multi"})
          /\ controls' = [controls EXCEPT ![i].chosen = {k}]
       \/ /\ Is(i, {"multi"})
          /\ \E set \in {{k}, controls[i].chosen \cup {k}, controls[i].chosen \ {k}} :
                controls' = [controls EXCEPT ![i].chosen = set]
    /\ Untouched

\* readFile: a file that cannot be read leaves the label of the one before.
ReadFile(i) ==
    /\ Is(i, {"file"})
    /\ \E f \in DOMAIN Files :
          controls' = [controls EXCEPT ![i].data = Files[f],
                                       ![i].label = IF Files[f] = Unset THEN @ ELSE f]
    /\ Untouched

\* DilloHtmlForm::reset, from a reset button or the menu of the form.
Reset ==
    /\ controls' = [i \in Inputs |-> ResetControl(form.inputs[i], controls[i])]
    /\ Untouched

DisplayHiddens == hiddens' = ~hiddens /\ UNCHANGED <<form, controls, clicked, wire>>

NumEntryFields == Cardinality({i \in Inputs : Is(i, {"text", "password"})})

\* buildQueryUrl: only a submit button is part of what it submits.
BuildQueryUrl(i) ==
    LET active == IF i \in Inputs /\ Is(i, Submits) THEN i ELSE Unset IN
    \E data \in QueryData(active) :
       /\ clicked' = IF data = Unset THEN clicked ELSE active
       /\ wire' = IF data = Unset THEN wire ELSE data

\* DilloHtmlInput::activate, or the menu of the form.  http.c sends the type of the data
\* with it.
Submit(i) ==
    /\ \/ i = Unset
       \/ i \in Inputs /\ Is(i, Submits \cup {"index"})
       \/ i \in Inputs /\ Is(i, {"text", "password"}) /\ (EnterForces \/ NumEntryFields = 1)
    /\ BuildQueryUrl(i)
    /\ UNCHANGED <<form, controls, hiddens>>

FormNext ==
    \/ \E i \in Inputs :
          \/ Type(i) \/ Click(i) \/ ReadFile(i)
          \/ \E k \in DOMAIN form.inputs[i].options : Choose(i, k)
    \/ Reset
    \/ DisplayHiddens
    \/ \E i \in Inputs \cup {Unset} : Submit(i)

FormSpec == FormInit /\ [][FormNext]_formVars

----------------------------------------------------------------------------
(* The engine made of a form. *)

SearchInit == FormInit /\ PrefsInit /\ origin = Unset /\ opened = Unset

\* DilloHtmlForm::create_search, for a form with HTTP GET.
CreateSearch ==
    /\ form.enctype = "urlencoded"
    /\ AddSearch([valid |-> TRUE, url |-> SearchUrl(UrlEncoded(Unset))])
    /\ origin' = UrlEncoded(Unset)
    /\ UNCHANGED <<formVars, opened>>

\* a_UIcmd_open_search
OpenSearch ==
    /\ ~OpenPrefs /\ index + 1 \in DOMAIN engines /\ Valid(engines[index + 1])
    /\ \E q \in Queries :
          opened' = [query |-> q, engine |-> index + 1,
                     data |-> Tail(MakeSearch(engines[index + 1].url, Encode(q)))]
    /\ UNCHANGED <<formVars, prefsVars, origin>>

----------------------------------------------------------------------------
(* The server's side: the data set a submission stands for. *)

Split(s, Sep(_)) ==
    FoldLeft(LAMBDA parts, c : IF Sep(c) THEN Append(parts, <<>>)
                               ELSE [parts EXCEPT ![Len(parts)] = Append(@, c)],
             << <<>> >>, s)

Decode(data) ==
    LET f[k \in 1..(Len(data) + 1)] ==
            IF k > Len(data) THEN <<>>
            ELSE IF data[k] = "%"
                 THEN <<CHOOSE c \in DOMAIN Hex : Hex[c] = <<data[k + 1], data[k + 2]>>>>
                      \o f[k + 3]
                 ELSE <<IF data[k] = "+" THEN " " ELSE data[k]>> \o f[k + 1]
    IN f[1]

FromUrl(data) ==
    IF data = <<>> THEN <<>>
    ELSE LET fields == Split(data, LAMBDA c : c = "&") IN
         [k \in DOMAIN fields |->
            LET halves == Split(fields[k], LAMBDA c : c = "=") IN
            [j \in DOMAIN halves |-> Decode(halves[j])]]

\* Http_make_content_type takes the boundary from the first line of the data.
FromMultipart(data) ==
    IF data = <<>> THEN <<>>
    ELSE LET parts == Split(Tail(data), LAMBDA c : c = Head(data)) IN
         [k \in 1..(Len(parts) - 1) |->
            Tail(Split(parts[k], LAMBDA c : c \in {"name", "filename", "value"}))]

\* HTML 4.01, 17.13.2: the names and values of the successful controls, in order.
CrLf(text) ==
    IF form.enctype # "urlencoded" THEN text
    ELSE FoldLeft(LAMBDA t, c : t \o (IF c = "LF" THEN <<"CR", "LF">> ELSE <<c>>), <<>>, text)

DataSet(active) ==
    LET Named(i) == OrEmpty(form.inputs[i].name) # <<>>
        Of(i) ==
            LET c == form.inputs[i] w == controls[i] name == CrLf(OrEmpty(c.name)) IN
            IF c.type = "index" THEN <<<<w.text>>>>
            ELSE IF c.type = "image" /\ i = active
            THEN LET dot == IF name = <<>> THEN <<>> ELSE <<".">> IN
                 <<<<name \o dot \o <<"x">>, <<"1">>>>, <<name \o dot \o <<"y">>, <<"2">>>>>>
            ELSE IF ~Named(i) THEN <<>>
            ELSE CASE c.type \in Entries \cup {"textarea"} -> <<<<name, CrLf(w.text)>>>>
                   [] c.type \in Toggles /\ w.on /\ c.value # Unset -> <<<<name, CrLf(c.value)>>>>
                   [] c.type = "submit" /\ i = active -> <<<<name, CrLf(c.value)>>>>
                   [] c.type = "file" /\ w.label # FileSelector /\ w.data # Unset ->
                        <<<<name, w.label, w.data>>>>
                   [] c.type \in Selections ->
                        LET ks == SetToSortSeq(w.chosen, <) IN
                        [k \in DOMAIN ks |-> <<name, CrLf(c.options[ks[k]].value)>>]
                   [] OTHER -> <<>>
    IN FlattenSeq([i \in Inputs |-> Of(i)])

----------------------------------------------------------------------------
(* Properties. *)

\* A submission, read as its content type says, is the data set of the form at that
\* moment: no text of a control, no file and no name changes what the others mean.
SubmissionIsDataSet ==
    [][wire' # wire =>
         IF form.enctype = "urlencoded"
         THEN IF \E i \in Inputs : Is(i, {"index"})
              THEN Decode(wire') = CrLf(controls[1].text)
              ELSE FromUrl(wire') = DataSet(clicked')
         ELSE FromMultipart(wire') = DataSet(clicked')]_formVars

\* After a reset the form says what it said when the page was loaded, whatever the user
\* did before (DilloHtmlForm::reset), except for its selections.
IsRestored(i) ==
    Values(form.inputs[i], controls'[i], FALSE)
      = Values(form.inputs[i], NewControl(form.inputs[i]), FALSE)

ResetRestores == [][Reset => \A i \in Inputs : Is(i, Selections) \/ IsRestored(i)]_formVars

\* The search bar asks what the form would ask with the query in its first empty field -
\* unless the form sends an escaped character: the "%" of its code is then taken for a
\* specifier of the search URL, and dropped.
SearchIsForm ==
    opened # Unset /\ origin # Unset /\ opened.engine = Len(engines) /\ ~Contains(origin, "%")
        => opened.data = FillFirstEmpty(origin, Encode(opened.query))

\* form.cc: what a form sends is what it shows, a reset shows what the page said, and the
\* engine that "Create a search" has made asks what the form would.
FormsAreRight == SubmissionIsDataSet /\ ResetRestores /\ []SearchIsForm
=============================================================================
