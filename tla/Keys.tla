-------------------------------- MODULE Keys --------------------------------
(***************************************************************************)
(* The key bindings (src/src/keys.cc): a table of the built-in ones that   *)
(* the lines of keysrc extend, replace and remove, one line after another, *)
(* and the look-up of a key that the user presses.                         *)
(*                                                                         *)
(* The table is a list sorted by key and modifiers, which dList's halving  *)
(* searches need (Dlib); here it is the set of its nodes.  A key is named  *)
(* by its character, by a name of the table keyNames or by its number.     *)
(***************************************************************************)
EXTENDS FiniteSets, Integers, Sequences

CONSTANTS KeyCodes,     \* what a line may name: the key name -> the code, 0 when it has none
          Characters,   \* the codes that are characters
          ShiftedTo(_), \* the character that a key gives with Shift
          DefaultKeys,  \* the built-in bindings
          KeyLines,     \* what a line of keysrc may be
          MaxCode,      \* the largest code that a line can give a key
          MaxKeyLines   \* bound: lines of keysrc

VARIABLES bindings,     \* nodes [cmd, modifier, key]
          keysrc        \* the lines read so far (history)

keyVars == <<bindings, keysrc>>

\* modifierNames, with the order of the FL_ values; the first four come with a key
\* event, the last stands for the three mouse buttons.
ModifierNames == <<"Shift", "Ctrl", "Alt", "Meta", "Button1">>
Modifiers == {ModifierNames[i] : i \in DOMAIN ModifierNames}
KeyState == Modifiers \ {"Button1"}
Commands == {node.cmd : node \in DefaultKeys}

\* A code may be negative (strtol's result in an int); nodeByKeyCmp subtracts codes, so
\* that MaxCode is half of what an int holds.  No key is built in twice.
Codes == -MaxCode .. MaxCode
ASSUME KeysAreCodes ==
  /\ MaxCode \in Nat
  /\ \A line \in KeyLines : line.key \in DOMAIN KeyCodes
  /\ \A name \in DOMAIN KeyCodes : KeyCodes[name] \in Codes
  /\ DefaultKeys \subseteq [cmd : STRING, modifier : SUBSET Modifiers, key : Codes]
  /\ \A a, b \in DefaultKeys :
        a.key # 0 /\ a.key = b.key /\ a.modifier = b.modifier => a = b
  /\ \A key \in Codes : ShiftedTo(key) \in Codes

\* nodeByKeyCmp: by key, then by the number that the modifiers' bits make.
ModifierLess(m, n) == \E i \in DOMAIN ModifierNames :
  /\ ModifierNames[i] \in n \ m
  /\ \A j \in i + 1 .. Len(ModifierNames) : ModifierNames[j] \in m <=> ModifierNames[j] \in n
NodeLess(a, b) == a.key < b.key \/ (a.key = b.key /\ ModifierLess(a.modifier, b.modifier))
AtKey(table, key, modifier) == {node \in table : node.key = key /\ node.modifier = modifier}

KeysInit == bindings = {node \in DefaultKeys : node.key # 0} /\ keysrc = <<>>

\* parseKey: modifiers without a name are skipped, and neither an unknown command nor
\* an unknown key changes anything.
LineModifier(line) == {line.modifiers[i] : i \in DOMAIN line.modifiers} \cap Modifiers

\* keyNames, looked up without regard to case.
KeyCode(line) == KeyCodes[line.key]

Mut_ParseKey(table, line) ==
  IF line.cmd \notin Commands \cup {"nop"} \/ KeyCode(line) = 0 THEN table
  ELSE IF line.cmd = "nop" THEN table \ AtKey(table, KeyCode(line), LineModifier(line))
       ELSE table \cup {[cmd |-> line.cmd, modifier |-> LineModifier(line), key |-> KeyCode(line)]}

ParseKey(table, line) ==
  LET key == KeyCode(line)
      kept == table \ AtKey(table, key, LineModifier(line))
  IN  IF line.cmd \notin Commands \cup {"nop"} \/ key = 0 THEN table
      ELSE IF line.cmd = "nop" THEN kept
           ELSE kept \cup {[cmd |-> line.cmd, modifier |-> LineModifier(line), key |-> key]}

ParseLine == \E line \in KeyLines :
  /\ Len(keysrc) < MaxKeyLines
  /\ bindings' = ParseKey(bindings, line)
  /\ keysrc' = Append(keysrc, line)

KeysNext == ParseLine

KeysSpec == KeysInit /\ [][KeysNext]_keyVars

\* The text FLTK gives with a key event: none (a control character) with Ctrl and for
\* the keys that write nothing.
EventText(key, state) ==
  IF key \notin Characters \/ "Ctrl" \in state THEN 0
  ELSE IF "Shift" \in state THEN ShiftedTo(key) ELSE key

\* getKeyCmd: modifiers that make another character of the key are dropped with it.
GetKeyCmd(key, state) ==
  LET text == EventText(key, state)
      pressed == IF text = 0 THEN key ELSE text
      found == AtKey(bindings, pressed, IF pressed = key THEN state \cap KeyState ELSE {})
  IN  IF found = {} THEN "nop" ELSE (CHOOSE node \in found : TRUE).cmd

\* getShortcut: the first node with the command.
GetShortcut(cmd) ==
  LET nodes == {node \in bindings : node.cmd = cmd}
  IN  {node \in nodes : \A other \in nodes \ {node} : NodeLess(node, other)}

----------------------------------------------------------------------------
(* What keysrc means: the last of its lines for the key, and where there   *)
(* is none what is built in.                                               *)
LineNames(line, key, state) ==
  /\ line.cmd \in Commands \cup {"nop"}
  /\ KeyCode(line) = key /\ LineModifier(line) = state
Meaning(key, state) ==
  LET lines == {i \in DOMAIN keysrc : LineNames(keysrc[i], key, state)}
      built == {node \in DefaultKeys : node.key = key /\ node.modifier = state}
  IN  IF lines # {} THEN {keysrc[CHOOSE i \in lines : \A j \in lines : j <= i].cmd}
      ELSE IF built = {} THEN {"nop"} ELSE {node.cmd : node \in built}

KeysPressed == {KeyCodes[name] : name \in DOMAIN KeyCodes} \ {0}
Alters(key, state) == EventText(key, state) \notin {0, key}

\* A key does what the last line of keysrc about it says; Shift with a character that
\* it alters is that other character alone.
LastLineCounts == \A key \in KeysPressed, state \in SUBSET KeyState :
  GetKeyCmd(key, state) \in
    IF Alters(key, state) THEN Meaning(ShiftedTo(key), {}) ELSE Meaning(key, state)

\* The shortcut shown beside a menu entry is one key, and pressing it gives that
\* command: no node is shadowed by another one for the same key.
ShortcutWorks == \A cmd \in Commands :
  /\ {node \in bindings : node.cmd = cmd} # {} => Cardinality(GetShortcut(cmd)) = 1
  /\ \A node \in GetShortcut(cmd) :
       node.modifier \subseteq KeyState /\ ~Alters(node.key, node.modifier)
         => GetKeyCmd(node.key, node.modifier) = cmd

\* keys.cc: the table that parse() leaves is what keysrc says, for every order of its
\* lines, whatever they name twice, and with lines in error among them.
KeysAreRight == LastLineCounts /\ ShortcutWorks
=============================================================================
