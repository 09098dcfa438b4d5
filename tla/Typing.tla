------------------------------- MODULE Typing ---------------------------------
(***************************************************************************)
(* What a keyboard and a shell that edits a line promise: the keys pressed *)
(* take effect on the line once each and in their order; of keys pressed   *)
(* at one moment at least one does; besides, a key that is down repeats.   *)
(***************************************************************************)
EXTENDS Sequences, Integers

CONSTANTS Chars, Enter, Backspace, LineMax, NoLine

VARIABLES
  exact,      \* whether what the user does is seen as it is done
  due,        \* [down, typed]: the chars pressed at a moment, and those then down
  down,       \* the chars down as far as was heard
  line,       \* what stands after the prompt
  executing   \* the line being executed, or NoLine

typingVars == <<exact, due, down, line, executing>>

TypingInit ==
  /\ exact = TRUE
  /\ due = <<>>
  /\ down = {}
  /\ line = <<>>
  /\ executing = NoLine

Edit(c) ==
  /\ executing = NoLine
  /\ IF c = Enter
     THEN executing' = line /\ line' = <<>>
     ELSE /\ UNCHANGED executing
          /\ line' = CASE c = Backspace ->
                            SubSeq(line, 1, IF line = <<>> THEN 0 ELSE Len(line) - 1)
                       [] Len(line) < LineMax /\ c # Backspace -> Append(line, c)
                       [] OTHER -> line

Press ==
  /\ \E ds, cs \in SUBSET Chars : due' = Append(due, [down |-> ds, typed |-> cs])
  /\ UNCHANGED <<exact, down, line, executing>>

Hear ==
  /\ due # <<>>
  /\ down' = Head(due).down
  /\ due' = Tail(due)
  /\ LET typed == Head(due).typed
     IN  IF typed = {}
         THEN UNCHANGED <<line, executing>> \/ \E c \in down' : Edit(c)
         ELSE \E c \in typed : Edit(c)
  /\ UNCHANGED exact

Repeat ==
  /\ \E c \in down : Edit(c)
  /\ UNCHANGED <<exact, due, down>>

(* Once something was not seen as it was done, anything may be taken for   *)
(* pressed, but still one key at a time.                                   *)
Mistake ==
  /\ ~exact
  /\ UNCHANGED <<line, executing>> \/ \E c \in Chars : Edit(c)
  /\ UNCHANGED exact

Confuse ==
  /\ exact' = FALSE
  /\ UNCHANGED <<line, executing>>

Executed ==
  /\ executing # NoLine
  /\ executing' = NoLine
  /\ UNCHANGED <<exact, due, down, line>>

TypingNext == Press \/ Hear \/ Repeat \/ Mistake \/ Confuse \/ Executed

TypingSpec == TypingInit /\ [][TypingNext]_typingVars
=============================================================================
