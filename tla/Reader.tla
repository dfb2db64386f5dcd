------------------------------- MODULE Reader -------------------------------
(***************************************************************************)
(* A text is read, its forms are written as the data they quote, one to a  *)
(* line, and what was written is read again.                               *)
(***************************************************************************)
EXTENDS Printer

CONSTANT Texts   \* the texts that are read

VARIABLES
  round,    \* 1 for the text, 2 for what was written, 0 if it is not compiled
  written   \* the data that were written

readerVars == <<round, written>>
vars == <<frontVars, readerVars>>

Init ==
  /\ text \in Texts
  /\ LexerFresh
  /\ ParserIdle
  /\ round = 1
  /\ written = <<>>

\* What the forms quote.
Data == [i \in DOMAIN forms |-> DatumOf(forms[i])]

\* (write (quote form)) (newline) for each form.
Write ==
  /\ parsed = "ok" /\ round = 1
  /\ LET data == Data IN
     /\ \A i \in DOMAIN data : Representable(data[i])
     /\ written' = data
     /\ StartLex(Joined([i \in DOMAIN data |-> WriteSchemeValue(ValueOf(data[i]))], <<"\n">>))
  /\ round' = 2
  /\ ParserReset

\* An integer is no fixnum.
Refused ==
  /\ parsed = "ok" /\ round = 1
  /\ \E i \in DOMAIN forms : ~Representable(DatumOf(forms[i]))
  /\ round' = 0
  /\ UNCHANGED <<frontVars, written>>

Next == ((Lex \/ Parse) /\ UNCHANGED readerVars) \/ Write \/ Refused

\* One thread reads, and then another program.
Spec == Init /\ [][Next]_vars /\ WF_vars(Next)

-----------------------------------------------------------------------------
(* Properties.                                                             *)

\* Strings that write_value writes as they are read: no escape, and no list
\* between it and the list that is written.
RECURSIVE Plain(_, _)
Plain(d, depth) ==
  /\ "list" \in DOMAIN d => \A i \in DOMAIN d.list : Plain(d.list[i], depth + 1)
  /\ "string" \in DOMAIN d => /\ depth <= 1
                              /\ ToSet(d.string) \intersect {"\"", "\\"} = {}

\* What is written is read again as what it was: two data never run into one
\* another, and none looks like a datum of another kind.
WrittenIsRead ==
  round = 2 /\ (\A i \in DOMAIN written : Plain(written[i], 0)) =>
    /\ lexed # "error" /\ parsed # "error"
    /\ parsed = "ok" => Data = written

\* Reading ends: every round of a loop takes at least one character.
Ends == <>(lexed = "error" \/ parsed = "error" \/ (round # 1 /\ parsed = "ok"))
=============================================================================
