------------------------------- MODULE Logger -------------------------------
(***************************************************************************)
(* lwiot::Logger (src/source/util/log.cpp): a text stream that starts      *)
(* every line with a header ([tick][lwiot][subsys]: ) and drops output     *)
(* while its visibility is below the stream visibility.                    *)
(*                                                                         *)
(* The output is abstracted to the tokens written to the FILE: a header,   *)
(* a piece of text (whatever the << overload formatted) and a line end.    *)
(* Visibility levels are the three enumerators, given as numbers so that   *)
(* the code's comparisons are comparisons here.                            *)
(***************************************************************************)
EXTENDS Naturals, Sequences

CONSTANTS
    Debug, Info, Critical,   \* the Visibility enumerators
    LevelsChangeBetweenLines,\* the program changes levels only at a line end
    MaxOut                   \* bound on the tokens written

Visibility == {Debug, Info, Critical}

ASSUME LoggerAssumption ==
    /\ Visibility \subseteq Nat
    /\ Debug # Info /\ Info # Critical /\ Debug # Critical
    /\ LevelsChangeBetweenLines \in BOOLEAN
    /\ MaxOut \in Nat

Tokens == {"header", "text", "eol"}

VARIABLES
    newline,     \* _newline: the next visible output starts a line
    visibility,  \* _visibility
    output,      \* _output, the stream visibility
    out          \* the tokens written to _f_output

vars == <<newline, visibility, output, out>>

\* Logger(...): every constructor starts a line at visibility Info.
Init ==
    /\ newline = TRUE
    /\ visibility = Info
    /\ output = Info
    /\ out = <<>>

\* Mutant: format() that writes the header without clearing _newline.
FormatKeepsNewline(tok) ==
    IF visibility < output THEN <<newline, out>>
    ELSE IF newline THEN <<newline, out \o <<"header", tok>>>>
    ELSE <<newline, Append(out, tok)>>

\* format(fmt, ...): nothing below the stream visibility; otherwise the
\* header if a line starts here, then the text.  The pair of the new
\* _newline and the new output.
Format(tok) ==
    IF visibility < output THEN <<newline, out>>
    ELSE IF newline THEN <<FALSE, out \o <<"header", tok>>>>
    ELSE <<FALSE, Append(out, tok)>>

\* The bound of the model: no room left for a header and a token.
OutputFull == Len(out) + 2 > MaxOut

\* A write of tok through format().
Emit(tok) ==
    /\ ~OutputFull
    /\ newline' = Format(tok)[1]
    /\ out' = Format(tok)[2]
    /\ UNCHANGED <<visibility, output>>

\* operator<< of a string, a number or a floating point value.
Write == Emit("text")

\* operator<<(NewLine), print_newline(): format the line end, then mark the
\* start of a line whether or not the line end was written.
PrintNewline ==
    /\ ~OutputFull
    /\ newline' = TRUE
    /\ out' = Format("eol")[2]
    /\ UNCHANGED <<visibility, output>>

\* debug(str), info(str), critical(str): format(str) when the logger's
\* visibility is at least the call's level.
LevelWrite(l) ==
    /\ visibility >= l
    /\ Emit("text")

\* setVisibility(v)
SetVisibility(v) ==
    /\ LevelsChangeBetweenLines => newline
    /\ visibility' = v
    /\ UNCHANGED <<newline, output, out>>

\* setStreamVisibility(v)
SetStreamVisibility(v) ==
    /\ LevelsChangeBetweenLines => newline
    /\ output' = v
    /\ UNCHANGED <<newline, visibility, out>>

Next ==
    \/ Write
    \/ PrintNewline
    \/ \E l \in Visibility : LevelWrite(l)
    \/ \E v \in Visibility : SetVisibility(v) \/ SetStreamVisibility(v)
    \/ OutputFull /\ UNCHANGED vars

Spec == Init /\ [][Next]_vars

-----------------------------------------------------------------------------
(* Properties                                                              *)

TypeOK ==
    /\ newline \in BOOLEAN
    /\ visibility \in Visibility
    /\ output \in Visibility
    /\ out \in Seq(Tokens)

\* Every line of the output starts with exactly one header, and no header
\* appears anywhere else: format() writes the header exactly when the
\* previous visible output ended a line, however writes, line ends and
\* suppressed output are interleaved.
Framed(o) ==
    \A i \in 1..Len(o) : o[i] = "header" <=> (i = 1 \/ o[i - 1] = "eol")
LineFraming == Framed(out)

=============================================================================
