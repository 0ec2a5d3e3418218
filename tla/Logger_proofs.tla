---------------------------- MODULE Logger_proofs ----------------------------
(***************************************************************************)
(* Proofs that the Logger keeps its output framed in lines, for any bound  *)
(* and any numbering of the visibility levels, when the program changes    *)
(* the levels only at the start of a line.                                 *)
(***************************************************************************)
EXTENDS Logger, TLAPS

\* _newline says exactly whether the output so far ends a line.
AtLineStart == newline <=> (out = <<>> \/ out[Len(out)] = "eol")

\* Inside a line the stream is open: the write that started the line was
\* visible, and the levels have not changed since.
OpenMidLine == ~newline => ~(visibility < output)

IInv == TypeOK /\ LineFraming /\ AtLineStart /\ OpenMidLine

LEMMA InitIInv == Init => IInv
BY LoggerAssumption DEF Init, IInv, TypeOK, LineFraming, Framed, AtLineStart,
                        OpenMidLine, Visibility

\* A header and a token written at a line start keep the output framed.
LEMMA HeaderFramed ==
    ASSUME NEW o \in Seq(Tokens), NEW t \in {"text", "eol"}, Framed(o),
           o = <<>> \/ o[Len(o)] = "eol"
    PROVE  /\ Framed(o \o <<"header", t>>)
           /\ o \o <<"header", t>> \in Seq(Tokens)
           /\ (o \o <<"header", t>>)[Len(o \o <<"header", t>>)] = t
<1> DEFINE r == o \o <<"header", t>>
<1>1. Len(r) = Len(o) + 2 /\ r \in Seq(Tokens)
    BY DEF Tokens
<1>2. \A i \in 1..Len(o) : r[i] = o[i]
    BY <1>1
<1>3. r[Len(o) + 1] = "header" /\ r[Len(o) + 2] = t
    BY <1>1
<1>4. Framed(r)
    <2> SUFFICES ASSUME NEW i \in 1..Len(r)
                 PROVE  r[i] = "header" <=> (i = 1 \/ r[i - 1] = "eol")
        BY DEF Framed
    <2>1. CASE i \in 1..Len(o)
        BY <1>2, <2>1 DEF Framed
    <2>2. CASE i = Len(o) + 1
        BY <1>2, <1>3, <2>2
    <2>3. CASE i = Len(o) + 2
        BY <1>3, <2>3
    <2>. QED
        BY <1>1, <2>1, <2>2, <2>3
<1>. QED
    BY <1>1, <1>3, <1>4

\* A token written inside a line keeps the output framed.
LEMMA TokenFramed ==
    ASSUME NEW o \in Seq(Tokens), NEW t \in {"text", "eol"}, Framed(o),
           o # <<>>, o[Len(o)] # "eol"
    PROVE  /\ Framed(Append(o, t))
           /\ Append(o, t) \in Seq(Tokens)
           /\ Append(o, t)[Len(Append(o, t))] = t
<1> DEFINE r == Append(o, t)
<1>1. Len(r) = Len(o) + 1 /\ r \in Seq(Tokens) /\ r[Len(o) + 1] = t
    BY DEF Tokens
<1>2. \A i \in 1..Len(o) : r[i] = o[i]
    OBVIOUS
<1>3. Framed(r)
    <2> SUFFICES ASSUME NEW i \in 1..Len(r)
                 PROVE  r[i] = "header" <=> (i = 1 \/ r[i - 1] = "eol")
        BY DEF Framed
    <2>1. CASE i \in 1..Len(o)
        BY <1>2, <2>1 DEF Framed
    <2>2. CASE i = Len(o) + 1
        <3>1. Len(o) >= 1
            OBVIOUS
        <3>. QED
            BY <1>1, <1>2, <2>2, <3>1
    <2>. QED
        BY <1>1, <2>1, <2>2
<1>. QED
    BY <1>1, <1>3

\* What one write of token t through format() does, from a framed state.
LEMMA FormatStep ==
    ASSUME IInv, NEW t \in {"text", "eol"}, ~(visibility < output)
    PROVE  /\ Framed(Format(t)[2])
           /\ Format(t)[2] \in Seq(Tokens)
           /\ Format(t)[2] # <<>>
           /\ Format(t)[2][Len(Format(t)[2])] = t
           /\ Format(t)[1] = FALSE
<1>1. CASE newline
    <2>1. Format(t) = <<FALSE, out \o <<"header", t>>>>
        BY <1>1 DEF Format
    <2>2. out = <<>> \/ out[Len(out)] = "eol"
        BY <1>1 DEF IInv, AtLineStart
    <2>3. Len(out \o <<"header", t>>) = Len(out) + 2 /\ Len(out) \in Nat
        BY DEF IInv, TypeOK, Tokens
    <2>4. /\ Framed(out \o <<"header", t>>)
          /\ out \o <<"header", t>> \in Seq(Tokens)
          /\ (out \o <<"header", t>>)[Len(out \o <<"header", t>>)] = t
        BY <2>2, HeaderFramed DEF IInv, TypeOK, LineFraming
    <2>5. out \o <<"header", t>> # <<>>
        BY <2>3
    <2>. QED
        BY <2>1, <2>4, <2>5
<1>2. CASE ~newline
    <2>1. Format(t) = <<FALSE, Append(out, t)>>
        BY <1>2 DEF Format
    <2>2. out # <<>> /\ out[Len(out)] # "eol"
        BY <1>2 DEF IInv, AtLineStart
    <2>3. /\ Framed(Append(out, t))
          /\ Append(out, t) \in Seq(Tokens)
          /\ Append(out, t)[Len(Append(out, t))] = t
        BY <2>2, TokenFramed DEF IInv, TypeOK, LineFraming
    <2>4. Append(out, t) # <<>>
        BY DEF IInv, TypeOK
    <2>. QED
        BY <2>1, <2>3, <2>4
<1>. QED
    BY <1>1, <1>2

LEMMA NextIInv == LevelsChangeBetweenLines /\ IInv /\ [Next]_vars => IInv'
<1> SUFFICES ASSUME LevelsChangeBetweenLines, IInv, [Next]_vars PROVE IInv'
    OBVIOUS
<1> USE LoggerAssumption DEF Visibility
<1>1. ASSUME NEW tok \in {"text"}, Emit(tok) PROVE IInv'
    <2>1. CASE visibility < output
        BY <1>1, <2>1 DEF Emit, Format, IInv, TypeOK, LineFraming,
                          AtLineStart, OpenMidLine
    <2>2. CASE ~(visibility < output)
        <3>1. /\ Framed(out') /\ out' \in Seq(Tokens) /\ out' # <<>>
              /\ out'[Len(out')] = "text" /\ newline' = FALSE
            BY <1>1, <2>2, FormatStep DEF Emit
        <3>. QED
            BY <1>1, <2>2, <3>1 DEF Emit, IInv, TypeOK, LineFraming,
                                    AtLineStart, OpenMidLine
    <2>. QED
        BY <2>1, <2>2
<1>2. CASE Write
    BY <1>1, <1>2 DEF Write
<1>3. ASSUME NEW l \in Visibility, LevelWrite(l) PROVE IInv'
    BY <1>1, <1>3 DEF LevelWrite
<1>4. CASE PrintNewline
    <2>1. CASE visibility < output
        <3>1. newline
            BY <2>1 DEF IInv, OpenMidLine
        <3>. QED
            BY <1>4, <2>1, <3>1 DEF PrintNewline, Format, IInv, TypeOK,
                                    LineFraming, AtLineStart, OpenMidLine
    <2>2. CASE ~(visibility < output)
        <3>1. /\ Framed(out') /\ out' \in Seq(Tokens) /\ out' # <<>>
              /\ out'[Len(out')] = "eol" /\ newline'
            BY <1>4, <2>2, FormatStep DEF PrintNewline
        <3>. QED
            BY <1>4, <2>2, <3>1 DEF PrintNewline, IInv, TypeOK, LineFraming,
                                    AtLineStart, OpenMidLine
    <2>. QED
        BY <2>1, <2>2
<1>5. ASSUME NEW v \in Visibility, SetVisibility(v) PROVE IInv'
    BY <1>5 DEF SetVisibility, IInv, TypeOK, LineFraming, AtLineStart,
                OpenMidLine
<1>6. ASSUME NEW v \in Visibility, SetStreamVisibility(v) PROVE IInv'
    BY <1>6 DEF SetStreamVisibility, IInv, TypeOK, LineFraming, AtLineStart,
                OpenMidLine
<1>7. CASE OutputFull /\ UNCHANGED vars
    BY <1>7 DEF vars, IInv, TypeOK, LineFraming, AtLineStart, OpenMidLine
<1>8. CASE UNCHANGED vars
    BY <1>8 DEF vars, IInv, TypeOK, LineFraming, AtLineStart, OpenMidLine
<1>. QED
    BY <1>2, <1>3, <1>4, <1>5, <1>6, <1>7, <1>8 DEF Next

\* When levels change only at line ends, as the FSM engine's logger does
\* (its constructor sets both levels before any output), every line the
\* Logger writes starts with exactly one header and no header is written
\* inside a line.
THEOREM LineFramingHolds == LevelsChangeBetweenLines => (Spec => []LineFraming)
<1> SUFFICES ASSUME LevelsChangeBetweenLines PROVE Spec => []LineFraming
    OBVIOUS
<1>1. IInv => LineFraming
    BY DEF IInv
<1>. QED
    BY InitIInv, NextIInv, <1>1, PTL DEF Spec

\* The Logger's state stays within its types.
THEOREM LoggerTypeCorrect == LevelsChangeBetweenLines => (Spec => []TypeOK)
<1> SUFFICES ASSUME LevelsChangeBetweenLines PROVE Spec => []TypeOK
    OBVIOUS
<1>1. IInv => TypeOK
    BY DEF IInv
<1>. QED
    BY InitIInv, NextIInv, <1>1, PTL DEF Spec

=============================================================================
