------------------------------ MODULE MdStreamer ------------------------------
(***************************************************************************)
(* MdStreamer: Markdown rendered for the terminal while it is still being  *)
(* streamed.  The text comes in chunks, a token may be cut anywhere, and   *)
(* what is shown should not depend on where.                               *)
(***************************************************************************)
EXTENDS Naturals, Sequences, FiniteSets, SequencesExt

CONSTANTS
    Symbol,     \* the characters of the text, by name
    Wide,       \* those of more than one byte in UTF-8
    Lookahead,  \* bytes the renderer wants to see before it decides
    MaxText     \* bound: characters of a text

\* The characters of the markers, which are all of one byte.
MarkSymbol == {"tick", "dollar", "backslash", "[", "]", "(", ")", "star", "hash", "dash", "space"}

ASSUME StreamerAssumption ==
    /\ Wide \subseteq Symbol \ MarkSymbol
    /\ Lookahead \in Nat /\ Lookahead >= 3 /\ MaxText \in Nat

VARIABLES
    buffer,     \* received and not yet rendered
    mode,       \* bold, code and math switches, and whether a line begins
    out,        \* what was printed: escapes and characters
    flushed,    \* finish was called
    text,       \* what the model will have said in the end
    received    \* how much of it has come
streamVars == <<buffer, mode, out, flushed, text, received>>

Switches == {"bold", "code block", "inline code", "math block", "math inline", "line start"}

AtStart == [s \in Switches |-> s = "line start"]

NothingShown ==
    /\ buffer = <<>> /\ out = <<>> /\ received = 0
    /\ mode = AtStart /\ flushed = FALSE
StreamInit == text \in UNION {[1..n -> Symbol] : n \in 0..MaxText} /\ NothingShown
-----------------------------------------------------------------------------
(* process_token.                                                              *)

\* The markers that toggle a switch, the longer before its prefixes.
Toggle ==
    <<[mark |-> <<"tick", "tick", "tick">>, switch |-> "code block"],
      [mark |-> <<"dollar", "dollar">>, switch |-> "math block"],
      [mark |-> <<"backslash", "[">>, switch |-> "math block"],
      [mark |-> <<"backslash", "]">>, switch |-> "math block"],
      [mark |-> <<"backslash", "(">>, switch |-> "math inline"],
      [mark |-> <<"backslash", ")">>, switch |-> "math inline"],
      [mark |-> <<"star", "star">>, switch |-> "bold"]>>

\* The markers that count at the start of a line only.
LineMark ==
    <<<<"hash", "hash", "hash", "space">>, <<"hash", "hash", "space">>, <<"hash", "space">>,
      <<"dash", "space">>, <<"star", "space">>>>

ToggleLast ==
    <<[mark |-> <<"tick">>, switch |-> "inline code"],
      [mark |-> <<"dollar">>, switch |-> "math inline"]>>

\* A step of the renderer: characters taken, the mode after it, and what it prints.
Taking(take, m, item) == [take |-> take, mode |-> m, print |-> <<item>>]

Toggled(t, m) ==
    Taking(Len(t.mark), [m EXCEPT ![t.switch] = ~@, !["line start"] = FALSE],
           <<t.switch, ~m[t.switch]>>)

\* One character as it is; a new line restores the styles that are still on.
Plain(c, m) ==
    Taking(1, [m EXCEPT !["line start"] = (c = "newline")],
           IF c = "newline" THEN <<c, {s \in {"code block", "math block", "bold"} : m[s]}>> ELSE c)

Earliest(S) == CHOOSE i \in S : \A j \in S : i <= j

Render(rest, m) ==
    LET toggles == {i \in DOMAIN Toggle : IsPrefix(Toggle[i].mark, rest)}
        lines == {i \in DOMAIN LineMark : m["line start"] /\ IsPrefix(LineMark[i], rest)}
        last == {i \in DOMAIN ToggleLast : IsPrefix(ToggleLast[i].mark, rest)}
    IN CASE toggles # {} -> Toggled(Toggle[Earliest(toggles)], m)
         [] toggles = {} /\ lines # {} ->
              LET mark == LineMark[Earliest(lines)]
              IN Taking(Len(mark), [m EXCEPT !["line start"] = FALSE], mark)
         [] toggles = {} /\ lines = {} /\ last # {} -> Toggled(ToggleLast[Earliest(last)], m)
         [] OTHER -> Plain(Head(rest), m)
-----------------------------------------------------------------------------
\* A wide character counts for three bytes.
Bytes(s) == Len(s) + 2 * Cardinality({i \in DOMAIN s : s[i] \in Wide})

\* Mutant: decide as soon as there is anything.
UndecidedNever == buffer = <<>>

\* The loop of render_chunk stops when fewer bytes than the lookahead are left.
Undecided == Bytes(buffer) < Lookahead

\* push_str of the next chunk.
ReceiveChunk(n) ==
    /\ ~flushed /\ Undecided
    /\ received + n <= Len(text)
    /\ received' = received + n
    /\ buffer' = buffer \o SubSeq(text, received + 1, received + n)
    /\ UNCHANGED <<mode, out, flushed, text>>

Consume ==
    LET r == Render(buffer, mode)
    IN /\ buffer' = SubSeq(buffer, r.take + 1, Len(buffer))
       /\ mode' = r.mode
       /\ out' = out \o r.print
       /\ UNCHANGED <<flushed, text, received>>

\* One turn of the loop of render_chunk, ...
RenderChunk == ~flushed /\ ~Undecided /\ Consume

\* ... and of finish, which takes what is left.
RenderRest == flushed /\ buffer # <<>> /\ Consume

FinishText ==
    /\ ~flushed /\ Undecided /\ received = Len(text)
    /\ flushed' = TRUE
    /\ UNCHANGED <<buffer, mode, out, text, received>>

StreamNext ==
    \/ \E n \in 1..MaxText : ReceiveChunk(n)
    \/ RenderChunk \/ FinishText \/ RenderRest

StreamSpec == StreamInit /\ [][StreamNext]_streamVars
-----------------------------------------------------------------------------
StreamTypeOK ==
    /\ buffer \in Seq(Symbol) /\ text \in Seq(Symbol) /\ received \in 0..Len(text)
    /\ mode \in [Switches -> BOOLEAN] /\ flushed \in BOOLEAN

\* The reference: a renderer that sees the whole text before it decides.
Advance(s) ==
    IF s.rest = <<>> THEN s
    ELSE LET r == Render(s.rest, s.mode)
         IN [rest |-> SubSeq(s.rest, r.take + 1, Len(s.rest)), mode |-> r.mode,
             out |-> s.out \o r.print]

Stages(t) ==
    LET stages[n \in 0..Len(t)] ==
          IF n = 0 THEN [rest |-> t, mode |-> AtStart, out |-> <<>>] ELSE Advance(stages[n - 1])
    IN stages

AtOnce(t) == Stages(t)[Len(t)].out

Ended == flushed /\ buffer = <<>>

\* A level-three heading, the one marker longer than the lookahead.
HasLongMark ==
    \E i \in 1..(Len(text) - 3) :
        SubSeq(text, i, i + 3) = LineMark[1] /\ (i = 1 \/ text[i - 1] = "newline")

\* However the text was cut, what is printed in the end is what the whole text
\* would have given, but for a heading of level three, although markers may be cut
\* by a chunk's end (src/ui/streamer.rs:120 "never split a multi-byte token
\* prefix").
ChunksDoNotShow == (Ended /\ ~HasLongMark) => out = AtOnce(text)

\* Why: the reference, after k steps, has shown the same, is in the same mode and stands
\* at the same place of the text; a line begins where the text begins one.
AgreesAt(n, k) ==
    /\ k <= n /\ buffer = SubSeq(text, n + 1, received)
    /\ mode["line start"] => n = 0 \/ text[n] = "newline"
    /\ Stages(text)[k] = [rest |-> SubSeq(text, n + 1, Len(text)), mode |-> mode, out |-> out]

StreamInv ==
    /\ flushed => received = Len(text)
    /\ ~HasLongMark => \E n \in 0..received, k \in 0..Len(text) : AgreesAt(n, k)
=============================================================================
