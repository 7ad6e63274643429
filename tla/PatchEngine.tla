------------------------------ MODULE PatchEngine ------------------------------
(***************************************************************************)
(* The algorithms behind patches and previews: the edit script and the     *)
(* unified patch of diff-engine.ts, and applyUnifiedPatch of               *)
(* patch-apply.ts.  A text is a sequence of lines, of which the code only  *)
(* asks whether two are equal; a patch is the sequence of its hunks.  What *)
(* applyUnifiedPatch throws is Malformed.  The variables are the two texts *)
(* that a sender makes a patch of, as an author leaves them.               *)
(***************************************************************************)
EXTENDS Integers, Sequences, FiniteSets, SequencesExt

CONSTANTS
    Line,         \* the lines a text is made of
    MaxLines,     \* bound: the lines of a text
    ContextLines, \* contextLines of createPatchPayload
    Malformed

ASSUME PatchEngineAssumption ==
    /\ MaxLines \in Nat /\ ContextLines \in Nat
    /\ Malformed \notin UNION {[1..n -> Line] : n \in 0..MaxLines}

Text == UNION {[1..n -> Line] : n \in 0..MaxLines}

VARIABLES
    shadow, \* the text last sent to the peer (shadow-store.ts)
    text    \* the text now
vars == <<shadow, text>>

------------------------------------------------------------------------------
(* diff-engine.ts *)

\* The lengths of what precedes are taken for those of what follows: the table is
\* only ever advanced on one side.
LcsLengths_OneSide(before, after) ==
    LET dp[i \in 0..Len(before), j \in 0..Len(after)] ==
            IF i = Len(before) \/ j = Len(after) THEN 0
            ELSE IF before[i + 1] = after[j + 1] THEN dp[i + 1, j + 1] + 1
            ELSE dp[i, j + 1]
    IN  dp

\* The table dp of buildLcsOps: the length of the longest common subsequence of
\* what follows i lines of before and j lines of after.
LcsLengths(before, after) ==
    LET dp[i \in 0..Len(before), j \in 0..Len(after)] ==
            IF i = Len(before) \/ j = Len(after) THEN 0
            ELSE IF before[i + 1] = after[j + 1] THEN dp[i + 1, j + 1] + 1
            ELSE IF dp[i + 1, j] >= dp[i, j + 1] THEN dp[i + 1, j] ELSE dp[i, j + 1]
    IN  dp

\* A line of the script, and its number in the old and in the new text, 0 where
\* it has none.
Op(type, line, old, new) == [type |-> type, line |-> line, old |-> old, new |-> new]

\* The walk through the table.  Where both are as good a line is added before
\* one is removed.
BuildLcsOps(before, after) ==
    LET dp == LcsLengths(before, after)
        inBoth(i, j) == i < Len(before) /\ j < Len(after)
        walk[i \in 0..Len(before), j \in 0..Len(after)] ==
            IF inBoth(i, j) /\ before[i + 1] = after[j + 1]
            THEN <<Op("context", before[i + 1], i + 1, j + 1)>> \o walk[i + 1, j + 1]
            ELSE IF j < Len(after) /\ (inBoth(i, j) => dp[i, j + 1] >= dp[i + 1, j])
            THEN <<Op("add", after[j + 1], 0, j + 1)>> \o walk[i, j + 1]
            ELSE IF i < Len(before)
            THEN <<Op("remove", before[i + 1], i + 1, 0)>> \o walk[i + 1, j]
            ELSE <<>>
    IN  walk[0, 0]

\* The lines of the script that a hunk shows.
Selected(ops) ==
    {k \in DOMAIN ops : \E c \in k - ContextLines .. k + ContextLines :
        c \in DOMAIN ops /\ ops[c].type # "context"}

\* Mutant: every count is short by one.
AtLeastOne_Short(n) == IF n < 1 THEN 1 ELSE n - 1

\* a ?? b
OrElse(a, b) == IF a # 0 THEN a ELSE b
AtLeastOne(n) == IF n < 1 THEN 1 ELSE n

\* The hunk of one run of neighbouring selected lines: its header takes the start
\* from the first line and the counts from the first and the last.
Hunk(lines) ==
    LET start(k) == IF k = "old" THEN OrElse(lines[1].old, lines[1].new)
                                 ELSE OrElse(lines[1].new, lines[1].old)
        end(k) == OrElse(Last(lines)[k], start(k))
    IN  [oldStart |-> start("old"),
         oldCount |-> AtLeastOne(end("old") - start("old") + 1),
         newCount |-> AtLeastOne(end("new") - start("new") + 1),
         lines |-> [k \in DOMAIN lines |-> [op |-> lines[k].type, line |-> lines[k].line]]]

UnifiedPatch(before, after) ==
    LET ops == BuildLcsOps(before, after)
        selected == Selected(ops)
        starts == SetToSortSeq({k \in selected : k - 1 \notin selected}, <)
        end(k) == CHOOSE n \in selected :
            n >= k /\ n + 1 \notin selected /\ k..n \subseteq selected
    IN  [h \in DOMAIN starts |-> Hunk(SubSeq(ops, starts[h], end(starts[h])))]

------------------------------------------------------------------------------
(* patch-apply.ts *)

\* at: the lines of the base that are dealt with; text: what is made of them;
\* old, new: the lines the header still announces.
Reading == [at |-> 0, text |-> <<>>, old |-> 0, new |-> 0]

ApplyLine(base, s, l) ==
    LET onBase == s.at < Len(base) /\ base[s.at + 1] = l.line
    IN  CASE s = Malformed -> Malformed
          [] s # Malformed /\ l.op = "add" ->
                [s EXCEPT !.text = Append(@, l.line), !.new = @ - 1]
          [] s # Malformed /\ l.op = "context" /\ onBase ->
                [at |-> s.at + 1, text |-> Append(s.text, l.line), old |-> s.old - 1, new |-> s.new - 1]
          [] s # Malformed /\ l.op = "remove" /\ onBase ->
                [s EXCEPT !.at = @ + 1, !.old = @ - 1]
          [] OTHER -> Malformed

\* The lines up to the hunk are kept, and its lines must use its counts up.
UsedUp(s) == s.old = 0 /\ s.new = 0
ApplyHunk(base, s, hunk) ==
    LET skipTo == hunk.oldStart - 1
    IN  IF s = Malformed \/ skipTo \notin s.at .. Len(base) THEN Malformed
        ELSE LET first == [at |-> skipTo, text |-> s.text \o SubSeq(base, s.at + 1, skipTo),
                           old |-> hunk.oldCount, new |-> hunk.newCount]
                 last == FoldLeft(LAMBDA t, l : ApplyLine(base, t, l), first, hunk.lines)
             IN  IF last # Malformed /\ UsedUp(last) THEN last ELSE Malformed

ApplyUnifiedPatch(base, patch) ==
    LET s == FoldLeft(LAMBDA t, h : ApplyHunk(base, t, h), Reading, patch)
    IN  IF s = Malformed THEN Malformed
        ELSE s.text \o SubSeq(base, s.at + 1, Len(base))
------------------------------------------------------------------------------
(* The sender's text *)

Init == shadow = <<>> /\ text = <<>>

\* The author inserts, removes or changes a line.
Insert(k, l) == Len(text) < MaxLines /\ text' = InsertAt(text, k, l) /\ UNCHANGED shadow
Delete(k) == k \in DOMAIN text /\ text' = RemoveAt(text, k) /\ UNCHANGED shadow
Change(k, l) == k \in DOMAIN text /\ text' = [text EXCEPT ![k] = l] /\ UNCHANGED shadow

\* A push stores the text as the shadow of what was sent (sendFileContent).
Pushed == shadow' = text /\ UNCHANGED text

Next ==
    \/ \E k \in 1 .. Len(text) + 1, l \in Line : Insert(k, l)
    \/ \E k \in 1 .. MaxLines : Delete(k)
    \/ \E k \in 1 .. MaxLines, l \in Line : Change(k, l)
    \/ Pushed

Spec == Init /\ [][Next]_vars

------------------------------------------------------------------------------
(* Properties *)

\* The lines of an edit script that are in the old text, or in the new one.
Side(ops, other) ==
    LET mine == SelectSeq(ops, LAMBDA op : op.type # other)
    IN  [k \in DOMAIN mine |-> mine[k].line]
Kept(ops) == SelectSeq(ops, LAMBDA op : op.type = "context")

\* buildLcsOps finds a shortest edit script: it leads from the one text to the other,
\* and a common subsequence of both is no longer than what it keeps.
ScriptIsShortest ==
    LET ops == BuildLcsOps(shadow, text)
    IN  /\ Side(ops, "add") = shadow /\ Side(ops, "remove") = text
        /\ \A common \in AllSubSeqs(shadow) \cap AllSubSeqs(text) :
               Len(common) <= Len(Kept(ops))

\* Applied to the shadow, the patch gives the text or an error, never a third text;
\* and it gives the text if each of its hunks begins and ends with a context line,
\* that is if the change is away from the first and the last line.
PatchGivesText ==
    LET patch == UnifiedPatch(shadow, text)
        result == ApplyUnifiedPatch(shadow, patch)
    IN  /\ result \in {text, Malformed}
        /\ (\A h \in Range(patch) : h.lines[1].op = "context" /\ Last(h.lines).op = "context")
               => result = text
==============================================================================
