-------------------------- MODULE ThreadGraphProofs --------------------------
(***************************************************************************)
(* What the thread store guarantees for any number of writers and entries, *)
(* and any number of crashes and failed writes.  The inductive invariants  *)
(* are TypeInv and, as long as no enrichment outlasts the writers' ttl,    *)
(* GraphInv.                                                               *)
(***************************************************************************)
EXTENDS ThreadGraph, SequenceTheorems, TLAPS

USE GraphNamesAssumption, MissingAssumption
-----------------------------------------------------------------------------
(* Types                                                                    *)

Appending == {"append", "ack"}

\* Which operation is at which step.
OpAt(p) ==
    /\ At(p, "acquire") => work[p].op \in Appending \cup {"init", "set_ball", "enrich"}
    /\ At(p, "ensure") => work[p].op \in Appending \cup {"init"}
    /\ work[p].step \in {"load", "meta", "entries", "edges"} => work[p].op \in Appending \cup {"enrich"}
    /\ At(p, "think") => work[p].op = "enrich"
    /\ At(p, "check") => work[p].op = "set_ball"
    /\ At(p, "ball") => work[p].op \in Appending \cup {"set_ball"} /\ work[p].ball # NoBall
    /\ At(p, "project") => work[p].op \in Appending \cup {"set_ball"}
    /\ At(p, "header") => work[p].op = "init"
    /\ work[p].op \in {"set_ball", "init"} => work[p].ball \in Agents
    /\ work[p].op \in Appending => work[p].entry \in used

TypeInv == GraphTypeOK /\ \A p \in Writers : OpAt(p)

\* What a step of p to s leaves alone.
LEMMA StepFacts ==
  ASSUME GraphTypeOK, NEW p \in Writers, NEW s \in WorkSteps, Step(p, s)
  PROVE  /\ work'[p].step = s /\ work'[p].op = work[p].op /\ work'[p].entry = work[p].entry
         /\ work'[p].ball = work[p].ball /\ work'[p].read = work[p].read
         /\ \A q \in Writers : q # p => work'[q] = work[q]
         /\ work' \in [Writers -> Works]
BY DEF GraphTypeOK, Works, Step

LEMMA BlankIsSnapshot == Blank \in Snapshots
<1>1. <<>> \in Seq(Nodes)  BY EmptySeq
<1>. QED  BY <1>1 DEF Blank, Snapshots

LEMMA AskFacts ==
  ASSUME GraphTypeOK, NEW p \in Writers, NEW op \in Ops, NEW e \in Entries \cup {NoEntry},
         NEW b \in Agents \cup {NoBall}, Ask(p, op, e, b)
  PROVE  /\ work[p].step = "idle"
         /\ work'[p].step = "acquire" /\ work'[p].op = op /\ work'[p].entry = e /\ work'[p].ball = b
         /\ \A q \in Writers : q # p => work'[q] = work[q]
         /\ work' \in [Writers -> Works]
<1>1. [op |-> op, step |-> "acquire", entry |-> e, ball |-> b, read |-> Blank]
        \in Works
  BY BlankIsSnapshot DEF Works, WorkSteps
<1>. QED  BY <1>1 DEF GraphTypeOK, Ask, At

LEMMA RestFacts ==
  ASSUME GraphTypeOK, NEW p \in Writers, work' = [work EXCEPT ![p] = AtRest]
  PROVE  /\ work'[p].step = "idle" /\ work'[p].op = "none"
         /\ \A q \in Writers : q # p => work'[q] = work[q]
         /\ work' \in [Writers -> Works]
<1>1. AtRest \in Works
  BY BlankIsSnapshot DEF AtRest, Works, Ops, WorkSteps
<1>2. AtRest.step = "idle" /\ AtRest.op = "none"  BY DEF AtRest
<1>. QED  BY <1>1, <1>2 DEF GraphTypeOK

\* What an appending operation computes from the files.
LEMMA WithEntryFacts ==
  ASSUME GraphTypeOK, NEW e \in Entries
  PROVE  /\ WithEntry(e) \in Snapshots
         /\ NextIndex \in Nat
         /\ WithEntry(e).entries = Append(entries, [id |-> e, index |-> NextIndex, summary |-> FALSE])
         /\ Len(WithEntry(e).entries) = Len(entries) + 1
         /\ \A i \in 1..Len(entries) : WithEntry(e).entries[i] = entries[i]
         /\ WithEntry(e).entries[Len(entries) + 1] = [id |-> e, index |-> NextIndex, summary |-> FALSE]
         /\ edges \subseteq WithEntry(e).edges /\ <<Thread, e>> \in WithEntry(e).edges
         /\ entries # <<>> => <<entries[Len(entries)].id, e>> \in WithEntry(e).edges
         /\ WithEntry(e).meta # Missing
         /\ meta = Missing => WithEntry(e).meta.count = NextIndex + 1
         /\ meta # Missing => /\ WithEntry(e).meta.ball = meta.ball
                              /\ WithEntry(e).meta.count = Larger(meta.count, NextIndex + 1)
<1>. DEFINE node == [id |-> e, index |-> NextIndex, summary |-> FALSE]
            last == entries[Len(entries)]
<1>1. Len(entries) \in Nat /\ (entries # <<>> => last \in Nodes)
  <2>1. Len(entries) \in Nat  BY LenProperties DEF GraphTypeOK
  <2>2. ASSUME entries # <<>> PROVE Len(entries) \in 1..Len(entries)
    BY <2>1, <2>2, EmptySeq, LenProperties DEF GraphTypeOK
  <2>. QED  BY <2>1, <2>2, ElementOfSeq DEF GraphTypeOK
<1>2. NextIndex \in Nat  BY <1>1 DEF NextIndex, Nodes
<1>3. node \in Nodes  BY <1>2 DEF Nodes
<1>4. /\ Append(entries, node) \in Seq(Nodes) /\ Len(Append(entries, node)) = Len(entries) + 1
      /\ \A i \in 1..Len(entries) : Append(entries, node)[i] = entries[i]
      /\ Append(entries, node)[Len(entries) + 1] = node
  BY <1>3, AppendProperties DEF GraphTypeOK
<1>. DEFINE m == IF meta = Missing THEN [count |-> NextIndex + 1, ball |-> Codex]
                 ELSE [meta EXCEPT !.count = Larger(@, NextIndex + 1)]
            g == edges \cup {<<Thread, e>>} \cup (IF entries = <<>> THEN {} ELSE {<<last.id, e>>})
<1>5. /\ m \in Metas /\ (meta = Missing => m.count = NextIndex + 1)
      /\ meta # Missing => m.ball = meta.ball /\ m.count = Larger(meta.count, NextIndex + 1)
  BY <1>2 DEF GraphTypeOK, Metas, Larger
<1>6. g \subseteq Edges /\ edges \subseteq g /\ <<Thread, e>> \in g
      /\ (entries # <<>> => <<last.id, e>> \in g)
  BY <1>1 DEF GraphTypeOK, Edges, Nodes
<1>7. WithEntry(e) = [meta |-> m, entries |-> Append(entries, node), edges |-> g]
  BY DEF WithEntry
<1>8. m # Missing  BY <1>5 DEF Metas
<1>. HIDE DEF m, g, node, last
<1>9. WithEntry(e) \in Snapshots /\ WithEntry(e).meta = m /\ WithEntry(e).edges = g
      /\ WithEntry(e).entries = Append(entries, node)
  BY <1>4, <1>5, <1>6, <1>7 DEF Snapshots
<1>. QED  BY <1>2, <1>4, <1>5, <1>6, <1>8, <1>9 DEF node, last

\* What an enrichment computes from them.
LEMMA WithSummaryFacts ==
  ASSUME GraphTypeOK, NEW e
  PROVE  /\ WithSummary(e) \in Snapshots
         /\ WithSummary(e).meta = meta /\ WithSummary(e).edges = edges
         /\ Len(WithSummary(e).entries) = Len(entries)
         /\ \A i \in 1..Len(entries) :
              /\ WithSummary(e).entries[i].id = entries[i].id
              /\ WithSummary(e).entries[i].index = entries[i].index
              /\ entries[i].summary => WithSummary(e).entries[i].summary
<1>. DEFINE node(i) == IF entries[i].id = e THEN [entries[i] EXCEPT !.summary = TRUE] ELSE entries[i]
            s == [i \in 1..Len(entries) |-> node(i)]
<1>1. Len(entries) \in Nat /\ \A i \in 1..Len(entries) : entries[i] \in Nodes
  BY LenProperties, ElementOfSeq DEF GraphTypeOK
<1>2. \A i \in 1..Len(entries) :
        /\ node(i) \in Nodes /\ node(i).id = entries[i].id /\ node(i).index = entries[i].index
        /\ entries[i].summary => node(i).summary
  BY <1>1 DEF Nodes
<1>3. s \in Seq(Nodes) /\ Len(s) = Len(entries) /\ \A i \in 1..Len(entries) : s[i] = node(i)
  <2>1. s \in [1..Len(entries) -> Nodes]  BY <1>2
  <2>2. s \in Seq(Nodes)  BY <1>1, <2>1, SeqDef
  <2>. QED  BY <1>1, <2>1, <2>2, LenProperties
<1>4. WithSummary(e) = [meta |-> meta, entries |-> s, edges |-> edges]  BY DEF WithSummary
<1>. HIDE DEF s, node
<1>5. WithSummary(e) \in Snapshots /\ WithSummary(e).meta = meta /\ WithSummary(e).edges = edges
      /\ WithSummary(e).entries = s
  BY <1>3, <1>4 DEF Snapshots, GraphTypeOK
<1>. QED  BY <1>2, <1>3, <1>5

\* The ids of a list of nodes.
LEMMA IdsOf ==
  ASSUME NEW s \in Seq(Nodes)
  PROVE  /\ Ids(s) \in Seq(Entries) /\ Len(Ids(s)) = Len(s)
         /\ \A i \in 1..Len(s) : Ids(s)[i] = s[i].id
<1>0. Len(s) \in Nat /\ \A i \in 1..Len(s) : s[i] \in Nodes
  BY LenProperties, ElementOfSeq
<1>1. Len(s) \in Nat /\ \A i \in 1..Len(s) : s[i].id \in Entries
  BY <1>0 DEF Nodes
<1>2. Ids(s) \in [1..Len(s) -> Entries]  BY <1>1 DEF Ids
<1>3. Ids(s) \in Seq(Entries)  BY <1>1, <1>2, SeqDef
<1>. QED  BY <1>1, <1>2, <1>3, LenProperties DEF Ids

LEMMA IdsFacts ==
  ASSUME GraphTypeOK
  PROVE  /\ Ids(entries) \in Seq(Entries) /\ Len(Ids(entries)) = Len(entries)
         /\ \A i \in 1..Len(entries) : Ids(entries)[i] = entries[i].id
BY IdsOf DEF GraphTypeOK

LEMMA TypeStep ==
  ASSUME TypeInv, GraphNext
  PROVE  TypeInv'
<1>. SUFFICES ASSUME NEW p \in Writers,
                     \/ \E e \in Entries : Ack(p, e) \/ \E b \in Agents \cup {NoBall} : AppendEntry(p, e, b)
                     \/ \E b \in Agents : SetBall(p, b) \/ InitThread(p, b)
                     \/ \E i \in 1..Len(entries) : Enrich(p, i)
                     \/ Acquire(p) \/ Break(p) \/ GiveUp(p) \/ GiveBack(p)
                     \/ Ensure(p) \/ LoadGraph(p) \/ Think(p)
                     \/ WriteMeta(p) \/ WriteEntries(p) \/ WriteEdges(p)
                     \/ CheckThread(p) \/ WriteBall(p) \/ Project(p) \/ WriteHeader(p)
                     \/ WriteFails(p) \/ WriterDies(p)
              PROVE  TypeInv'
  BY DEF GraphNext
<1>0. GraphTypeOK  BY DEF TypeInv
<1>1. \A q \in Writers : OpAt(q)  BY DEF TypeInv
\* Those who are not at work, and what they know, are left alone.
<1>2. ASSUME \A q \in Writers : q # p => work'[q] = work[q], used \subseteq used'
      PROVE  \A q \in Writers : q # p => OpAt(q)'
  BY <1>1, <1>2 DEF OpAt, At
<1>3. ASSUME NEW e \in Entries, Ack(p, e)  PROVE TypeInv'
  <2>1. DEFINE b == IF meta = Missing THEN NoBall ELSE meta.ball
  <2>2. b \in Agents \cup {NoBall}  BY <1>0 DEF GraphTypeOK, Metas
  <2>3. Ask(p, "ack", e, b) /\ used' = used \cup {e} /\ UNCHANGED <<lock, graph, md, acked, writeFaults>>
    BY <1>3 DEF Ack
  <2>. HIDE DEF b
  <2>4. /\ work'[p].step = "acquire" /\ work'[p].op = "ack" /\ work'[p].entry = e
        /\ \A q \in Writers : q # p => work'[q] = work[q]
        /\ work' \in [Writers -> Works]
    <3>1. "ack" \in Ops  BY DEF Ops
    <3>. QED  BY <1>0, <2>2, <2>3, <3>1, AskFacts
  <2>5. GraphTypeOK'  BY <1>0, <2>3, <2>4 DEF GraphTypeOK, graph
  <2>6. OpAt(p)'  BY <2>3, <2>4 DEF OpAt, At, Appending
  <2>. QED  BY <1>2, <2>3, <2>4, <2>5, <2>6 DEF TypeInv
<1>4. ASSUME NEW e \in Entries, NEW b \in Agents \cup {NoBall}, AppendEntry(p, e, b)  PROVE TypeInv'
  <2>3. Ask(p, "append", e, b) /\ used' = used \cup {e} /\ UNCHANGED <<lock, graph, md, acked, writeFaults>>
    BY <1>4 DEF AppendEntry
  <2>4. /\ work'[p].step = "acquire" /\ work'[p].op = "append" /\ work'[p].entry = e
        /\ \A q \in Writers : q # p => work'[q] = work[q]
        /\ work' \in [Writers -> Works]
    <3>1. "append" \in Ops  BY DEF Ops
    <3>. QED  BY <1>0, <2>3, <3>1, AskFacts
  <2>5. GraphTypeOK'  BY <1>0, <2>3, <2>4 DEF GraphTypeOK, graph
  <2>6. OpAt(p)'  BY <2>3, <2>4 DEF OpAt, At, Appending
  <2>. QED  BY <1>2, <2>3, <2>4, <2>5, <2>6 DEF TypeInv
<1>5. ASSUME NEW b \in Agents, SetBall(p, b) \/ InitThread(p, b)  PROVE TypeInv'
  <2>1. PICK op \in {"set_ball", "init"} : Ask(p, op, NoEntry, b)  BY <1>5 DEF SetBall, InitThread
  <2>2. UNCHANGED <<lock, graph, md, used, acked, writeFaults>>  BY <1>5 DEF SetBall, InitThread
  <2>3. op \in Ops  BY DEF Ops
  <2>4. /\ work'[p].step = "acquire" /\ work'[p].op = op /\ work'[p].ball = b
        /\ \A q \in Writers : q # p => work'[q] = work[q]
        /\ work' \in [Writers -> Works]
    BY <1>0, <2>1, <2>3, AskFacts
  <2>5. GraphTypeOK'  BY <1>0, <2>2, <2>4 DEF GraphTypeOK, graph
  <2>6. OpAt(p)'  BY <2>4 DEF OpAt, At, Appending
  <2>. QED  BY <1>2, <2>2, <2>4, <2>5, <2>6 DEF TypeInv
<1>6. ASSUME NEW i \in 1..Len(entries), Enrich(p, i)  PROVE TypeInv'
  <2>1. entries[i] \in Nodes  BY <1>0, ElementOfSeq DEF GraphTypeOK
  <2>2. entries[i].id \in Entries  BY <2>1 DEF Nodes
  <2>3. Ask(p, "enrich", entries[i].id, NoBall) /\ UNCHANGED <<lock, graph, md, used, acked, writeFaults>>
    BY <1>6 DEF Enrich
  <2>4. /\ work'[p].step = "acquire" /\ work'[p].op = "enrich"
        /\ \A q \in Writers : q # p => work'[q] = work[q]
        /\ work' \in [Writers -> Works]
    <3>1. "enrich" \in Ops  BY DEF Ops
    <3>. QED  BY <1>0, <2>2, <2>3, <3>1, AskFacts
  <2>5. GraphTypeOK'  BY <1>0, <2>3, <2>4 DEF GraphTypeOK, graph
  <2>6. OpAt(p)'  BY <2>4 DEF OpAt, At, Appending
  <2>. QED  BY <1>2, <2>3, <2>4, <2>5, <2>6 DEF TypeInv
\* The steps that only move p on.
<1>7. ASSUME NEW s \in WorkSteps, Step(p, s),
             UNCHANGED <<used, acked>>, lock' \in Writers \cup {NoWriter}, meta' \in Metas \cup {Missing},
             entries' \in Seq(Nodes), edges' \subseteq Edges,
             md' \in [entries : Seq(Entries), ball : Agents] \cup {Missing},
             writeFaults' \in 0..MaxWriteFaults,
             s # "acquire",
             s = "ensure" => work[p].op \in Appending \cup {"init"},
             s \in {"load", "meta", "entries", "edges"} => work[p].op \in Appending \cup {"enrich"},
             s = "think" => work[p].op = "enrich",
             s = "check" => work[p].op = "set_ball",
             s = "ball" => work[p].op \in Appending \cup {"set_ball"} /\ work[p].ball # NoBall,
             s = "project" => work[p].op \in Appending \cup {"set_ball"},
             s = "header" => work[p].op = "init"
      PROVE  TypeInv'
  <2>1. /\ work'[p].step = s /\ work'[p].op = work[p].op /\ work'[p].entry = work[p].entry
        /\ work'[p].ball = work[p].ball
        /\ \A q \in Writers : q # p => work'[q] = work[q]
        /\ work' \in [Writers -> Works]
    BY <1>0, <1>7, StepFacts
  <2>2. GraphTypeOK'  BY <1>0, <1>7, <2>1 DEF GraphTypeOK
  <2>3. OpAt(p)'  BY <1>1, <1>7, <2>1 DEF OpAt, At
  <2>. QED  BY <1>2, <1>7, <2>1, <2>2, <2>3 DEF TypeInv
<1>8. /\ lock \in Writers \cup {NoWriter} /\ meta \in Metas \cup {Missing} /\ entries \in Seq(Nodes)
      /\ edges \subseteq Edges /\ md \in [entries : Seq(Entries), ball : Agents] \cup {Missing}
      /\ writeFaults \in 0..MaxWriteFaults
      /\ work[p].read.meta \in Metas \cup {Missing} /\ work[p].read.entries \in Seq(Nodes)
      /\ work[p].read.edges \subseteq Edges /\ work[p].ball \in Agents \cup {NoBall}
      /\ work[p].op \in Ops
      /\ work[p].entry \in Entries \cup {NoEntry} /\ used \subseteq Entries /\ acked \subseteq used
  BY <1>0 DEF GraphTypeOK, Works, Snapshots
<1>9. OpAt(p)  BY <1>1
<1>10. ASSUME Acquire(p)  PROVE TypeInv'
  <2>1. CASE work[p].op \in Appending \cup {"init"}
    <3>1. Step(p, "ensure")  BY <1>10, <2>1 DEF Acquire, Appending
    <3>. QED  BY <1>7, <1>8, <1>10, <2>1, <3>1 DEF Acquire, WorkSteps, graph
  <2>2. CASE work[p].op = "set_ball"
    <3>1. Step(p, "check")  BY <1>10, <2>2 DEF Acquire
    <3>. QED  BY <1>7, <1>8, <1>10, <2>2, <3>1 DEF Acquire, WorkSteps, graph
  <2>3. CASE work[p].op = "enrich"
    <3>1. Step(p, "load")  BY <1>10, <2>3 DEF Acquire
    <3>. QED  BY <1>7, <1>8, <1>10, <2>3, <3>1 DEF Acquire, WorkSteps, graph
  <2>. QED  BY <1>9, <1>10, <2>1, <2>2, <2>3 DEF OpAt, Acquire, At
<1>11. ASSUME Break(p)  PROVE TypeInv'
  <2>1. lock' = NoWriter /\ UNCHANGED <<graph, md, work, used, acked, writeFaults>>  BY <1>11 DEF Break
  <2>. QED  BY <1>0, <1>1, <2>1 DEF TypeInv, GraphTypeOK, OpAt, At, graph
<1>12. ASSUME work' = [work EXCEPT ![p] = AtRest], UNCHANGED <<graph, md, used>>,
              lock' \in Writers \cup {NoWriter}, acked' \subseteq used, writeFaults' \in 0..MaxWriteFaults
       PROVE  TypeInv'
  <2>1. /\ work'[p].step = "idle" /\ work'[p].op = "none"
        /\ \A q \in Writers : q # p => work'[q] = work[q]
        /\ work' \in [Writers -> Works]
    BY <1>0, <1>12, RestFacts
  <2>2. GraphTypeOK'  BY <1>0, <1>12, <2>1 DEF GraphTypeOK, graph
  <2>3. OpAt(p)'  BY <2>1 DEF OpAt, At, Appending
  <2>. QED  BY <1>2, <1>12, <2>1, <2>2, <2>3 DEF TypeInv
<1>13. ASSUME GiveUp(p)  PROVE TypeInv'
  BY <1>8, <1>12, <1>13 DEF GiveUp
<1>14. ASSUME GiveBack(p)  PROVE TypeInv'
  <2>1. acked' \subseteq used
    BY <1>8, <1>9, <1>14 DEF GiveBack, OpAt, Appending
  <2>. QED  BY <1>8, <1>12, <1>14, <2>1 DEF GiveBack
<1>15. ASSUME Fault  PROVE writeFaults' \in 0..MaxWriteFaults
  BY <1>8, <1>15 DEF Fault
<1>16. ASSUME WriterDies(p)  PROVE TypeInv'
  BY <1>8, <1>12, <1>15, <1>16 DEF WriterDies
<1>17. ASSUME Ensure(p)  PROVE TypeInv'
  <2>1. meta' \in Metas \cup {Missing}
    BY <1>8, <1>9, <1>17 DEF Ensure, Metas, OpAt
  <2>2. work[p].op \in Appending \cup {"init"}  BY <1>9, <1>17 DEF Ensure, OpAt
  <2>3. CASE work[p].op # "init"
    <3>1. Step(p, "load")  BY <1>17, <2>3 DEF Ensure
    <3>. QED  BY <1>7, <1>8, <1>17, <2>1, <2>2, <2>3, <3>1 DEF Ensure, WorkSteps
  <2>4. CASE work[p].op = "init" /\ md = Missing
    <3>1. Step(p, "header")  BY <1>17, <2>4 DEF Ensure
    <3>. QED  BY <1>7, <1>8, <1>17, <2>1, <2>4, <3>1 DEF Ensure, WorkSteps
  <2>5. CASE work[p].op = "init" /\ md # Missing
    <3>1. Step(p, "release")  BY <1>17, <2>5 DEF Ensure
    <3>. QED  BY <1>7, <1>8, <1>17, <2>1, <2>5, <3>1 DEF Ensure, WorkSteps
  <2>. QED  BY <2>3, <2>4, <2>5
<1>18. ASSUME LoadGraph(p)  PROVE TypeInv'
  <2>1. work[p].op \in Appending \cup {"enrich"} /\ work[p].op \in Ops
    BY <1>8, <1>9, <1>18 DEF LoadGraph, OpAt, At
  <2>2. ASSUME NEW r \in Snapshots, NEW s \in {"meta", "think"}, s = "think" => work[p].op = "enrich",
               work' = [work EXCEPT ![p].read = r, ![p].step = s]
        PROVE  TypeInv'
    <3>1. /\ work'[p].step = s /\ work'[p].op = work[p].op /\ work'[p].entry = work[p].entry
          /\ work'[p].ball = work[p].ball
          /\ \A q \in Writers : q # p => work'[q] = work[q]
          /\ work' \in [Writers -> Works]
      <4>. DEFINE loaded == [work EXCEPT ![p].read = r]
      <4>1. /\ loaded[p].read = r /\ loaded[p].op = work[p].op /\ loaded[p].entry = work[p].entry
            /\ loaded[p].ball = work[p].ball /\ \A q \in Writers : q # p => loaded[q] = work[q]
            /\ loaded \in [Writers -> Works]
        BY <1>0 DEF GraphTypeOK, Works
      <4>2. work' = [loaded EXCEPT ![p].step = s]  BY <2>2
      <4>3. s \in WorkSteps  BY DEF WorkSteps
      <4>. HIDE DEF loaded
      <4>. QED  BY <4>1, <4>2, <4>3 DEF Works
    <3>2. GraphTypeOK'  BY <1>0, <1>18, <3>1 DEF GraphTypeOK, LoadGraph, graph
    <3>3. OpAt(p)'  BY <1>9, <1>18, <2>1, <2>2, <3>1 DEF OpAt, At, LoadGraph
    <3>. QED  BY <1>2, <1>18, <3>1, <3>2, <3>3 DEF TypeInv, LoadGraph
  <2>3. CASE work[p].op # "enrich"
    <3>1. work[p].entry \in Entries  BY <1>8, <1>9, <2>1, <2>3 DEF OpAt
    <3>2. WithEntry(work[p].entry) \in Snapshots  BY <1>0, <3>1, WithEntryFacts
    <3>3. work' = [work EXCEPT ![p].read = WithEntry(work[p].entry), ![p].step = "meta"]
      BY <1>18, <2>3 DEF LoadGraph
    <3>. QED  BY <2>2, <3>2, <3>3
  <2>4. CASE work[p].op = "enrich" /\ Listed(work[p].entry, Ids(entries))
    <3>1. WithSummary(work[p].entry) \in Snapshots  BY <1>0, WithSummaryFacts
    <3>2. work' = [work EXCEPT ![p].read = WithSummary(work[p].entry), ![p].step = "think"]
      BY <1>18, <2>4 DEF LoadGraph
    <3>. QED  BY <2>2, <2>4, <3>1, <3>2
  <2>5. CASE work[p].op = "enrich" /\ ~Listed(work[p].entry, Ids(entries))
    <3>1. Step(p, "release")  BY <1>18, <2>5 DEF LoadGraph
    <3>. QED  BY <1>7, <1>8, <1>18, <2>1, <3>1 DEF LoadGraph, WorkSteps, graph
  <2>. QED  BY <2>3, <2>4, <2>5
<1>19. ASSUME Think(p)  PROVE TypeInv'
  BY <1>7, <1>8, <1>9, <1>19 DEF Think, WorkSteps, graph, OpAt, At
<1>20. ASSUME WriteMeta(p)  PROVE TypeInv'
  BY <1>7, <1>8, <1>9, <1>20 DEF WriteMeta, WorkSteps, OpAt, At
<1>21. ASSUME WriteEntries(p)  PROVE TypeInv'
  BY <1>7, <1>8, <1>9, <1>21 DEF WriteEntries, WorkSteps, OpAt, At
<1>22. ASSUME WriteEdges(p)  PROVE TypeInv'
  <2>1. work[p].op \in Appending \cup {"enrich"}  BY <1>9, <1>22 DEF WriteEdges, OpAt, At
  <2>2. CASE work[p].op = "enrich"
    <3>1. Step(p, "release")  BY <1>22, <2>2 DEF WriteEdges
    <3>. QED  BY <1>7, <1>8, <1>22, <3>1 DEF WriteEdges, WorkSteps
  <2>3. CASE work[p].op # "enrich" /\ work[p].ball = NoBall
    <3>1. Step(p, "project")  BY <1>22, <2>3 DEF WriteEdges
    <3>. QED  BY <1>7, <1>8, <1>22, <2>1, <2>3, <3>1 DEF WriteEdges, WorkSteps
  <2>4. CASE work[p].op # "enrich" /\ work[p].ball # NoBall
    <3>1. Step(p, "ball")  BY <1>22, <2>4 DEF WriteEdges
    <3>. QED  BY <1>7, <1>8, <1>22, <2>1, <2>4, <3>1 DEF WriteEdges, WorkSteps
  <2>. QED  BY <2>2, <2>3, <2>4
<1>23. ASSUME CheckThread(p)  PROVE TypeInv'
  <2>1. work[p].op = "set_ball" /\ work[p].ball # NoBall
    BY <1>9, <1>23 DEF CheckThread, OpAt, At
  <2>2. PICK s \in {"release", "ball"} : Step(p, s)  BY <1>23 DEF CheckThread
  <2>. QED  BY <1>7, <1>8, <1>23, <2>1, <2>2 DEF CheckThread, WorkSteps, graph
<1>24. ASSUME WriteBall(p)  PROVE TypeInv'
  <2>1. work[p].op \in Appending \cup {"set_ball"} /\ work[p].ball \in Agents
    BY <1>8, <1>9, <1>24 DEF WriteBall, OpAt, At
  <2>2. meta' \in Metas \cup {Missing}  BY <1>8, <1>24, <2>1 DEF WriteBall, Metas
  <2>. QED  BY <1>7, <1>8, <1>24, <2>1, <2>2 DEF WriteBall, WorkSteps
<1>25. ASSUME Project(p)  PROVE TypeInv'
  <2>1. meta # Missing => Projection \in [entries : Seq(Entries), ball : Agents]
    BY <1>0, <1>8, IdsFacts DEF Projection, Metas
  <2>. QED  BY <1>7, <1>8, <1>25, <2>1 DEF Project, WorkSteps, graph
<1>26. ASSUME WriteHeader(p)  PROVE TypeInv'
  <2>1. work[p].ball \in Agents  BY <1>9, <1>26 DEF WriteHeader, OpAt, At
  <2>2. <<>> \in Seq(Entries)  BY EmptySeq
  <2>. QED  BY <1>7, <1>8, <1>26, <2>1, <2>2 DEF WriteHeader, WorkSteps, graph
<1>27. ASSUME WriteFails(p)  PROVE TypeInv'
  <2>1. UNCHANGED <<lock, graph, md, used, acked>> /\ writeFaults' \in 0..MaxWriteFaults
    BY <1>15, <1>27 DEF WriteFails
  <2>2. CASE /\ At(p, "ensure") /\ meta = Missing
             /\ Step(p, IF work[p].op = "init" THEN "header" ELSE "load")
    <3>1. work[p].op \in Appending \cup {"init"}  BY <1>9, <2>2 DEF OpAt
    <3>2. PICK s \in {"header", "load"} : Step(p, s) /\ s = IF work[p].op = "init" THEN "header" ELSE "load"
      BY <2>2
    <3>. QED  BY <1>7, <1>8, <2>1, <3>1, <3>2 DEF WorkSteps, graph
  <2>3. CASE /\ At(p, "ball") /\ work[p].op # "set_ball"
             /\ Step(p, "project")
    BY <1>7, <1>8, <1>9, <2>1, <2>3 DEF WorkSteps, graph, OpAt
  <2>4. CASE work' = [work EXCEPT ![p].op = "failed", ![p].step = "release"]
    <3>1. /\ work'[p].step = "release" /\ work'[p].op = "failed"
          /\ \A q \in Writers : q # p => work'[q] = work[q]
          /\ work' \in [Writers -> Works]
      <4>. DEFINE failed == [work EXCEPT ![p].op = "failed"]
      <4>1. /\ failed[p].op = "failed" /\ \A q \in Writers : q # p => failed[q] = work[q]
            /\ failed \in [Writers -> Works]
        BY <1>0 DEF GraphTypeOK, Works, Ops
      <4>2. work' = [failed EXCEPT ![p].step = "release"]  BY <2>4
      <4>. HIDE DEF failed
      <4>. QED  BY <4>1, <4>2 DEF Works, WorkSteps
    <3>2. GraphTypeOK'  BY <1>0, <2>1, <3>1 DEF GraphTypeOK, graph
    <3>3. OpAt(p)'  BY <3>1 DEF OpAt, At, Appending
    <3>. QED  BY <1>2, <2>1, <3>1, <3>2, <3>3 DEF TypeInv
  <2>. QED  BY <1>27, <2>2, <2>3, <2>4 DEF WriteFails
<1>. QED  BY <1>3, <1>4, <1>5, <1>6, <1>10, <1>11, <1>13, <1>14, <1>16, <1>17, <1>18, <1>19, <1>20,
             <1>21, <1>22, <1>23, <1>24, <1>25, <1>26, <1>27

LEMMA InitTypeInv == GraphInit => TypeInv
<1>. SUFFICES ASSUME GraphInit PROVE TypeInv  OBVIOUS
<1>1. <<>> \in Seq(Nodes)  BY EmptySeq
<1>2. AtRest \in Works
  BY BlankIsSnapshot DEF AtRest, Works, Ops, WorkSteps
<1>3. GraphTypeOK  BY <1>1, <1>2 DEF GraphInit, GraphTypeOK
<1>4. \A p \in Writers : OpAt(p)  BY DEF GraphInit, OpAt, At, AtRest, Appending
<1>. QED  BY <1>3, <1>4 DEF TypeInv

LEMMA TypeInvariant == GraphSpec => []TypeInv
<1>1. TypeInv /\ [GraphNext]_graphVars => TypeInv'
  <2>1. CASE UNCHANGED graphVars
    BY <2>1 DEF graphVars, graph, TypeInv, GraphTypeOK, OpAt, At
  <2>. QED  BY <2>1, TypeStep
<1>. QED  BY <1>1, InitTypeInv, PTL DEF GraphSpec

\* The files, and what each operation has read of them, keep their types, whatever dies,
\* fails or overstays.
THEOREM GraphTypeCorrect == GraphSpec => []GraphTypeOK
<1>1. TypeInv => GraphTypeOK  BY DEF TypeInv
<1>. QED  BY <1>1, TypeInvariant, PTL
-----------------------------------------------------------------------------
(* The files                                                                *)

Indexed(s) == \A i \in 1..Len(s) : s[i].index = i - 1

\* t is s, but for summaries and one more entry.
Continues(s, t) ==
    /\ Len(s) <= Len(t) /\ Len(t) <= Len(s) + 1
    /\ \A i \in 1..Len(s) :
         /\ t[i].id = s[i].id /\ t[i].index = s[i].index
         /\ s[i].summary => t[i].summary
    /\ Indexed(t)

\* The thread's node goes with its entries.
Counts(m, s) ==
    /\ m = Missing => s = <<>>
    /\ m # Missing => m.count \in {Len(s), Len(s) + 1}

Linked(e, s, links) ==
    \E i \in 1..Len(s) :
        /\ s[i].id = e /\ <<Thread, e>> \in links
        /\ i > 1 => <<s[i - 1].id, e>> \in links

Shown(e) == md # Missing /\ Listed(e, md.entries)

\* What an operation has read goes with the files it has not written yet, and what it has
\* written is in them.
Knows(p) ==
    /\ work[p].step \in {"think", "meta", "entries"} =>
         /\ Continues(entries, work[p].read.entries) /\ edges \subseteq work[p].read.edges
         /\ Counts(work[p].read.meta, entries)
         /\ Counts(work[p].read.meta, work[p].read.entries)
    /\ At(p, "entries") => meta = work[p].read.meta
    /\ At(p, "edges") => entries = work[p].read.entries /\ edges \subseteq work[p].read.edges
    /\ work[p].op \in Appending /\ work[p].step \in {"meta", "entries", "edges"} =>
         Linked(work[p].entry, work[p].read.entries, work[p].read.edges)
    /\ work[p].op \in Appending /\ work[p].step \in {"ball", "project", "release"} =>
         Linked(work[p].entry, entries, edges)
    /\ work[p].op \in Appending /\ At(p, "release") => Shown(work[p].entry)
    /\ At(p, "header") => acked = {}

LockInv == \A p \in Writers : Critical(p) => lock = p

GraphInv ==
    /\ LockInv
    /\ Indexed(entries) /\ Counts(meta, entries)
    /\ \A p \in Writers : Knows(p)
    /\ AcknowledgedWhole

LEMMA WholeParts == \A e : Whole(e) <=> Linked(e, entries, edges) /\ Shown(e)
BY DEF Whole, Linked, Shown

\* An entry that is linked stays so when the files continue.
LEMMA LinkedStays ==
  ASSUME NEW s \in Seq(Nodes), NEW t \in Seq(Nodes), Continues(s, t), NEW g, NEW h, g \subseteq h,
         NEW e, Linked(e, s, g)
  PROVE  Linked(e, t, h)
<1>1. PICK i \in 1..Len(s) : /\ s[i].id = e /\ <<Thread, e>> \in g
                             /\ i > 1 => <<s[i - 1].id, e>> \in g
  BY DEF Linked
<1>2. Len(s) \in Nat /\ Len(t) \in Nat  BY LenProperties
<1>3. i \in 1..Len(t) /\ t[i].id = e  BY <1>1, <1>2 DEF Continues
<1>4. ASSUME i > 1 PROVE <<t[i - 1].id, e>> \in h
  <2>1. i - 1 \in 1..Len(s)  BY <1>2, <1>4
  <2>. QED  BY <1>1, <1>4, <2>1 DEF Continues
<1>. QED  BY <1>1, <1>3, <1>4 DEF Linked

\* A list of one kind continues itself.
LEMMA ContinuesItself ==
  ASSUME NEW s \in Seq(Nodes), Indexed(s)
  PROVE  Continues(s, s)
<1>1. Len(s) \in Nat  BY LenProperties
<1>. QED  BY <1>1 DEF Continues

\* What an operation reads continues the files.
LEMMA EntryContinues ==
  ASSUME TypeInv, Indexed(entries), Counts(meta, entries), NEW e \in Entries
  PROVE  LET r == WithEntry(e) IN
         /\ Continues(entries, r.entries) /\ edges \subseteq r.edges
         /\ Counts(r.meta, entries) /\ Counts(r.meta, r.entries)
         /\ Linked(e, r.entries, r.edges)
<1>. DEFINE r == WithEntry(e)
<1>0. GraphTypeOK  BY DEF TypeInv
<1>1. /\ Len(r.entries) = Len(entries) + 1
      /\ \A i \in 1..Len(entries) : r.entries[i] = entries[i]
      /\ r.entries[Len(entries) + 1] = [id |-> e, index |-> NextIndex, summary |-> FALSE]
      /\ edges \subseteq r.edges /\ <<Thread, e>> \in r.edges
      /\ entries # <<>> => <<entries[Len(entries)].id, e>> \in r.edges
      /\ r.meta # Missing
      /\ meta = Missing => r.meta.count = NextIndex + 1
      /\ meta # Missing => r.meta.count = Larger(meta.count, NextIndex + 1)
  BY <1>0, WithEntryFacts
<1>. HIDE DEF r
<1>2. Len(entries) \in Nat /\ (entries # <<>> => Len(entries) \in 1..Len(entries))
      /\ (entries = <<>> => Len(entries) = 0)
  <2>1. Len(entries) \in Nat  BY <1>0, LenProperties DEF GraphTypeOK
  <2>2. entries # <<>> => Len(entries) \in Nat \ {0}  BY <1>0, EmptySeq DEF GraphTypeOK
  <2>3. entries = <<>> => Len(entries) = 0  BY EmptySeq
  <2>. QED  BY <2>1, <2>2, <2>3
<1>3. NextIndex = Len(entries)
  <2>1. CASE entries = <<>>  BY <1>2, <2>1 DEF NextIndex
  <2>2. CASE entries # <<>>
    <3>1. entries[Len(entries)].index = Len(entries) - 1  BY <1>2, <2>2 DEF Indexed
    <3>. QED  BY <1>2, <2>2, <3>1 DEF NextIndex
  <2>. QED  BY <2>1, <2>2
<1>4. \A i \in 1..(Len(entries) + 1) : i \in 1..Len(entries) \/ i = Len(entries) + 1  BY <1>2
<1>5. Indexed(r.entries)
  <2>1. r.entries[Len(entries) + 1].index = Len(entries) + 1 - 1  BY <1>1, <1>2, <1>3
  <2>. QED  BY <1>1, <1>4, <2>1 DEF Indexed
<1>6. Continues(entries, r.entries)  BY <1>1, <1>2, <1>5 DEF Continues
<1>7. r.meta.count = Len(entries) + 1
  <2>1. CASE meta = Missing  BY <1>1, <1>3, <2>1
  <2>2. CASE meta # Missing
    <3>1. meta.count \in {Len(entries), Len(entries) + 1}  BY <2>2 DEF Counts
    <3>. QED  BY <1>1, <1>2, <1>3, <2>2, <3>1 DEF Larger
  <2>. QED  BY <2>1, <2>2
<1>8. Counts(r.meta, entries) /\ Counts(r.meta, r.entries)  BY <1>1, <1>7 DEF Counts
<1>9. Linked(e, r.entries, r.edges)
  <2>. DEFINE n == Len(entries) + 1
  <2>1. n \in 1..Len(r.entries) /\ r.entries[n].id = e  BY <1>1, <1>2
  <2>2. ASSUME n > 1 PROVE <<r.entries[n - 1].id, e>> \in r.edges
    <3>1. entries # <<>> /\ Len(entries) \in 1..Len(entries)  BY <1>2, <2>2
    <3>2. n - 1 = Len(entries)  BY <1>2
    <3>. QED  BY <1>1, <3>1, <3>2
  <2>. HIDE DEF n
  <2>. QED  BY <1>1, <2>1, <2>2 DEF Linked
<1>. QED  BY <1>1, <1>6, <1>8, <1>9 DEF r

LEMMA SummaryContinues ==
  ASSUME TypeInv, Indexed(entries), Counts(meta, entries), NEW e
  PROVE  LET r == WithSummary(e) IN
         /\ Continues(entries, r.entries) /\ edges \subseteq r.edges
         /\ Counts(r.meta, entries) /\ Counts(r.meta, r.entries)
<1>. DEFINE r == WithSummary(e)
<1>0. GraphTypeOK  BY DEF TypeInv
<1>1. /\ r \in Snapshots /\ r.meta = meta /\ r.edges = edges
      /\ Len(r.entries) = Len(entries)
      /\ \A i \in 1..Len(entries) :
              /\ r.entries[i].id = entries[i].id
              /\ r.entries[i].index = entries[i].index
              /\ entries[i].summary => r.entries[i].summary
  BY <1>0, WithSummaryFacts
<1>. HIDE DEF r
<1>2. Len(entries) \in Nat /\ r.entries \in Seq(Nodes)
  BY <1>0, <1>1, LenProperties DEF GraphTypeOK, Snapshots
<1>3. entries = <<>> => r.entries = <<>>  BY <1>1, <1>2, EmptySeq
<1>4. Indexed(r.entries)  BY <1>1 DEF Indexed
<1>5. Continues(entries, r.entries)  BY <1>1, <1>2, <1>4 DEF Continues
<1>6. Counts(r.meta, entries) /\ Counts(r.meta, r.entries)  BY <1>1, <1>3 DEF Counts
<1>. QED  BY <1>1, <1>5, <1>6 DEF r

LEMMA GraphStep ==
  ASSUME ~Overstay, TypeInv, TypeInv', GraphInv, GraphNext
  PROVE  GraphInv'
<1>. SUFFICES ASSUME NEW p \in Writers,
                     \/ \E e \in Entries : Ack(p, e) \/ \E b \in Agents \cup {NoBall} : AppendEntry(p, e, b)
                     \/ \E b \in Agents : SetBall(p, b) \/ InitThread(p, b)
                     \/ \E i \in 1..Len(entries) : Enrich(p, i)
                     \/ Acquire(p) \/ Break(p) \/ GiveUp(p) \/ GiveBack(p)
                     \/ Ensure(p) \/ LoadGraph(p) \/ Think(p)
                     \/ WriteMeta(p) \/ WriteEntries(p) \/ WriteEdges(p)
                     \/ CheckThread(p) \/ WriteBall(p) \/ Project(p) \/ WriteHeader(p)
                     \/ WriteFails(p) \/ WriterDies(p)
              PROVE  GraphInv'
  BY DEF GraphNext
<1>0. GraphTypeOK /\ OpAt(p)  BY DEF TypeInv
<1>1. /\ LockInv /\ Indexed(entries) /\ Counts(meta, entries)
      /\ \A q \in Writers : Knows(q)
      /\ AcknowledgedWhole
  BY DEF GraphInv
<1>2. /\ lock \in Writers \cup {NoWriter} /\ meta \in Metas \cup {Missing} /\ entries \in Seq(Nodes)
      /\ work[p].read.meta \in Metas \cup {Missing} /\ work[p].read.entries \in Seq(Nodes)
      /\ work[p].op \in Ops /\ work[p].step \in WorkSteps
      /\ used \subseteq Entries
      /\ GraphTypeOK
  BY <1>0 DEF GraphTypeOK, Works, Snapshots
\* Who holds the lock works alone.
<1>3. ASSUME Critical(p)  PROVE lock = p /\ \A q \in Writers : q # p => ~Critical(q)
  BY <1>1, <1>3 DEF LockInv
<1>4. ASSUME \A q \in Writers : q # p => work'[q] = work[q],
             \A q \in Writers : q # p => ~Critical(q)
      PROVE  \A q \in Writers : q # p => Knows(q)' /\ ~Critical(q)'
  BY <1>4 DEF Knows, Critical, At
\* A step of the holder of the lock.
<1>5. ASSUME Critical(p), lock' = lock, \A q \in Writers : q # p => work'[q] = work[q],
             Indexed(entries'), Counts(meta', entries'), AcknowledgedWhole', Knows(p)'
      PROVE  GraphInv'
  <2>1. lock = p /\ \A q \in Writers : q # p => ~Critical(q)  BY <1>3, <1>5
  <2>2. \A q \in Writers : q # p => Knows(q)' /\ ~Critical(q)'  BY <1>4, <1>5, <2>1
  <2>3. LockInv'  BY <1>5, <2>1, <2>2 DEF LockInv
  <2>. QED  BY <1>5, <2>2, <2>3 DEF GraphInv
\* One that leaves the files alone.
<1>6. ASSUME UNCHANGED <<graph, md, acked>>
      PROVE  /\ Indexed(entries') /\ Counts(meta', entries') /\ AcknowledgedWhole'
             /\ \A e, s, g : Linked(e, s, g)' <=> Linked(e, s, g)
  BY <1>1, <1>6 DEF graph, AcknowledgedWhole, Whole
<1>7. ASSUME Critical(p), UNCHANGED <<lock, graph, md, acked>>, NEW s \in WorkSteps, Step(p, s),
             s \in {"load", "check", "release", "ball", "project", "header", "meta"},
             At(p, "think") \/ s # "meta",
             work[p].op \in Appending /\ s \in {"ball", "project", "release"} =>
                Linked(work[p].entry, entries, edges),
             work[p].op \in Appending /\ s = "release" => Shown(work[p].entry),
             s = "header" => acked = {}
      PROVE  GraphInv'
  <2>1. /\ work'[p].step = s /\ work'[p].op = work[p].op /\ work'[p].entry = work[p].entry
        /\ work'[p].read = work[p].read
        /\ \A q \in Writers : q # p => work'[q] = work[q]
    BY <1>2, <1>7, StepFacts
  <2>2. Knows(p)'
    <3>1. CASE s = "meta"
      <4>1. work[p].op = "enrich" /\ Knows(p)  BY <1>0, <1>1, <1>7, <3>1 DEF OpAt
      <4>. QED  BY <1>7, <2>1, <3>1, <4>1 DEF Knows, At, graph, Appending
    <3>2. CASE s # "meta"
      BY <1>7, <2>1, <3>2 DEF Knows, At, graph, Linked, Shown
    <3>. QED  BY <3>1, <3>2
  <2>. QED  BY <1>5, <1>6, <1>7, <2>1, <2>2
\* One of somebody who has not the lock.
<1>8. ASSUME UNCHANGED <<lock, graph, md, acked>>, \A q \in Writers : q # p => work'[q] = work[q],
             work'[p].step \in {"idle", "acquire"}
      PROVE  GraphInv'
  <2>1. Knows(p)' /\ ~Critical(p)'  BY <1>8 DEF Knows, Critical, At
  <2>2. \A q \in Writers : q # p => Knows(q)' /\ (Critical(q)' => lock' = q)
    BY <1>1, <1>8 DEF Knows, Critical, At, graph, LockInv, Linked, Shown
  <2>3. LockInv'  BY <2>1, <2>2 DEF LockInv
  <2>. QED  BY <1>6, <1>8, <2>1, <2>2, <2>3 DEF GraphInv
<1>9. ASSUME NEW e \in Entries \cup {NoEntry}, NEW op \in Ops, NEW b \in Agents \cup {NoBall},
             Ask(p, op, e, b), UNCHANGED <<lock, graph, md, acked>>
      PROVE  GraphInv'
  BY <1>2, <1>8, <1>9, AskFacts
<1>10. ASSUME \E e \in Entries : Ack(p, e) \/ \E b \in Agents \cup {NoBall} : AppendEntry(p, e, b)
       PROVE  GraphInv'
  <2>1. (IF meta = Missing THEN NoBall ELSE meta.ball) \in Agents \cup {NoBall}
    BY <1>2 DEF Metas
  <2>. QED  BY <1>9, <1>10, <2>1 DEF Ack, AppendEntry, Ops
<1>11. ASSUME \E b \in Agents : SetBall(p, b) \/ InitThread(p, b)  PROVE GraphInv'
  BY <1>9, <1>11 DEF SetBall, InitThread, Ops
<1>12. ASSUME NEW i \in 1..Len(entries), Enrich(p, i)  PROVE GraphInv'
  <2>1. entries[i] \in Nodes  BY <1>2, ElementOfSeq
  <2>2. entries[i].id \in Entries  BY <2>1 DEF Nodes
  <2>. QED  BY <1>9, <1>12, <2>2 DEF Enrich, Ops
<1>13. ASSUME Acquire(p)  PROVE GraphInv'
  <2>1. lock = NoWriter /\ lock' = p /\ UNCHANGED <<graph, md, acked>>  BY <1>13 DEF Acquire
  <2>2. \A q \in Writers : ~Critical(q)  BY <1>1, <2>1 DEF LockInv
  <2>3. PICK s \in {"ensure", "check", "load"} : Step(p, s)
    BY <1>0, <1>13 DEF Acquire, OpAt, Appending
  <2>4. work'[p].step = s /\ \A q \in Writers : q # p => work'[q] = work[q]
    BY <1>2, <2>3, StepFacts DEF WorkSteps
  <2>5. Knows(p)'  BY <2>4 DEF Knows, At
  <2>6. \A q \in Writers : q # p => Knows(q)' /\ ~Critical(q)'  BY <1>4, <2>2, <2>4
  <2>. QED  BY <1>6, <2>1, <2>5, <2>6 DEF GraphInv, LockInv
<1>14. ASSUME Break(p)  PROVE GraphInv'
  <2>1. lock # NoWriter /\ ~Critical(lock) /\ UNCHANGED <<graph, md, work, acked>>  BY <1>14 DEF Break
  <2>2. \A q \in Writers : ~Critical(q)  BY <1>1, <1>2, <2>1 DEF LockInv
  <2>3. LockInv'  BY <2>1, <2>2 DEF LockInv, Critical
  <2>4. \A q \in Writers : Knows(q)'  BY <1>1, <2>1 DEF Knows, At, graph, Linked, Shown
  <2>. QED  BY <1>6, <2>1, <2>3, <2>4 DEF GraphInv
<1>15. ASSUME GiveUp(p) \/ WriterDies(p)  PROVE GraphInv'
  <2>1. work' = [work EXCEPT ![p] = AtRest] /\ UNCHANGED <<lock, graph, md, acked>>
    BY <1>15 DEF GiveUp, WriterDies
  <2>. QED  BY <1>2, <1>8, <2>1, RestFacts
<1>16. ASSUME GiveBack(p)  PROVE GraphInv'
  <2>1. Critical(p) /\ lock' = NoWriter /\ UNCHANGED <<graph, md>>
    BY <1>16 DEF GiveBack, Critical, At
  <2>2. work'[p].step = "idle" /\ \A q \in Writers : q # p => work'[q] = work[q]
    BY <1>2, <1>16, RestFacts DEF GiveBack
  <2>3. Knows(p)' /\ ~Critical(p)'  BY <2>2 DEF Knows, Critical, At
  <2>4. \A q \in Writers : q # p => Knows(q)' /\ ~Critical(q)'  BY <1>3, <1>4, <2>1, <2>2
  <2>5. \A e \in acked' : Whole(e)
    <3>1. work[p].op \in Appending => Whole(work[p].entry)
      BY <1>1, <1>16, WholeParts DEF GiveBack, Knows, At
    <3>. QED  BY <1>1, <1>16, <3>1 DEF GiveBack, AcknowledgedWhole, Appending
  <2>6. AcknowledgedWhole'  BY <2>1, <2>5 DEF AcknowledgedWhole, Whole, graph
  <2>. QED  BY <1>1, <2>1, <2>3, <2>4, <2>6 DEF GraphInv, LockInv, graph
<1>17. (entries = <<>> \/ md = Missing) => acked = {}
  <2>1. ASSUME NEW e, Whole(e)  PROVE entries # <<>> /\ md # Missing
    <3>1. PICK i \in 1..Len(entries) : md # Missing  BY <2>1 DEF Whole
    <3>2. entries # <<>>  BY <3>1, EmptySeq
    <3>. QED  BY <3>1, <3>2
  <2>. QED  BY <1>1, <2>1 DEF AcknowledgedWhole
<1>18. ASSUME Ensure(p)  PROVE GraphInv'
  <2>1. /\ Critical(p) /\ UNCHANGED <<lock, entries, edges, md, acked>>
        /\ work[p].op \in Appending \cup {"init"}
    BY <1>0, <1>18 DEF Ensure, Critical, At, OpAt
  <2>2. PICK s \in {"load", "header", "release"} :
            /\ Step(p, s)
            /\ s # "load" => work[p].op = "init"
            /\ s = "header" => md = Missing
    BY <1>18 DEF Ensure
  <2>3. /\ work'[p].step = s /\ work'[p].op = work[p].op
        /\ \A q \in Writers : q # p => work'[q] = work[q]
    BY <1>2, <2>2, StepFacts DEF WorkSteps
  <2>4. Knows(p)'  BY <1>17, <2>1, <2>2, <2>3 DEF Knows, At, Appending
  <2>5. Counts(meta', entries')
    <3>1. CASE meta # Missing  BY <1>1, <1>18, <2>1, <3>1 DEF Ensure
    <3>2. CASE meta = Missing
      <4>1. entries' = <<>> /\ Len(entries') = 0  BY <1>1, <2>1, <3>2, EmptySeq DEF Counts
      <4>2. meta'.count = 0  BY <1>18, <3>2 DEF Ensure
      <4>. QED  BY <4>1, <4>2 DEF Counts
    <3>. QED  BY <3>1, <3>2
  <2>6. AcknowledgedWhole'  BY <1>1, <2>1 DEF AcknowledgedWhole, Whole
  <2>. QED  BY <1>1, <1>5, <2>1, <2>3, <2>4, <2>5, <2>6
<1>19. ASSUME LoadGraph(p)  PROVE GraphInv'
  <2>1. /\ Critical(p) /\ UNCHANGED <<lock, graph, md, acked>>
        /\ work[p].op \in Appending \cup {"enrich"}
    BY <1>0, <1>19 DEF LoadGraph, Critical, At, OpAt
  <2>2. ASSUME NEW r \in Snapshots, NEW s \in {"meta", "think"},
               work' = [work EXCEPT ![p].read = r, ![p].step = s],
               Continues(entries, r.entries), edges \subseteq r.edges,
               Counts(r.meta, entries), Counts(r.meta, r.entries),
               work[p].op \in Appending => Linked(work[p].entry, r.entries, r.edges)
        PROVE  GraphInv'
    <3>1. /\ work'[p].step = s /\ work'[p].op = work[p].op /\ work'[p].entry = work[p].entry
          /\ work'[p].read = r
          /\ \A q \in Writers : q # p => work'[q] = work[q]
      <4>. DEFINE loaded == [work EXCEPT ![p].read = r]
      <4>1. /\ loaded[p].read = r /\ loaded[p].op = work[p].op /\ loaded[p].entry = work[p].entry
            /\ \A q \in Writers : q # p => loaded[q] = work[q]
            /\ loaded \in [Writers -> Works]
        BY <1>2 DEF GraphTypeOK, Works
      <4>2. work' = [loaded EXCEPT ![p].step = s]  BY <2>2
      <4>. HIDE DEF loaded
      <4>. QED  BY <4>1, <4>2 DEF Works
    <3>2. Knows(p)'  BY <2>1, <2>2, <3>1 DEF Knows, At, graph, Linked
    <3>. QED  BY <1>5, <1>6, <2>1, <3>1, <3>2
  <2>3. CASE work[p].op # "enrich"
    <3>1. work[p].entry \in Entries  BY <1>0, <1>2, <2>1, <2>3 DEF OpAt
    <3>2. work' = [work EXCEPT ![p].read = WithEntry(work[p].entry), ![p].step = "meta"]
      BY <1>19, <2>3 DEF LoadGraph
    <3>3. WithEntry(work[p].entry) \in Snapshots  BY <1>2, <3>1, WithEntryFacts
    <3>. QED  BY <1>1, <2>2, <3>1, <3>2, <3>3, EntryContinues
  <2>4. CASE work[p].op = "enrich" /\ Listed(work[p].entry, Ids(entries))
    <3>1. work' = [work EXCEPT ![p].read = WithSummary(work[p].entry), ![p].step = "think"]
      BY <1>19, <2>4 DEF LoadGraph
    <3>2. WithSummary(work[p].entry) \in Snapshots  BY <1>2, WithSummaryFacts
    <3>3. work[p].op \notin Appending  BY <2>4 DEF Appending
    <3>. QED  BY <1>1, <2>2, <3>1, <3>2, <3>3, SummaryContinues
  <2>5. CASE work[p].op = "enrich" /\ ~Listed(work[p].entry, Ids(entries))
    <3>1. Step(p, "release")  BY <1>19, <2>5 DEF LoadGraph
    <3>. QED  BY <1>7, <2>1, <2>5, <3>1 DEF WorkSteps, Appending
  <2>. QED  BY <2>3, <2>4, <2>5
<1>20. ASSUME Think(p)  PROVE GraphInv'
  BY <1>0, <1>7, <1>20 DEF Think, Critical, At, WorkSteps, OpAt, Appending
<1>21. ASSUME WriteMeta(p)  PROVE GraphInv'
  <2>1. /\ Critical(p) /\ UNCHANGED <<lock, entries, edges, md, acked>> /\ At(p, "meta")
        /\ meta' = work[p].read.meta /\ Step(p, "entries")
    BY <1>21 DEF WriteMeta, Critical, At
  <2>2. /\ work'[p].step = "entries" /\ work'[p].op = work[p].op /\ work'[p].entry = work[p].entry
        /\ work'[p].read = work[p].read
        /\ \A q \in Writers : q # p => work'[q] = work[q]
    BY <1>2, <2>1, StepFacts DEF WorkSteps
  <2>3. Knows(p)'  BY <1>1, <2>1, <2>2 DEF Knows, At, Linked
  <2>4. Counts(meta', entries')  BY <1>1, <2>1 DEF Knows, At
  <2>5. AcknowledgedWhole'  BY <1>1, <2>1 DEF AcknowledgedWhole, Whole
  <2>. QED  BY <1>1, <1>5, <2>1, <2>2, <2>3, <2>4, <2>5
<1>22. ASSUME WriteEntries(p)  PROVE GraphInv'
  <2>1. /\ Critical(p) /\ UNCHANGED <<lock, meta, edges, md, acked>> /\ At(p, "entries")
        /\ entries' = work[p].read.entries /\ Step(p, "edges")
    BY <1>22 DEF WriteEntries, Critical, At
  <2>2. /\ work'[p].step = "edges" /\ work'[p].op = work[p].op /\ work'[p].entry = work[p].entry
        /\ work'[p].read = work[p].read
        /\ \A q \in Writers : q # p => work'[q] = work[q]
    BY <1>2, <2>1, StepFacts DEF WorkSteps
  <2>3. Knows(p)  BY <1>1
  <2>4. Knows(p)'  BY <2>1, <2>2, <2>3 DEF Knows, At, Linked
  <2>5. Indexed(entries') /\ Counts(meta', entries') /\ Continues(entries, entries')
    BY <2>1, <2>3 DEF Knows, At, Continues
  <2>6. AcknowledgedWhole'
    <3>1. entries' \in Seq(Nodes) /\ edges' = edges  BY <1>2, <2>1
    <3>2. \A e : Linked(e, entries, edges) => Linked(e, entries', edges')
      BY <1>2, <2>5, <3>1, LinkedStays
    <3>3. \A e \in acked : Linked(e, entries', edges') /\ Shown(e)
      BY <1>1, <3>2, WholeParts DEF AcknowledgedWhole
    <3>. QED  BY <2>1, <3>3 DEF AcknowledgedWhole, Whole, Linked, Shown
  <2>. QED  BY <1>5, <2>1, <2>2, <2>4, <2>5, <2>6
<1>23. ASSUME WriteEdges(p)  PROVE GraphInv'
  <2>1. /\ Critical(p) /\ UNCHANGED <<lock, meta, entries, md, acked>> /\ At(p, "edges")
        /\ edges' = work[p].read.edges
    BY <1>23 DEF WriteEdges, Critical, At
  <2>2. PICK s \in {"release", "project", "ball"} :
          Step(p, s) /\ (work[p].op \in Appending => s # "release")
    BY <1>23 DEF WriteEdges, Appending
  <2>3. /\ work'[p].step = s /\ work'[p].op = work[p].op /\ work'[p].entry = work[p].entry
        /\ \A q \in Writers : q # p => work'[q] = work[q]
    BY <1>2, <2>2, StepFacts DEF WorkSteps
  <2>4. Knows(p)  BY <1>1
  <2>5. Knows(p)'  BY <2>1, <2>2, <2>3, <2>4 DEF Knows, At, Linked
  <2>6. edges \subseteq edges'  BY <2>1, <2>4 DEF Knows
  <2>7. AcknowledgedWhole'  BY <1>1, <2>1, <2>6 DEF AcknowledgedWhole, Whole
  <2>. QED  BY <1>1, <1>5, <2>1, <2>3, <2>5, <2>7
<1>24. ASSUME CheckThread(p)  PROVE GraphInv'
  <2>1. Critical(p) /\ UNCHANGED <<lock, graph, md, acked>> /\ work[p].op = "set_ball"
    BY <1>0, <1>24 DEF CheckThread, Critical, At, OpAt
  <2>2. PICK s \in {"release", "ball"} : Step(p, s)  BY <1>24 DEF CheckThread
  <2>. QED  BY <1>7, <2>1, <2>2 DEF WorkSteps, Appending
<1>25. ASSUME WriteBall(p)  PROVE GraphInv'
  <2>1. /\ Critical(p) /\ UNCHANGED <<lock, entries, edges, md, acked>> /\ At(p, "ball")
        /\ Step(p, "project")
    BY <1>25 DEF WriteBall, Critical, At
  <2>2. /\ work'[p].step = "project" /\ work'[p].op = work[p].op /\ work'[p].entry = work[p].entry
        /\ \A q \in Writers : q # p => work'[q] = work[q]
    BY <1>2, <2>1, StepFacts DEF WorkSteps
  <2>3. Knows(p)'  BY <1>1, <2>1, <2>2 DEF Knows, At, Linked
  <2>4. Counts(meta', entries')
    <3>1. meta = Missing => meta' = Missing  BY <1>25 DEF WriteBall
    <3>2. work[p].ball \in Agents  BY <1>0, <2>1 DEF OpAt, GraphTypeOK, Works
    <3>3. meta # Missing => meta'.count = meta.count /\ meta' \in Metas
      BY <1>2, <1>25, <3>2 DEF WriteBall, Metas
    <3>4. Missing \notin Metas  BY DEF Metas
    <3>. QED  BY <1>1, <2>1, <3>1, <3>3, <3>4 DEF Counts
  <2>5. AcknowledgedWhole'  BY <1>1, <2>1 DEF AcknowledgedWhole, Whole
  <2>. QED  BY <1>1, <1>5, <2>1, <2>2, <2>3, <2>4, <2>5
<1>26. ASSUME Project(p)  PROVE GraphInv'
  <2>1. /\ Critical(p) /\ UNCHANGED <<lock, graph, acked>> /\ At(p, "project") /\ Step(p, "release")
    BY <1>26 DEF Project, Critical, At
  <2>2. /\ work'[p].step = "release" /\ work'[p].op = work[p].op /\ work'[p].entry = work[p].entry
        /\ \A q \in Writers : q # p => work'[q] = work[q]
    BY <1>2, <2>1, StepFacts DEF WorkSteps
  <2>3. \A e : Linked(e, entries, edges) => Shown(e)'
    <3>. SUFFICES ASSUME NEW e, Linked(e, entries, edges) PROVE Shown(e)'  OBVIOUS
    <3>1. PICK i \in 1..Len(entries) : entries[i].id = e  BY DEF Linked
    <3>2. entries # <<>>  BY <3>1, EmptySeq
    <3>3. meta # Missing  BY <1>1, <3>2 DEF Counts
    <3>4. md' = Projection  BY <1>26, <3>3 DEF Project
    <3>5. Ids(entries) \in Seq(Entries) /\ Len(Ids(entries)) = Len(entries) /\ Ids(entries)[i] = e
      BY <1>2, <3>1, IdsFacts
    <3>6. meta.ball \in Agents  BY <1>2, <3>3 DEF Metas
    <3>7. Projection # Missing  BY <3>5, <3>6 DEF Projection
    <3>8. md'.entries = Ids(entries)  BY <3>4 DEF Projection
    <3>. QED  BY <3>1, <3>4, <3>5, <3>7, <3>8 DEF Shown, Listed
  <2>4. Knows(p)'  BY <1>1, <2>1, <2>2, <2>3 DEF Knows, At, graph, Linked
  <2>5. AcknowledgedWhole'
    <3>1. \A e \in acked : Linked(e, entries, edges) /\ Shown(e)'
      BY <1>1, <2>3, WholeParts DEF AcknowledgedWhole
    <3>. QED  BY <2>1, <3>1 DEF AcknowledgedWhole, Whole, Linked, Shown, graph
  <2>. QED  BY <1>1, <1>5, <2>1, <2>2, <2>4, <2>5 DEF graph
<1>27. ASSUME WriteHeader(p)  PROVE GraphInv'
  <2>1. /\ Critical(p) /\ UNCHANGED <<lock, graph, acked>> /\ At(p, "header") /\ Step(p, "release")
        /\ work[p].op = "init"
    BY <1>0, <1>27 DEF WriteHeader, Critical, At, OpAt
  <2>2. /\ work'[p].step = "release" /\ work'[p].op = "init"
        /\ \A q \in Writers : q # p => work'[q] = work[q]
    BY <1>2, <2>1, StepFacts DEF WorkSteps
  <2>3. Knows(p)'  BY <2>2 DEF Knows, At, Appending
  <2>4. AcknowledgedWhole'  BY <1>1, <2>1 DEF AcknowledgedWhole, Knows
  <2>. QED  BY <1>1, <1>5, <2>1, <2>2, <2>3, <2>4 DEF graph
<1>28. ASSUME WriteFails(p)  PROVE GraphInv'
  <2>1. UNCHANGED <<lock, graph, md, acked>>  BY <1>28 DEF WriteFails
  <2>2. CASE /\ At(p, "ensure") /\ meta = Missing
             /\ Step(p, IF work[p].op = "init" THEN "header" ELSE "load")
    <3>1. PICK s \in {"header", "load"} : Step(p, s)  BY <2>2
    <3>2. acked = {}  BY <1>1, <1>17, <2>2 DEF Counts
    <3>. QED  BY <1>7, <2>1, <2>2, <3>1, <3>2 DEF WorkSteps, Critical, At
  <2>3. CASE At(p, "ball") /\ work[p].op # "set_ball" /\ Step(p, "project")
    BY <1>1, <1>7, <2>1, <2>3 DEF WorkSteps, Critical, At, Knows
  <2>4. CASE Raises(p) /\ work' = [work EXCEPT ![p].op = "failed", ![p].step = "release"]
    <3>1. /\ work'[p].step = "release" /\ work'[p].op = "failed"
          /\ \A q \in Writers : q # p => work'[q] = work[q]
      <4>. DEFINE failed == [work EXCEPT ![p].op = "failed"]
      <4>1. /\ failed[p].op = "failed" /\ \A q \in Writers : q # p => failed[q] = work[q]
            /\ failed \in [Writers -> Works]
        BY <1>2 DEF GraphTypeOK, Works, Ops
      <4>2. work' = [failed EXCEPT ![p].step = "release"]  BY <2>4
      <4>. HIDE DEF failed
      <4>. QED  BY <4>1, <4>2 DEF Works, WorkSteps
    <3>2. Critical(p)  BY <2>4 DEF Raises, Critical, At
    <3>3. Knows(p)'  BY <3>1 DEF Knows, At, Appending
    <3>. QED  BY <1>5, <1>6, <2>1, <3>1, <3>2, <3>3
  <2>. QED  BY <1>28, <2>2, <2>3, <2>4 DEF WriteFails
<1>. QED  BY <1>10, <1>11, <1>12, <1>13, <1>14, <1>15, <1>16, <1>18, <1>19, <1>20, <1>21, <1>22,
             <1>23, <1>24, <1>25, <1>26, <1>27, <1>28

LEMMA InitGraphInv == GraphInit => GraphInv
<1>. SUFFICES ASSUME GraphInit PROVE GraphInv  OBVIOUS
<1>1. Len(entries) = 0 /\ entries = <<>>  BY EmptySeq DEF GraphInit
<1>2. Indexed(entries)  BY <1>1 DEF Indexed
<1>3. Counts(meta, entries)  BY <1>1 DEF GraphInit, Counts
<1>4. LockInv /\ \A p \in Writers : Knows(p)
  BY DEF GraphInit, LockInv, Critical, Knows, At, AtRest
<1>5. AcknowledgedWhole  BY DEF GraphInit, AcknowledgedWhole
<1>. QED  BY <1>2, <1>3, <1>4, <1>5 DEF GraphInv

LEMMA GraphInvariant ==
  ASSUME ~Overstay
  PROVE  GraphSpec => []GraphInv
<1>1. TypeInv /\ TypeInv' /\ GraphInv /\ [GraphNext]_graphVars => GraphInv'
  <2>1. CASE UNCHANGED graphVars
    BY <2>1 DEF graphVars, graph, GraphInv, LockInv, Critical, Knows, At, AcknowledgedWhole, Whole,
                Linked, Shown
  <2>. QED  BY <2>1, GraphStep
<1>. QED  BY <1>1, InitGraphInv, TypeInvariant, PTL DEF GraphSpec

\* An entry whose append has returned is in all four files, whatever dies or fails later,
\* while no enrichment outlasts the appenders' ttl.
THEOREM AcknowledgedIsWhole ==
  ASSUME ~Overstay PROVE GraphSpec => []AcknowledgedWhole
<1>1. GraphInv => AcknowledgedWhole  BY DEF GraphInv
<1>. QED  BY <1>1, GraphInvariant, PTL

\* entry_count never falls behind entries.jsonl, nor runs ahead by more than one.
THEOREM CountIsCovered ==
  ASSUME ~Overstay PROVE GraphSpec => []CountCovers
<1>1. GraphInv => CountCovers  BY DEF GraphInv, Counts, CountCovers
<1>. QED  BY <1>1, GraphInvariant, PTL

\* No write drops, moves or renumbers an entry, and each adds at most one, at the end.
THEOREM EntriesAppendOnly ==
  ASSUME ~Overstay PROVE GraphSpec => AppendOnly
<1>. DEFINE Appends ==
       /\ Len(entries) <= Len(entries') /\ Len(entries') <= Len(entries) + 1
       /\ \A i \in 1..Len(entries) :
            /\ entries'[i].id = entries[i].id /\ entries'[i].index = entries[i].index
            /\ entries[i].summary => entries'[i].summary
       /\ \A i \in 1..Len(entries') : entries'[i].index = i - 1
<1>1. GraphInv /\ [GraphNext]_graphVars => [Appends]_entries
  <2>. SUFFICES ASSUME GraphInv, [GraphNext]_graphVars, entries' # entries PROVE Appends
    OBVIOUS
  <2>1. PICK p \in Writers : WriteEntries(p)
    BY DEF GraphNext, graphVars, graph, Ack, AppendEntry, SetBall, InitThread, Enrich, Acquire, Break,
           GiveUp, GiveBack, Ensure, LoadGraph, Think, WriteMeta, WriteEdges, CheckThread, WriteBall,
           Project, WriteHeader, WriteFails, WriterDies
  <2>2. entries' = work[p].read.entries /\ Continues(entries, work[p].read.entries)
    BY <2>1 DEF WriteEntries, GraphInv, Knows, At
  <2>. QED  BY <2>2 DEF Continues, Indexed
<1>. QED  BY <1>1, GraphInvariant, PTL DEF GraphSpec, AppendOnly
-----------------------------------------------------------------------------
(* The markdown                                                             *)

Current == md = IF meta = Missing THEN Missing ELSE Projection

SameIds(s, t) == Len(s) = Len(t) /\ \A i \in 1..Len(s) : s[i].id = t[i].id

\* While nothing has failed: an operation that has not changed what the markdown shows
\* finds it current, and one that has goes on to a projection of a thread that is there.
Projects(p) ==
    /\ work[p].step \in {"ensure", "check", "release"} => Current
    /\ work[p].op = "enrich" /\ work[p].step \in {"load", "think", "meta", "entries", "edges"} => Current
    /\ work[p].op = "enrich" /\ work[p].step \in {"think", "meta", "entries", "edges"} =>
         work[p].read.meta = meta /\ SameIds(entries, work[p].read.entries)
    /\ work[p].op \in Appending /\ work[p].step \in {"load", "entries", "edges"} => meta # Missing
    /\ work[p].op \in Appending /\ work[p].step \in {"meta", "entries"} => work[p].read.meta # Missing
    /\ work[p].step \in {"ball", "project"} => meta # Missing
    /\ At(p, "header") => meta # Missing /\ entries = <<>> /\ meta.ball = work[p].ball

MarkdownInv ==
    writeFaults = 0 =>
        /\ lock # NoWriter => Critical(lock)
        /\ lock = NoWriter => Current
        /\ \A p \in Writers : Projects(p)

LEMMA SameProjection ==
  ASSUME SameIds(entries, entries'), meta' = meta, md' = md, Current
  PROVE  Current'
<1>1. Ids(entries') = Ids(entries)  BY DEF Ids, SameIds
<1>2. Projection' = Projection  BY <1>1 DEF Projection
<1>. QED  BY <1>2 DEF Current

LEMMA MarkdownStep ==
  ASSUME ~Overstay, TypeInv, TypeInv', GraphInv, MarkdownInv, GraphNext
  PROVE  MarkdownInv'
<1>. SUFFICES ASSUME writeFaults' = 0, NEW p \in Writers,
                     \/ \E e \in Entries : Ack(p, e) \/ \E b \in Agents \cup {NoBall} : AppendEntry(p, e, b)
                     \/ \E b \in Agents : SetBall(p, b) \/ InitThread(p, b)
                     \/ \E i \in 1..Len(entries) : Enrich(p, i)
                     \/ Acquire(p) \/ Break(p) \/ GiveUp(p) \/ GiveBack(p)
                     \/ Ensure(p) \/ LoadGraph(p) \/ Think(p)
                     \/ WriteMeta(p) \/ WriteEntries(p) \/ WriteEdges(p)
                     \/ CheckThread(p) \/ WriteBall(p) \/ Project(p) \/ WriteHeader(p)
                     \/ WriteFails(p) \/ WriterDies(p)
              PROVE  MarkdownInv'
  BY DEF GraphNext, MarkdownInv
<1>0. GraphTypeOK /\ OpAt(p) /\ LockInv /\ Knows(p) /\ Indexed(entries) /\ Counts(meta, entries)
  BY DEF TypeInv, GraphInv
<1>1. /\ lock \in Writers \cup {NoWriter} /\ meta \in Metas \cup {Missing} /\ entries \in Seq(Nodes)
      /\ work[p].op \in Ops /\ work[p].step \in WorkSteps /\ used \subseteq Entries
      /\ writeFaults \in Nat
  BY <1>0 DEF GraphTypeOK, Works
<1>2. ~WriteFails(p) /\ ~WriterDies(p) /\ writeFaults = 0
  <2>1. ~Fault  BY <1>1 DEF Fault
  <2>2. ~WriteFails(p) /\ ~WriterDies(p)  BY <2>1 DEF WriteFails, WriterDies
  <2>. QED  BY <2>2 DEF Ack, AppendEntry, SetBall, InitThread, Enrich, Acquire, Break,
              GiveUp, GiveBack, Ensure, LoadGraph, Think, WriteMeta, WriteEntries, WriteEdges,
              CheckThread, WriteBall, Project, WriteHeader
<1>3. /\ lock # NoWriter => Critical(lock)
      /\ lock = NoWriter => Current
      /\ \A q \in Writers : Projects(q)
  BY <1>2 DEF MarkdownInv
<1>4. ASSUME Critical(p)  PROVE lock = p /\ \A q \in Writers : q # p => ~Critical(q)
  BY <1>0, <1>4 DEF LockInv
\* A step of the holder of the lock.
<1>5. ASSUME Critical(p), lock' = lock, \A q \in Writers : q # p => work'[q] = work[q],
             Critical(p)', Projects(p)'
      PROVE  MarkdownInv'
  <2>1. lock = p /\ \A q \in Writers : q # p => ~Critical(q)  BY <1>4, <1>5
  <2>2. \A q \in Writers : q # p => Projects(q)'  BY <1>5, <2>1 DEF Projects, Critical, At
  <2>3. lock' = p /\ p # NoWriter  BY <1>5, <2>1
  <2>. QED  BY <1>5, <2>2, <2>3 DEF MarkdownInv
\* One of somebody who has not the lock.
<1>6. ASSUME UNCHANGED <<lock, graph, md>>, \A q \in Writers : q # p => work'[q] = work[q],
             ~Critical(p), work'[p].step \in {"idle", "acquire"}
      PROVE  MarkdownInv'
  <2>1. Projects(p)'  BY <1>6 DEF Projects, At
  <2>2. \A q \in Writers : q # p => Projects(q)'
    BY <1>3, <1>6 DEF Projects, At, graph, Current, Projection
  <2>3. lock # p  BY <1>3, <1>6
  <2>4. lock' # NoWriter => Critical(lock)'  BY <1>1, <1>3, <1>6, <2>3 DEF Critical
  <2>5. lock' = NoWriter => Current'  BY <1>3, <1>6 DEF Current, Projection, graph
  <2>. QED  BY <2>1, <2>2, <2>4, <2>5 DEF MarkdownInv
<1>7. ASSUME NEW e \in Entries \cup {NoEntry}, NEW op \in Ops, NEW b \in Agents \cup {NoBall},
             Ask(p, op, e, b), UNCHANGED <<lock, graph, md>>
      PROVE  MarkdownInv'
  <2>1. ~Critical(p)  BY <1>7 DEF Ask, At, Critical
  <2>. QED  BY <1>0, <1>6, <1>7, <2>1, AskFacts
<1>8. ASSUME \E e \in Entries : Ack(p, e) \/ \E b \in Agents \cup {NoBall} : AppendEntry(p, e, b)
      PROVE  MarkdownInv'
  <2>1. (IF meta = Missing THEN NoBall ELSE meta.ball) \in Agents \cup {NoBall}
    BY <1>1 DEF Metas
  <2>. QED  BY <1>7, <1>8, <2>1 DEF Ack, AppendEntry, Ops
<1>9. ASSUME \E b \in Agents : SetBall(p, b) \/ InitThread(p, b)  PROVE MarkdownInv'
  BY <1>7, <1>9 DEF SetBall, InitThread, Ops
<1>10. ASSUME NEW i \in 1..Len(entries), Enrich(p, i)  PROVE MarkdownInv'
  <2>1. entries[i] \in Nodes  BY <1>1, ElementOfSeq
  <2>2. entries[i].id \in Entries  BY <2>1 DEF Nodes
  <2>. QED  BY <1>7, <1>10, <2>2 DEF Enrich, Ops
<1>11. ASSUME Acquire(p)  PROVE MarkdownInv'
  <2>1. lock = NoWriter /\ lock' = p /\ UNCHANGED <<graph, md>>  BY <1>11 DEF Acquire
  <2>2. \A q \in Writers : ~Critical(q)  BY <1>0, <2>1 DEF LockInv
  <2>3. PICK s \in {"ensure", "check", "load"} :
          Step(p, s) /\ (s = "load" => work[p].op = "enrich")
    BY <1>0, <1>11 DEF Acquire, OpAt, Appending
  <2>4. /\ work'[p].step = s /\ work'[p].op = work[p].op
        /\ \A q \in Writers : q # p => work'[q] = work[q]
    BY <1>0, <2>3, StepFacts DEF WorkSteps
  <2>5. Current'  BY <1>3, <2>1 DEF Current, Projection, graph
  <2>6. Projects(p)' /\ Critical(p)'  BY <2>3, <2>4, <2>5 DEF Projects, At, Critical, Appending
  <2>7. \A q \in Writers : q # p => Projects(q)'  BY <2>2, <2>4 DEF Projects, Critical, At
  <2>. QED  BY <2>1, <2>6, <2>7 DEF MarkdownInv
<1>12. ASSUME Break(p)  PROVE MarkdownInv'
  BY <1>3, <1>12 DEF Break
<1>13. ASSUME GiveUp(p)  PROVE MarkdownInv'
  <2>1. ~Critical(p) /\ UNCHANGED <<lock, graph, md>> /\ work' = [work EXCEPT ![p] = AtRest]
    BY <1>13 DEF GiveUp, Critical, At
  <2>. QED  BY <1>0, <1>6, <2>1, RestFacts
<1>14. ASSUME GiveBack(p)  PROVE MarkdownInv'
  <2>1. Critical(p) /\ lock' = NoWriter /\ UNCHANGED <<graph, md>> /\ Current
    BY <1>3, <1>14 DEF GiveBack, Critical, At, Projects
  <2>2. work'[p].step = "idle" /\ \A q \in Writers : q # p => work'[q] = work[q]
    BY <1>0, <1>14, RestFacts DEF GiveBack
  <2>3. \A q \in Writers : Projects(q)'  BY <1>4, <2>1, <2>2 DEF Projects, Critical, At
  <2>. QED  BY <2>1, <2>3 DEF MarkdownInv, Current, Projection, graph
<1>15. Projects(p)  BY <1>3
<1>16. ASSUME Ensure(p)  PROVE MarkdownInv'
  <2>1. /\ Critical(p) /\ UNCHANGED <<lock, entries, edges, md>>
        /\ work[p].op \in Appending \cup {"init"} /\ Current
        /\ meta # Missing => meta' = meta
    BY <1>0, <1>15, <1>16 DEF Ensure, Critical, At, OpAt, Projects
  <2>2. PICK s \in {"load", "header", "release"} :
            /\ Step(p, s)
            /\ s # "load" => work[p].op = "init"
            /\ s = "load" => work[p].op # "init"
            /\ s = "header" <=> (s # "load" /\ md = Missing)
    BY <1>16 DEF Ensure
  <2>3. /\ work'[p].step = s /\ work'[p].op = work[p].op /\ work'[p].ball = work[p].ball
        /\ \A q \in Writers : q # p => work'[q] = work[q]
    BY <1>0, <2>2, StepFacts DEF WorkSteps
  <2>4. meta # Missing => Projection # Missing
    <3>. SUFFICES ASSUME meta # Missing PROVE Projection # Missing  OBVIOUS
    <3>1. meta.ball \in Agents  BY <1>1 DEF Metas
    <3>. QED  BY <1>0, <3>1, IdsFacts DEF Projection
  <2>5. meta' # Missing  BY <1>0, <1>16, <2>1 DEF Ensure, OpAt
  <2>6. CASE s = "load"
    BY <1>5, <2>1, <2>2, <2>3, <2>5, <2>6 DEF Projects, At, Appending, Critical
  <2>7. CASE s = "header"
    <3>1. meta = Missing  BY <2>1, <2>2, <2>4, <2>7 DEF Current
    <3>2. entries' = <<>>  BY <1>0, <2>1, <3>1 DEF Counts
    <3>3. meta'.ball = work[p].ball  BY <1>16, <2>2, <2>7, <3>1 DEF Ensure
    <3>4. Projects(p)'  BY <2>2, <2>3, <2>5, <2>7, <3>2, <3>3 DEF Projects, At, Appending
    <3>. QED  BY <1>5, <2>1, <2>3, <2>7, <3>4 DEF Critical
  <2>8. CASE s = "release"
    <3>1. meta # Missing  BY <2>1, <2>2, <2>8 DEF Current
    <3>2. Current'  BY <2>1, <3>1 DEF Current, Projection
    <3>3. Projects(p)'  BY <2>2, <2>3, <2>8, <3>2 DEF Projects, At, Appending
    <3>. QED  BY <1>5, <2>1, <2>3, <2>8, <3>3 DEF Critical
  <2>. QED  BY <2>6, <2>7, <2>8
<1>17. ASSUME LoadGraph(p)  PROVE MarkdownInv'
  <2>1. /\ Critical(p) /\ UNCHANGED <<lock, graph, md>> /\ At(p, "load")
        /\ work[p].op \in Appending \cup {"enrich"}
    BY <1>0, <1>17 DEF LoadGraph, Critical, At, OpAt
  <2>0. Current' <=> Current  BY <2>1 DEF Current, Projection, graph
  <2>2. ASSUME NEW r \in Snapshots, NEW s \in {"meta", "think"},
               work' = [work EXCEPT ![p].read = r, ![p].step = s],
               work[p].op = "enrich" => r.meta = meta /\ SameIds(entries, r.entries),
               work[p].op \in Appending => r.meta # Missing
        PROVE  MarkdownInv'
    <3>1. /\ work'[p].step = s /\ work'[p].op = work[p].op /\ work'[p].read = r
          /\ \A q \in Writers : q # p => work'[q] = work[q]
      <4>. DEFINE loaded == [work EXCEPT ![p].read = r]
      <4>1. /\ loaded[p].read = r /\ loaded[p].op = work[p].op
            /\ \A q \in Writers : q # p => loaded[q] = work[q]
            /\ loaded \in [Writers -> Works]
        BY <1>0 DEF GraphTypeOK, Works
      <4>2. work' = [loaded EXCEPT ![p].step = s]  BY <2>2
      <4>. HIDE DEF loaded
      <4>. QED  BY <4>1, <4>2 DEF Works
    <3>2. Projects(p)'
      BY <1>15, <2>0, <2>1, <2>2, <3>1 DEF Projects, At, graph, SameIds
    <3>. QED  BY <1>5, <2>1, <3>1, <3>2 DEF Critical
  <2>3. CASE work[p].op # "enrich"
    <3>1. work[p].entry \in Entries  BY <1>0, <1>1, <2>1, <2>3 DEF OpAt
    <3>2. work' = [work EXCEPT ![p].read = WithEntry(work[p].entry), ![p].step = "meta"]
      BY <1>17, <2>3 DEF LoadGraph
    <3>3. WithEntry(work[p].entry) \in Snapshots /\ WithEntry(work[p].entry).meta # Missing
      BY <1>0, <3>1, WithEntryFacts
    <3>. QED  BY <2>2, <2>3, <3>2, <3>3
  <2>4. CASE work[p].op = "enrich" /\ Listed(work[p].entry, Ids(entries))
    <3>1. work' = [work EXCEPT ![p].read = WithSummary(work[p].entry), ![p].step = "think"]
      BY <1>17, <2>4 DEF LoadGraph
    <3>2. /\ WithSummary(work[p].entry) \in Snapshots /\ WithSummary(work[p].entry).meta = meta
          /\ SameIds(entries, WithSummary(work[p].entry).entries)
      BY <1>0, WithSummaryFacts DEF SameIds
    <3>3. work[p].op \notin Appending  BY <2>4 DEF Appending
    <3>. QED  BY <2>2, <3>1, <3>2, <3>3
  <2>5. CASE work[p].op = "enrich" /\ ~Listed(work[p].entry, Ids(entries))
    <3>1. Step(p, "release")  BY <1>17, <2>5 DEF LoadGraph
    <3>2. /\ work'[p].step = "release" /\ work'[p].op = "enrich"
          /\ \A q \in Writers : q # p => work'[q] = work[q]
      BY <1>0, <2>5, <3>1, StepFacts DEF WorkSteps
    <3>3. Projects(p)'  BY <1>15, <2>0, <2>1, <2>5, <3>2 DEF Projects, At, Appending
    <3>. QED  BY <1>5, <2>1, <3>2, <3>3 DEF Critical
  <2>. QED  BY <2>3, <2>4, <2>5
<1>18. ASSUME Think(p)  PROVE MarkdownInv'
  <2>1. /\ Critical(p) /\ UNCHANGED <<lock, graph, md>> /\ At(p, "think") /\ work[p].op = "enrich"
        /\ Step(p, "meta")
    BY <1>0, <1>18 DEF Think, Critical, At, OpAt
  <2>2. /\ work'[p].step = "meta" /\ work'[p].op = "enrich" /\ work'[p].read = work[p].read
        /\ \A q \in Writers : q # p => work'[q] = work[q]
    BY <1>0, <2>1, StepFacts DEF WorkSteps
  <2>3. Current' <=> Current  BY <2>1 DEF Current, Projection, graph
  <2>4. Projects(p)'  BY <1>15, <2>1, <2>2, <2>3 DEF Projects, At, Appending, graph, SameIds
  <2>. QED  BY <1>5, <2>1, <2>2, <2>4 DEF Critical
<1>19. ASSUME WriteMeta(p)  PROVE MarkdownInv'
  <2>1. /\ Critical(p) /\ UNCHANGED <<lock, entries, edges, md>> /\ At(p, "meta")
        /\ work[p].op \in Appending \cup {"enrich"}
        /\ meta' = work[p].read.meta /\ Step(p, "entries")
    BY <1>0, <1>19 DEF WriteMeta, Critical, At, OpAt
  <2>2. /\ work'[p].step = "entries" /\ work'[p].op = work[p].op /\ work'[p].read = work[p].read
        /\ \A q \in Writers : q # p => work'[q] = work[q]
    BY <1>0, <2>1, StepFacts DEF WorkSteps
  <2>3. work[p].op = "enrich" => meta' = meta /\ Current'
    BY <1>15, <2>1 DEF Projects, At, Current, Projection
  <2>4. Projects(p)'  BY <1>15, <2>1, <2>2, <2>3 DEF Projects, At, Appending, SameIds
  <2>. QED  BY <1>5, <2>1, <2>2, <2>4 DEF Critical
<1>20. ASSUME WriteEntries(p)  PROVE MarkdownInv'
  <2>1. /\ Critical(p) /\ UNCHANGED <<lock, meta, edges, md>> /\ At(p, "entries")
        /\ work[p].op \in Appending \cup {"enrich"}
        /\ entries' = work[p].read.entries /\ Step(p, "edges")
    BY <1>0, <1>20 DEF WriteEntries, Critical, At, OpAt
  <2>2. /\ work'[p].step = "edges" /\ work'[p].op = work[p].op /\ work'[p].read = work[p].read
        /\ \A q \in Writers : q # p => work'[q] = work[q]
    BY <1>0, <2>1, StepFacts DEF WorkSteps
  <2>3. work[p].op = "enrich" => SameIds(entries, entries') /\ Current
    BY <1>15, <2>1 DEF Projects, At
  <2>4. work[p].op = "enrich" => Current'  BY <2>1, <2>3, SameProjection
  <2>5. SameIds(entries, work[p].read.entries)' <=> TRUE  BY <2>1, <2>2 DEF SameIds
  <2>6. Projects(p)'  BY <1>15, <2>1, <2>2, <2>4, <2>5 DEF Projects, At, Appending
  <2>. QED  BY <1>5, <2>1, <2>2, <2>6 DEF Critical
<1>21. ASSUME WriteEdges(p)  PROVE MarkdownInv'
  <2>1. /\ Critical(p) /\ UNCHANGED <<lock, meta, entries, md>> /\ At(p, "edges")
        /\ work[p].op \in Appending \cup {"enrich"}
    BY <1>0, <1>21 DEF WriteEdges, Critical, At, OpAt
  <2>2. PICK s \in {"release", "project", "ball"} :
          Step(p, s) /\ (s = "release" <=> work[p].op = "enrich")
    BY <1>21 DEF WriteEdges
  <2>3. /\ work'[p].step = s /\ work'[p].op = work[p].op
        /\ \A q \in Writers : q # p => work'[q] = work[q]
    BY <1>0, <2>2, StepFacts DEF WorkSteps
  <2>4. Current' <=> Current  BY <2>1 DEF Current, Projection
  <2>5. Projects(p)'  BY <1>15, <2>1, <2>2, <2>3, <2>4 DEF Projects, At, Appending
  <2>. QED  BY <1>5, <2>1, <2>3, <2>5 DEF Critical
<1>22. ASSUME CheckThread(p)  PROVE MarkdownInv'
  <2>1. Critical(p) /\ UNCHANGED <<lock, graph, md>> /\ At(p, "check") /\ work[p].op = "set_ball"
    BY <1>0, <1>22 DEF CheckThread, Critical, At, OpAt
  <2>2. PICK s \in {"release", "ball"} : Step(p, s) /\ (s = "ball" => meta # Missing)
    BY <1>22 DEF CheckThread
  <2>3. /\ work'[p].step = s /\ work'[p].op = "set_ball"
        /\ \A q \in Writers : q # p => work'[q] = work[q]
    BY <1>0, <2>1, <2>2, StepFacts DEF WorkSteps
  <2>4. Current' <=> Current  BY <2>1 DEF Current, Projection, graph
  <2>5. Projects(p)'  BY <1>15, <2>1, <2>2, <2>3, <2>4 DEF Projects, At, Appending, graph
  <2>. QED  BY <1>5, <2>1, <2>3, <2>5 DEF Critical
<1>23. ASSUME WriteBall(p)  PROVE MarkdownInv'
  <2>1. /\ Critical(p) /\ UNCHANGED <<lock, entries, edges, md>> /\ At(p, "ball")
        /\ Step(p, "project") /\ meta # Missing
    BY <1>15, <1>23 DEF WriteBall, Critical, At, Projects
  <2>2. /\ work'[p].step = "project"
        /\ \A q \in Writers : q # p => work'[q] = work[q]
    BY <1>0, <2>1, StepFacts DEF WorkSteps
  <2>3. work[p].ball \in Agents  BY <1>0, <2>1 DEF OpAt, GraphTypeOK, Works
  <2>4. meta' # Missing  BY <1>1, <1>23, <2>1, <2>3 DEF WriteBall, Metas
  <2>5. Projects(p)'  BY <2>2, <2>4 DEF Projects, At
  <2>. QED  BY <1>5, <2>1, <2>2, <2>5 DEF Critical
<1>24. ASSUME Project(p)  PROVE MarkdownInv'
  <2>1. /\ Critical(p) /\ UNCHANGED <<lock, graph>> /\ At(p, "project") /\ Step(p, "release")
        /\ meta # Missing /\ md' = Projection
    BY <1>15, <1>24 DEF Project, Critical, At, Projects
  <2>2. /\ work'[p].step = "release"
        /\ \A q \in Writers : q # p => work'[q] = work[q]
    BY <1>0, <2>1, StepFacts DEF WorkSteps
  <2>3. Current'  BY <2>1 DEF Current, Projection, graph
  <2>4. Projects(p)'  BY <2>2, <2>3 DEF Projects, At
  <2>. QED  BY <1>5, <2>1, <2>2, <2>4 DEF Critical
<1>25. ASSUME WriteHeader(p)  PROVE MarkdownInv'
  <2>1. /\ Critical(p) /\ UNCHANGED <<lock, graph>> /\ At(p, "header") /\ Step(p, "release")
        /\ md' = [entries |-> <<>>, ball |-> work[p].ball]
        /\ meta # Missing /\ entries = <<>> /\ meta.ball = work[p].ball
    BY <1>15, <1>25 DEF WriteHeader, Critical, At, Projects
  <2>2. /\ work'[p].step = "release"
        /\ \A q \in Writers : q # p => work'[q] = work[q]
    BY <1>0, <2>1, StepFacts DEF WorkSteps
  <2>3. Ids(entries) = <<>>
    <3>1. Len(Ids(entries)) = Len(entries) /\ Ids(entries) \in Seq(Entries)  BY <1>0, IdsFacts
    <3>2. Len(entries) = 0  BY <2>1, EmptySeq
    <3>. QED  BY <3>1, <3>2, EmptySeq
  <2>4. Current'  BY <2>1, <2>3 DEF Current, Projection, graph
  <2>5. Projects(p)'  BY <2>2, <2>4 DEF Projects, At
  <2>. QED  BY <1>5, <2>1, <2>2, <2>5 DEF Critical
<1>. QED  BY <1>2, <1>8, <1>9, <1>10, <1>11, <1>12, <1>13, <1>14, <1>16, <1>17, <1>18, <1>19, <1>20,
             <1>21, <1>22, <1>23, <1>24, <1>25

\* While nothing has failed and no enrichment outlasts the appenders' ttl, the markdown is
\* the projection of the graph whenever nobody has the lock.
THEOREM MarkdownIsCurrent ==
  ASSUME ~Overstay PROVE GraphSpec => []MarkdownCurrent
<1>1. GraphInit => MarkdownInv
  BY DEF GraphInit, MarkdownInv, Current, Projects, At, AtRest
<1>2. TypeInv /\ TypeInv' /\ GraphInv /\ MarkdownInv /\ [GraphNext]_graphVars => MarkdownInv'
  <2>1. CASE UNCHANGED graphVars
    BY <2>1 DEF graphVars, graph, MarkdownInv, Critical, Projects, At, Current, Projection, SameIds
  <2>. QED  BY <2>1, MarkdownStep
<1>3. MarkdownInv => MarkdownCurrent  BY DEF MarkdownInv, MarkdownCurrent, Current
<1>. QED  BY <1>1, <1>2, <1>3, TypeInvariant, GraphInvariant, PTL DEF GraphSpec
-----------------------------------------------------------------------------
(* The lock: the store implements Mutex.                                    *)

LEMMA MutexStep ==
  ASSUME ~Overstay, TypeInv, GraphInv, GraphInv', [GraphNext]_graphVars
  PROVE  [TopicLock!Next]_AtWork
<1>1. /\ AtWork = {} \/ (lock \in Writers /\ AtWork = {lock})
      /\ AtWork' = {} \/ (lock' \in Writers /\ AtWork' = {lock'})
  BY DEF GraphInv, LockInv, AtWork
<1>2. CASE lock' = lock
  BY <1>1, <1>2 DEF TopicLock!Next, TopicLock!Enter, TopicLock!Leave
<1>3. CASE lock = NoWriter
  BY <1>1, <1>3 DEF TopicLock!Next, TopicLock!Enter
<1>4. CASE lock' = NoWriter
  BY <1>1, <1>4 DEF TopicLock!Next, TopicLock!Leave
<1>5. lock' = lock \/ lock = NoWriter \/ lock' = NoWriter
  BY DEF GraphNext, graphVars, Ack, AppendEntry, SetBall, InitThread, Enrich, Acquire, Break,
     GiveUp, GiveBack, Ensure, LoadGraph, Think, WriteMeta, WriteEntries, WriteEdges, CheckThread,
     WriteBall, Project, WriteHeader, WriteFails, WriterDies
<1>. QED  BY <1>2, <1>3, <1>4, <1>5

\* Those who operate on a topic do so one at a time, however they fail or die with the lock
\* and however often it is broken behind the dead, while no enrichment outlasts the ttl.
THEOREM WritersExclude ==
  ASSUME ~Overstay PROVE GraphSpec => TopicLockSpec
<1>1. GraphInit => TopicLock!Init
  BY DEF GraphInit, TopicLock!Init, AtWork, Critical, AtRest
<1>. QED  BY <1>1, MutexStep, TypeInvariant, GraphInvariant, PTL
          DEF GraphSpec, TopicLockSpec, TopicLock!Spec
-----------------------------------------------------------------------------
(* The log: the store implements EntryLog.                                  *)

Present(e, s) == \E i \in 1..Len(s) : s[i].id = e

\* t is s with e at its end, but for summaries.
AddsTo(s, t, e) ==
    /\ Len(t) = Len(s) + 1
    /\ \A i \in 1..Len(s) : t[i].id = s[i].id
    /\ t[Len(s) + 1].id = e

\* What p is about to write has its own entry in addition, which is not there yet.
Brings(p) ==
    /\ /\ work[p].op \in Appending
       /\ work[p].step \in {"acquire", "ensure", "load", "meta", "entries"}
       => ~Present(work[p].entry, entries)
    /\ work[p].op \in Appending /\ work[p].step \in {"meta", "entries"} =>
         AddsTo(entries, work[p].read.entries, work[p].entry)
    /\ work[p].op = "enrich" /\ work[p].step \in {"think", "meta", "entries"} =>
         SameIds(entries, work[p].read.entries)

\* Every entry has been given to an operation, and to one only.
LogInv ==
    /\ \A p \in Writers : Brings(p)
    /\ \A p, q \in Writers :
         p # q /\ work[p].op \in Appending /\ work[q].op \in Appending =>
            work[p].entry # work[q].entry
    /\ \A i \in 1..Len(entries) : entries[i].id \in used

LEMMA LogStep ==
  ASSUME ~Overstay, TypeInv, TypeInv', GraphInv, LogInv, GraphNext
  PROVE  LogInv'
<1>. SUFFICES ASSUME NEW p \in Writers,
                     \/ \E e \in Entries : Ack(p, e) \/ \E b \in Agents \cup {NoBall} : AppendEntry(p, e, b)
                     \/ \E b \in Agents : SetBall(p, b) \/ InitThread(p, b)
                     \/ \E i \in 1..Len(entries) : Enrich(p, i)
                     \/ Acquire(p) \/ Break(p) \/ GiveUp(p) \/ GiveBack(p)
                     \/ Ensure(p) \/ LoadGraph(p) \/ Think(p)
                     \/ WriteMeta(p) \/ WriteEntries(p) \/ WriteEdges(p)
                     \/ CheckThread(p) \/ WriteBall(p) \/ Project(p) \/ WriteHeader(p)
                     \/ WriteFails(p) \/ WriterDies(p)
              PROVE  LogInv'
  BY DEF GraphNext
<1>0. /\ GraphTypeOK /\ OpAt(p) /\ LockInv /\ Brings(p)
      /\ \A q \in Writers : work[q].op \in Appending => work[q].entry \in used
  BY DEF TypeInv, OpAt, GraphInv, LogInv
\* A step that leaves entries.jsonl and the others alone.
<1>1. ASSUME UNCHANGED entries, used \subseteq used', \A q \in Writers : q # p => work'[q] = work[q],
             Brings(p)',
             work'[p].op \in Appending =>
                \/ work[p].op \in Appending /\ work'[p].entry = work[p].entry
                \/ work'[p].entry \notin used
      PROVE  LogInv'
  <2>1. \A q \in Writers : Brings(q)'  BY <1>1 DEF LogInv, Brings, SameIds
  <2>2. ASSUME NEW q \in Writers, q # p,
               work'[p].op \in Appending, work'[q].op \in Appending
        PROVE  work'[p].entry # work'[q].entry
    BY <1>0, <1>1, <2>2 DEF LogInv
  <2>3. ASSUME NEW q \in Writers, NEW r \in Writers, q # r,
               work'[q].op \in Appending, work'[r].op \in Appending
        PROVE  work'[q].entry # work'[r].entry
    BY <1>1, <2>2, <2>3 DEF LogInv
  <2>4. \A i \in 1..Len(entries') : entries'[i].id \in used'  BY <1>1 DEF LogInv
  <2>. QED  BY <2>1, <2>3, <2>4 DEF LogInv
\* A call begins.
<1>2. ASSUME NEW e \in Entries \cup {NoEntry}, NEW op \in Ops, NEW b \in Agents \cup {NoBall},
             Ask(p, op, e, b), UNCHANGED entries, used \subseteq used',
             op \in Appending => e \notin used
      PROVE  LogInv'
  <2>1. /\ work'[p].step = "acquire" /\ work'[p].op = op /\ work'[p].entry = e
        /\ \A q \in Writers : q # p => work'[q] = work[q]
    BY <1>0, <1>2, AskFacts
  <2>2. op \in Appending => ~Present(e, entries)  BY <1>2 DEF LogInv, Present
  <2>3. Brings(p)'  BY <1>2, <2>1, <2>2 DEF Brings, Present
  <2>. QED  BY <1>1, <1>2, <2>1, <2>3
<1>3. ASSUME NEW e \in Entries, Ack(p, e)  PROVE LogInv'
  <2>1. (IF meta = Missing THEN NoBall ELSE meta.ball) \in Agents \cup {NoBall}
    BY <1>0 DEF GraphTypeOK, Metas
  <2>. QED  BY <1>2, <1>3, <2>1 DEF Ack, Ops, graph
<1>4. ASSUME NEW e \in Entries, NEW b \in Agents \cup {NoBall}, AppendEntry(p, e, b)  PROVE LogInv'
  BY <1>2, <1>4 DEF AppendEntry, Ops, graph
<1>5. ASSUME NEW b \in Agents, SetBall(p, b) \/ InitThread(p, b)  PROVE LogInv'
  BY <1>2, <1>5 DEF SetBall, InitThread, Ops, Appending, graph
<1>6. ASSUME NEW i \in 1..Len(entries), Enrich(p, i)  PROVE LogInv'
  <2>1. entries[i] \in Nodes  BY <1>0, ElementOfSeq DEF GraphTypeOK
  <2>2. entries[i].id \in Entries  BY <2>1 DEF Nodes
  <2>. QED  BY <1>2, <1>6, <2>2 DEF Enrich, Ops, Appending, graph
\* p moves on with what it has read.
<1>7. ASSUME NEW s \in WorkSteps, Step(p, s), UNCHANGED <<entries, used>>,
             s \in {"acquire", "ensure", "load", "meta", "entries"} =>
                work[p].step \in {"acquire", "ensure", "load", "meta", "entries"}
                \/ work[p].op = "enrich",
             s \in {"meta", "entries"} =>
                work[p].step \in {"meta", "entries"} \/ (At(p, "think") /\ work[p].op = "enrich"),
             s # "think"
      PROVE  LogInv'
  <2>1. /\ work'[p].step = s /\ work'[p].op = work[p].op /\ work'[p].entry = work[p].entry
        /\ work'[p].read = work[p].read
        /\ \A q \in Writers : q # p => work'[q] = work[q]
    BY <1>0, <1>7, StepFacts
  <2>2. Brings(p)'  BY <1>0, <1>7, <2>1 DEF Brings, Present, AddsTo, SameIds, At, Appending
  <2>. QED  BY <1>1, <1>7, <2>1, <2>2
<1>8. ASSUME Acquire(p) \/ Ensure(p) \/ Think(p) \/ WriteMeta(p) \/ WriteEdges(p) \/ CheckThread(p)
             \/ WriteBall(p) \/ Project(p) \/ WriteHeader(p)
      PROVE  LogInv'
  <2>1. PICK s \in WorkSteps \ {"think"} :
          /\ Step(p, s)
          /\ s \in {"acquire", "ensure", "load", "meta", "entries"} =>
                work[p].step \in {"acquire", "ensure", "load", "meta", "entries"} \/ work[p].op = "enrich"
          /\ s \in {"meta", "entries"} =>
                work[p].step \in {"meta", "entries"} \/ (At(p, "think") /\ work[p].op = "enrich")
    <3>1. CASE Acquire(p)  BY <1>0, <3>1 DEF Acquire, OpAt, At, Appending, WorkSteps
    <3>2. CASE Ensure(p)  BY <3>2 DEF Ensure, At, WorkSteps
    <3>3. CASE Think(p)  BY <1>0, <3>3 DEF Think, OpAt, At, WorkSteps
    <3>4. CASE WriteMeta(p)
      <4>1. Step(p, "entries") /\ work[p].step = "meta"  BY <3>4 DEF WriteMeta, At
      <4>2. "entries" \in WorkSteps \ {"think"}  BY DEF WorkSteps
      <4>. WITNESS "entries" \in WorkSteps \ {"think"}
      <4>. QED  BY <4>1
    <3>6. CASE WriteEdges(p)
      <4>1. PICK s \in {"release", "project", "ball"} : Step(p, s)  BY <3>6 DEF WriteEdges
      <4>. QED  BY <4>1 DEF WorkSteps
    <3>5. CASE CheckThread(p) \/ WriteBall(p) \/ Project(p) \/ WriteHeader(p)
      BY <3>5 DEF CheckThread, WriteBall, Project, WriteHeader, At, WorkSteps
    <3>. QED  BY <1>8, <3>1, <3>2, <3>3, <3>4, <3>5, <3>6
  <2>2. UNCHANGED <<entries, used>>
    BY <1>8 DEF Acquire, Ensure, Think, WriteMeta, WriteEdges, CheckThread, WriteBall, Project,
       WriteHeader, graph
  <2>. QED  BY <1>7, <2>1, <2>2
<1>9. ASSUME work' = [work EXCEPT ![p] = AtRest], UNCHANGED <<entries, used>>  PROVE LogInv'
  <2>1. /\ work'[p].step = "idle" /\ work'[p].op = "none"
        /\ \A q \in Writers : q # p => work'[q] = work[q]
    BY <1>0, <1>9, RestFacts
  <2>2. Brings(p)'  BY <2>1 DEF Brings, Appending
  <2>. QED  BY <1>1, <1>9, <2>1, <2>2 DEF Appending
<1>10. ASSUME GiveUp(p) \/ GiveBack(p) \/ WriterDies(p)  PROVE LogInv'
  BY <1>9, <1>10 DEF GiveUp, GiveBack, WriterDies, graph
<1>11. ASSUME Break(p)  PROVE LogInv'
  BY <1>11 DEF Break, LogInv, Brings, Present, AddsTo, SameIds, graph
<1>12. ASSUME LoadGraph(p)  PROVE LogInv'
  <2>1. /\ At(p, "load") /\ UNCHANGED <<entries, used>>
        /\ work[p].op \in Appending \cup {"enrich"}
    BY <1>0, <1>12 DEF LoadGraph, OpAt, At, graph
  <2>2. ASSUME NEW r \in Snapshots, NEW s \in {"meta", "think"},
               work' = [work EXCEPT ![p].read = r, ![p].step = s],
               work[p].op \in Appending => AddsTo(entries, r.entries, work[p].entry),
               work[p].op = "enrich" => SameIds(entries, r.entries)
        PROVE  LogInv'
    <3>1. /\ work'[p].step = s /\ work'[p].op = work[p].op /\ work'[p].read = r
          /\ work'[p].entry = work[p].entry
          /\ \A q \in Writers : q # p => work'[q] = work[q]
      <4>. DEFINE loaded == [work EXCEPT ![p].read = r]
      <4>1. /\ loaded[p].read = r /\ loaded[p].op = work[p].op /\ loaded[p].entry = work[p].entry
            /\ \A q \in Writers : q # p => loaded[q] = work[q]
            /\ loaded \in [Writers -> Works]
        BY <1>0 DEF GraphTypeOK, Works
      <4>2. work' = [loaded EXCEPT ![p].step = s]  BY <2>2
      <4>. HIDE DEF loaded
      <4>. QED  BY <4>1, <4>2 DEF Works
    <3>2. /\ Present(work'[p].entry, entries') <=> Present(work[p].entry, entries)
          /\ AddsTo(entries', r.entries, work'[p].entry)
                <=> AddsTo(entries, r.entries, work[p].entry)
          /\ SameIds(entries', r.entries) <=> SameIds(entries, r.entries)
      BY <2>1, <3>1
    <3>4. work[p].op \in Appending => ~Present(work[p].entry, entries)
      BY <1>0, <2>1 DEF Brings, At
    <3>5. Brings(p)'  BY <2>2, <3>1, <3>2, <3>4 DEF Brings
    <3>. QED  BY <1>1, <2>1, <3>1, <3>5
  <2>3. CASE work[p].op # "enrich"
    <3>1. work[p].entry \in Entries  BY <1>0, <2>1, <2>3 DEF OpAt, GraphTypeOK
    <3>2. work' = [work EXCEPT ![p].read = WithEntry(work[p].entry), ![p].step = "meta"]
      BY <1>12, <2>3 DEF LoadGraph
    <3>3. WithEntry(work[p].entry) \in Snapshots
          /\ AddsTo(entries, WithEntry(work[p].entry).entries, work[p].entry)
      <4>. DEFINE e == work[p].entry
                  t == WithEntry(e).entries
      <4>1. /\ WithEntry(e) \in Snapshots /\ Len(t) = Len(entries) + 1
            /\ \A i \in 1..Len(entries) : t[i] = entries[i]
            /\ t[Len(entries) + 1] = [id |-> e, index |-> NextIndex, summary |-> FALSE]
        BY <1>0, <3>1, WithEntryFacts
      <4>2. t[Len(entries) + 1].id = e  BY <4>1
      <4>. HIDE DEF t
      <4>3. AddsTo(entries, t, e)  BY <4>1, <4>2 DEF AddsTo
      <4>. QED  BY <4>1, <4>3 DEF t
    <3>. QED  BY <2>2, <2>3, <3>2, <3>3
  <2>4. CASE work[p].op = "enrich" /\ Listed(work[p].entry, Ids(entries))
    <3>1. work' = [work EXCEPT ![p].read = WithSummary(work[p].entry), ![p].step = "think"]
      BY <1>12, <2>4 DEF LoadGraph
    <3>2. /\ WithSummary(work[p].entry) \in Snapshots
          /\ SameIds(entries, WithSummary(work[p].entry).entries)
      BY <1>0, WithSummaryFacts DEF SameIds
    <3>. QED  BY <2>2, <2>4, <3>1, <3>2 DEF Appending
  <2>5. CASE work[p].op = "enrich" /\ ~Listed(work[p].entry, Ids(entries))
    <3>1. Step(p, "release")  BY <1>12, <2>5 DEF LoadGraph
    <3>. QED  BY <1>7, <2>1, <3>1 DEF WorkSteps
  <2>. QED  BY <2>3, <2>4, <2>5
<1>13. ASSUME WriteFails(p)  PROVE LogInv'
  <2>1. UNCHANGED <<entries, used>>  BY <1>13 DEF WriteFails, graph
  <2>2. CASE At(p, "ensure") /\ \E s \in {"header", "load"} : Step(p, s)
    BY <1>7, <2>1, <2>2 DEF At, WorkSteps
  <2>3. CASE Step(p, "project")
    BY <1>7, <2>1, <2>3 DEF WorkSteps
  <2>4. CASE work' = [work EXCEPT ![p].op = "failed", ![p].step = "release"]
    <3>1. /\ work'[p].step = "release" /\ work'[p].op = "failed"
          /\ \A q \in Writers : q # p => work'[q] = work[q]
      <4>. DEFINE failed == [work EXCEPT ![p].op = "failed"]
      <4>1. /\ failed[p].op = "failed" /\ \A q \in Writers : q # p => failed[q] = work[q]
            /\ failed \in [Writers -> Works]
        BY <1>0 DEF GraphTypeOK, Works, Ops
      <4>2. work' = [failed EXCEPT ![p].step = "release"]  BY <2>4
      <4>. HIDE DEF failed
      <4>. QED  BY <4>1, <4>2 DEF Works, WorkSteps
    <3>2. Brings(p)'  BY <3>1 DEF Brings, Appending
    <3>. QED  BY <1>1, <2>1, <3>1, <3>2 DEF Appending
  <2>. QED  BY <1>13, <2>2, <2>3, <2>4 DEF WriteFails
\* The rename of entries.jsonl: nobody else has read anything.
<1>14. ASSUME WriteEntries(p)  PROVE LogInv'
  <2>1. /\ Critical(p) /\ At(p, "entries") /\ entries' = work[p].read.entries /\ Step(p, "edges")
        /\ UNCHANGED used /\ work[p].op \in Appending \cup {"enrich"}
    BY <1>0, <1>14 DEF WriteEntries, Critical, At, OpAt
  <2>2. /\ work'[p].step = "edges" /\ work'[p].op = work[p].op /\ work'[p].entry = work[p].entry
        /\ \A q \in Writers : q # p => work'[q] = work[q]
    BY <1>0, <2>1, StepFacts DEF WorkSteps
  <2>3. \A q \in Writers : q # p => ~Critical(q)  BY <1>0, <2>1 DEF LockInv
  <2>4. \/ work[p].op \in Appending /\ AddsTo(entries, entries', work[p].entry)
        \/ SameIds(entries, entries')
    BY <1>0, <2>1 DEF Brings, At
  <2>5. ASSUME NEW e, Present(e, entries')
        PROVE  Present(e, entries) \/ (work[p].op \in Appending /\ e = work[p].entry)
    <3>1. Len(entries) \in Nat  BY <1>0, LenProperties DEF GraphTypeOK
    <3>. QED  BY <2>4, <2>5, <3>1 DEF Present, AddsTo, SameIds
  <2>6. ASSUME NEW q \in Writers, q # p  PROVE Brings(q)'
    BY <2>2, <2>3, <2>5, <2>6 DEF LogInv, Brings, Critical
  <2>7. Brings(p)'  BY <2>2 DEF Brings
  <2>8. \A i \in 1..Len(entries') : entries'[i].id \in used'
    <3>1. ASSUME NEW e, Present(e, entries) PROVE e \in used  BY <3>1 DEF Present, LogInv
    <3>. QED  BY <1>0, <2>1, <2>5, <3>1 DEF Present
  <2>9. \A q, r \in Writers :
          q # r /\ work'[q].op \in Appending /\ work'[r].op \in Appending =>
            work'[q].entry # work'[r].entry
    BY <2>2 DEF LogInv
  <2>. QED  BY <2>6, <2>7, <2>8, <2>9 DEF LogInv
<1>. QED  BY <1>3, <1>4, <1>5, <1>6, <1>8, <1>10, <1>11, <1>12, <1>13, <1>14

\* The rename that adds an entry is Add, the return of its append is Confirm.
LEMMA LogStepImplements ==
  ASSUME TypeInv, TypeInv', GraphInv, LogInv, [GraphNext]_graphVars
  PROVE  [Log!Next]_<<Ids(entries), acked>>
<1>0. GraphTypeOK /\ GraphTypeOK'  BY DEF TypeInv
<1>1. CASE UNCHANGED <<entries, acked>>  BY <1>1
<1>2. ASSUME NEW p \in Writers, WriteEntries(p)  PROVE [Log!Next]_<<Ids(entries), acked>>
  <2>1. /\ At(p, "entries") /\ entries' = work[p].read.entries /\ acked' = acked
        /\ work[p].op \in Appending \cup {"enrich"} /\ Brings(p) /\ OpAt(p)
    BY <1>2 DEF WriteEntries, At, TypeInv, OpAt, LogInv
  <2>2. /\ Ids(entries) \in Seq(Entries) /\ Len(Ids(entries)) = Len(entries)
        /\ \A i \in 1..Len(entries) : Ids(entries)[i] = entries[i].id
    BY <1>0, IdsFacts
  <2>3. /\ Ids(entries') \in Seq(Entries) /\ Len(Ids(entries')) = Len(entries')
        /\ \A i \in 1..Len(entries') : Ids(entries')[i] = entries'[i].id
    BY <1>0, IdsOf DEF GraphTypeOK
  <2>4. CASE work[p].op = "enrich"
    <3>1. SameIds(entries, entries')  BY <2>1, <2>4 DEF Brings, At
    <3>2. Ids(entries') = Ids(entries)  BY <3>1 DEF Ids, SameIds
    <3>. QED  BY <2>1, <3>2
  <2>5. CASE work[p].op \in Appending
    <3>. DEFINE e == work[p].entry
    <3>1. AddsTo(entries, entries', e) /\ ~Present(e, entries)  BY <2>1, <2>5 DEF Brings, At
    <3>2. e \in Entries  BY <1>0, <2>1, <2>5 DEF OpAt, GraphTypeOK
    <3>. HIDE DEF e
    <3>3. ~Log!In(e)  BY <2>2, <3>1 DEF Log!In, Present
    <3>4. /\ Append(Ids(entries), e) \in Seq(Entries)
          /\ Len(Append(Ids(entries), e)) = Len(entries) + 1
          /\ \A i \in 1..Len(entries) : Append(Ids(entries), e)[i] = entries[i].id
          /\ Append(Ids(entries), e)[Len(entries) + 1] = e
      BY <2>2, <3>2, AppendProperties
    <3>5. Len(entries) \in Nat  BY <2>2, LenProperties
    <3>6. \A i \in 1..(Len(entries) + 1) : Ids(entries')[i] = Append(Ids(entries), e)[i]
      <4>1. ASSUME NEW i \in 1..(Len(entries) + 1), i # Len(entries) + 1
            PROVE  i \in 1..Len(entries)
        BY <3>5, <4>1
      <4>. QED  BY <2>3, <3>1, <3>4, <4>1 DEF AddsTo
    <3>7. Ids(entries') = Append(Ids(entries), e)
      BY <2>3, <3>1, <3>4, <3>6, SeqEqual DEF AddsTo
    <3>. QED  BY <2>1, <3>2, <3>3, <3>7 DEF Log!Next, Log!Add
  <2>. QED  BY <2>1, <2>4, <2>5
<1>3. ASSUME NEW p \in Writers, GiveBack(p)  PROVE [Log!Next]_<<Ids(entries), acked>>
  <2>1. entries' = entries  BY <1>3 DEF GiveBack, graph
  <2>2. CASE work[p].op \in Appending
    <3>. DEFINE e == work[p].entry
    <3>1. acked' = acked \cup {e}  BY <1>3, <2>2 DEF GiveBack, Appending
    <3>2. e \in Entries  BY <1>0, <2>2 DEF TypeInv, OpAt, GraphTypeOK
    <3>3. Linked(e, entries, edges)  BY <1>3, <2>2 DEF GiveBack, GraphInv, Knows, At
    <3>. HIDE DEF e
    <3>4. Log!In(e)  BY <1>0, <3>3, IdsFacts DEF Log!In, Linked
    <3>. QED  BY <2>1, <3>1, <3>2, <3>4 DEF Log!Next, Log!Confirm
  <2>3. CASE work[p].op \notin Appending
    BY <1>3, <2>1, <2>3 DEF GiveBack, Appending
  <2>. QED  BY <2>2, <2>3
<1>4. UNCHANGED <<entries, acked>> \/ \E p \in Writers : WriteEntries(p) \/ GiveBack(p)
  BY DEF GraphNext, graphVars, graph, Ack, AppendEntry, SetBall, InitThread, Enrich, Acquire, Break,
     GiveUp, Ensure, LoadGraph, Think, WriteMeta, WriteEdges, CheckThread, WriteBall, Project,
     WriteHeader, WriteFails, WriterDies
<1>. QED  BY <1>1, <1>2, <1>3, <1>4

\* The thread is a log of its entries: every append that is not failed or killed adds its
\* entry in one step, once and at the end, before it returns, and no enrichment, no torn
\* write and no retry takes out, repeats or reorders one (writer.py, storage.py).
THEOREM ImplementsEntryLog ==
  ASSUME ~Overstay PROVE GraphSpec => LogSpec
<1>1. GraphInit => LogInv
  <2>. SUFFICES ASSUME GraphInit PROVE LogInv  OBVIOUS
  <2>1. Len(entries) = 0  BY EmptySeq DEF GraphInit
  <2>2. \A p \in Writers : work[p].op = "none"  BY DEF GraphInit, AtRest
  <2>. QED  BY <2>1, <2>2 DEF LogInv, Brings, Appending
<1>2. TypeInv /\ TypeInv' /\ GraphInv /\ LogInv /\ [GraphNext]_graphVars => LogInv'
  <2>1. CASE UNCHANGED graphVars
    BY <2>1 DEF graphVars, graph, LogInv, Brings, Present, AddsTo, SameIds
  <2>. QED  BY <2>1, LogStep
<1>3. GraphInit => Log!Init
  <2>. SUFFICES ASSUME GraphInit PROVE Log!Init  OBVIOUS
  <2>1. entries = <<>> /\ Len(entries) = 0 /\ acked = {}  BY EmptySeq DEF GraphInit
  <2>2. Ids(entries) = [i \in 1..0 |-> entries[i].id]  BY <2>1 DEF Ids
  <2>3. Ids(entries) = <<>>  BY <2>2
  <2>. QED  BY <2>1, <2>3 DEF Log!Init
<1>. QED  BY <1>1, <1>2, <1>3, LogStepImplements, TypeInvariant, GraphInvariant, PTL
          DEF GraphSpec, LogSpec, Log!Spec
=============================================================================
