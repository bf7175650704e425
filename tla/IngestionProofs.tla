--------------------------- MODULE IngestionProofs ---------------------------
(***************************************************************************)
(* Proofs about Ingestion, in three layers: types, with a fact before every *)
(* request that is at work (Typed); what a request's locals say of the      *)
(* stores (Recorded), from which the promises of a supersession follow; and *)
(* what a request knows of the vectors it has looked at and of those it has *)
(* not (Compared, Unseen), from which it follows that it writes no          *)
(* duplicate.                                                               *)
(***************************************************************************)
EXTENDS Ingestion, SequenceTheorems, TLAPS

AtFact == {"look", "judge", "write", "embed", "link", "note", "tell"}
Linking == {"link", "note", "tell"}

(* The locals that a phase works with are there. *)
Equipped(i) ==
  /\ phase[i] \in AtFact => todo[i] # <<>>
  /\ phase[i] \in {"embed"} \cup Linking => fresh[i] \in MemoryIds
  /\ phase[i] \in {"judge"} \cup Linking => target[i] \in MemoryIds

Typed == IngestionTypeOK /\ \A i \in Ingests : Equipped(i)

-----------------------------------------------------------------------------
LEMMA TypedInit == IngestionInit => Typed
BY IngestionAssumption
DEF IngestionInit, Typed, Equipped, IngestionTypeOK, Underway, Modes, AtFact, Linking

(* What becomes of a request when its current fact is dealt with. *)
LEMMA AdvanceEffect ==
  ASSUME Typed, NEW i \in Ingests, phase[i] \in AtFact, Advance(i)
  PROVE  /\ phase' = [phase EXCEPT ![i] = phase'[i]]
         /\ phase'[i] \in {"done", "look", "write"}
         /\ phase'[i] = "write" => mode[i] # "infer"
         /\ phase'[i] # "done" => todo'[i] # <<>>
         /\ todo' = [todo EXCEPT ![i] = todo'[i]]
         /\ todo'[i] \in Seq(Facts)
         /\ target' = [target EXCEPT ![i] = Nothing]
         /\ fresh' = [fresh EXCEPT ![i] = Nothing]
         /\ mode' = mode
<1>1. todo[i] \in Seq(Facts) /\ todo[i] # <<>>
  BY DEF Typed, Equipped, IngestionTypeOK
<1>2. Tail(todo[i]) \in Seq(Facts) /\ Len(Tail(todo[i])) = Len(todo[i]) - 1 /\ Len(todo[i]) \in Nat
  BY <1>1, HeadTailProperties, LenProperties
<1>3. Len(todo[i]) # 1 => Tail(todo[i]) # <<>>
  <2>1. Tail(todo[i]) = <<>> => Len(Tail(todo[i])) = 0
    BY EmptySeq, Zenon
  <2> QED
    BY <1>2, <2>1
<1> QED
  BY <1>2, <1>3 DEF Advance, Go, Typed, IngestionTypeOK

LEMMA AdvanceTyped ==
  ASSUME Typed, NEW i \in Ingests, phase[i] \in AtFact, Advance(i)
  PROVE  /\ phase' \in [Ingests -> Underway \cup {"idle", "done", "failed"}]
         /\ mode' \in [Ingests -> Modes]
         /\ todo' \in [Ingests -> Seq(Facts)]
         /\ target' \in [Ingests -> MemoryIds \cup {Nothing}]
         /\ fresh' \in [Ingests -> MemoryIds \cup {Nothing}]
         /\ \A j \in Ingests : Equipped(j)'
<1>1. /\ phase \in [Ingests -> Underway \cup {"idle", "done", "failed"}]
      /\ todo \in [Ingests -> Seq(Facts)]
      /\ mode \in [Ingests -> Modes]
      /\ target \in [Ingests -> MemoryIds \cup {Nothing}]
      /\ fresh \in [Ingests -> MemoryIds \cup {Nothing}]
      /\ \A j \in Ingests : Equipped(j)
  BY DEF Typed, IngestionTypeOK
<1>2. phase'[i] \in Underway \cup {"done"}
  BY AdvanceEffect DEF Underway
<1>3. \A j \in Ingests : Equipped(j)'
  <2> TAKE j \in Ingests
  <2>1. CASE j = i
    BY <1>1, <2>1, AdvanceEffect DEF Equipped, AtFact, Linking
  <2>2. CASE j # i
    <3>1. Equipped(j) /\ phase'[j] = phase[j] /\ todo'[j] = todo[j]
          /\ target'[j] = target[j] /\ fresh'[j] = fresh[j]
      BY <1>1, <2>2, AdvanceEffect
    <3> QED
      BY <3>1 DEF Equipped
  <2> QED
    BY <2>1, <2>2
<1>4. /\ phase' = [phase EXCEPT ![i] = phase'[i]]
      /\ todo' = [todo EXCEPT ![i] = todo'[i]] /\ todo'[i] \in Seq(Facts)
      /\ target' = [target EXCEPT ![i] = Nothing]
      /\ fresh' = [fresh EXCEPT ![i] = Nothing]
      /\ mode' = mode
  BY AdvanceEffect
<1>5. phase' \in [Ingests -> Underway \cup {"idle", "done", "failed"}]
  BY <1>1, <1>2, <1>4
<1>6. todo' \in [Ingests -> Seq(Facts)]
  BY <1>1, <1>4
<1>7. target' \in [Ingests -> MemoryIds \cup {Nothing}]
      /\ fresh' \in [Ingests -> MemoryIds \cup {Nothing}]
  BY <1>1, <1>4
<1> QED
  BY <1>1, <1>3, <1>4, <1>5, <1>6, <1>7

LEMMA HeadIsFact ==
  ASSUME Typed, NEW i \in Ingests, phase[i] \in AtFact
  PROVE  Head(todo[i]) \in Facts
<1>1. todo[i] \in Seq(Facts) /\ todo[i] # <<>>
  BY DEF Typed, Equipped, IngestionTypeOK
<1> QED
  BY <1>1, HeadTailProperties

(* Looking, judging and telling may end with a fact; so may embedding. *)
LEMMA TypedNext == Typed /\ [IngestionNext]_ingestionVars => Typed'
<1> SUFFICES ASSUME Typed, [IngestionNext]_ingestionVars PROVE Typed'
  OBVIOUS
<1> USE IngestionAssumption DEF stores, record, history, request, Equipped, Linking
<1>1. ASSUME NEW i \in Ingests, Infer(i) PROVE Typed'
  BY <1>1 DEF Infer, BeginIngest, Go, Typed, IngestionTypeOK, Underway, Modes, AtFact
<1>2. ASSUME NEW i \in Ingests, NEW facts \in Batches, Verbatim(i, facts) PROVE Typed'
  BY <1>2 DEF Verbatim, BeginIngest, Go, Typed, IngestionTypeOK, Underway, Modes, AtFact
<1>3. ASSUME NEW i \in Ingests, NEW m \in MemoryIds, NEW f \in Facts, Replace(i, m, f)
      PROVE  Typed'
  <2>1. <<f>> \in Seq(Facts) /\ <<f>> # <<>>
    OBVIOUS
  <2> QED
    BY <1>3, <2>1
    DEF Replace, BeginIngest, Go, Typed, IngestionTypeOK, Underway, Modes, AtFact
<1>4. ASSUME NEW i \in Ingests, NEW facts \in Batches, Extract(i, facts) PROVE Typed'
  BY <1>4 DEF Extract, Go, Typed, IngestionTypeOK, Underway, AtFact
<1>5. ASSUME NEW i \in Ingests, Look(i) PROVE Typed'
  <2>1. phase[i] = "look" /\ phase[i] \in AtFact
    BY <1>5 DEF Look, AtFact
  <2>2. CASE Go(i, "write") /\ UNCHANGED <<mode, todo, target, fresh, skips>>
    BY <1>5, <2>1, <2>2 DEF Look, Go, Typed, IngestionTypeOK, Underway, AtFact
  <2>3. ASSUME NEW m \in Nearest(i), Skip(i, m) PROVE Typed'
    <3>1. m \in MemoryIds
      BY DEF Nearest, Typed, IngestionTypeOK
    <3>2. skips' \subseteq Facts \X MemoryIds
      BY <2>1, <2>3, <3>1, HeadIsFact DEF Skip, Typed, IngestionTypeOK
    <3>3. Advance(i)
      BY <2>3 DEF Skip
    <3> HIDE DEF Equipped, Linking
    <3> QED
      BY <1>5, <2>1, <3>2, <3>3, AdvanceTyped DEF Look, Typed, IngestionTypeOK
  <2>4. ASSUME NEW m \in Nearest(i), Go(i, "judge"), target' = [target EXCEPT ![i] = m],
               UNCHANGED <<mode, todo, fresh, skips>>
        PROVE  Typed'
    <3>1. m \in MemoryIds
      BY DEF Nearest, Typed, IngestionTypeOK
    <3> QED
      BY <1>5, <2>1, <2>4, <3>1 DEF Look, Go, Typed, IngestionTypeOK, Underway, AtFact
  <2> QED
    BY <1>5, <2>2, <2>3, <2>4 DEF Look
<1>6. ASSUME NEW i \in Ingests, Judge(i) PROVE Typed'
  <2>1. phase[i] = "judge" /\ phase[i] \in AtFact
    BY <1>6 DEF Judge, AtFact
  <2>2. CASE Go(i, "write") /\ target' = [target EXCEPT ![i] = Nothing]
             /\ UNCHANGED <<mode, todo, fresh, skips>>
    BY <1>6, <2>1, <2>2 DEF Judge, Go, Typed, IngestionTypeOK, Underway, AtFact
  <2>3. CASE Go(i, "write") /\ UNCHANGED <<mode, todo, target, fresh, skips>>
    BY <1>6, <2>1, <2>3 DEF Judge, Go, Typed, IngestionTypeOK, Underway, AtFact
  <2>4. CASE target[i] \in Live /\ Skip(i, target[i])
    <3>1. skips' \subseteq Facts \X MemoryIds
      BY <2>1, <2>4, HeadIsFact DEF Skip, Live, Typed, IngestionTypeOK
    <3>2. Advance(i)
      BY <2>4 DEF Skip
    <3> HIDE DEF Equipped, Linking
    <3> QED
      BY <1>6, <2>1, <3>1, <3>2, AdvanceTyped DEF Judge, Typed, IngestionTypeOK
  <2> QED
    BY <1>6, <2>2, <2>3, <2>4 DEF Judge
<1>7. ASSUME NEW i \in Ingests, Write(i) PROVE Typed'
  <2>1. phase[i] = "write" /\ phase[i] \in AtFact
    BY <1>7 DEF Write, AtFact
  <2>2. Head(todo[i]) \in Facts
    BY <2>1, HeadIsFact
  <2> QED
    BY <1>7, <2>1, <2>2 DEF Write, Go, Typed, IngestionTypeOK, Underway, AtFact
<1>8. ASSUME NEW i \in Ingests, Embed(i) PROVE Typed'
  <2>1. phase[i] = "embed" /\ phase[i] \in AtFact
    BY <1>8 DEF Embed, AtFact
  <2>2. index' \subseteq MemoryIds
    BY <1>8, <2>1 DEF Embed, Typed, IngestionTypeOK
  <2>3. CASE Advance(i)
    BY <1>8, <2>1, <2>2, <2>3, AdvanceTyped DEF Embed, Typed, IngestionTypeOK
  <2>4. CASE target[i] # Nothing /\ Go(i, "link") /\ UNCHANGED <<mode, todo, target, fresh>>
    BY <1>8, <2>1, <2>2, <2>4 DEF Embed, Go, Typed, IngestionTypeOK, Underway, AtFact
  <2> QED
    BY <1>8, <2>3, <2>4 DEF Embed
<1>9. ASSUME NEW i \in Ingests, Link(i) PROVE Typed'
  <2>1. <<target[i], fresh[i]>> \in MemoryIds \X MemoryIds
    BY <1>9 DEF Link, Typed
  <2> QED
    BY <1>9, <2>1 DEF Link, Go, Typed, IngestionTypeOK, Underway, AtFact
<1>10. ASSUME NEW i \in Ingests, Note(i) PROVE Typed'
  <2>1. <<target[i], fresh[i]>> \in MemoryIds \X MemoryIds
    BY <1>10 DEF Note, Typed
  <2> QED
    BY <1>10, <2>1 DEF Note, Go, Typed, IngestionTypeOK, Underway, AtFact
<1>11. ASSUME NEW i \in Ingests, Tell(i) PROVE Typed'
  <2>1. phase[i] \in AtFact /\ <<target[i], fresh[i]>> \in MemoryIds \X MemoryIds
    BY <1>11 DEF Tell, Typed, AtFact
  <2> QED
    BY <1>11, <2>1, AdvanceTyped DEF Tell, Typed, IngestionTypeOK
<1>12. ASSUME NEW i \in Ingests, Cut(i) PROVE Typed'
  <2>1. index' \subseteq MemoryIds /\ links' \subseteq MemoryIds \X MemoryIds
    BY <1>12 DEF Cut, Typed, IngestionTypeOK
  <2>2. fresh[i] \in MemoryIds \cup {Nothing}
    BY DEF Typed, IngestionTypeOK
  <2> QED
    BY <1>12, <2>1, <2>2 DEF Cut, Go, Typed, IngestionTypeOK, Underway, AtFact
<1>13. ASSUME NEW i \in Ingests, Retry(i) PROVE Typed'
  BY <1>13 DEF Retry, Go, Typed, IngestionTypeOK, Underway, AtFact
<1>14. ASSUME NEW m \in MemoryIds, Forget(m) \/ Unindex(m) PROVE Typed'
  <2>1. row' \in [MemoryIds -> {"free", "live", "gone"}] /\ index' \subseteq MemoryIds
        /\ removing' \subseteq MemoryIds
    BY <1>14 DEF Forget, Unindex, Typed, IngestionTypeOK
  <2> QED
    BY <1>14, <2>1 DEF Forget, Unindex, Typed, IngestionTypeOK
<1>15. CASE UNCHANGED ingestionVars
  BY <1>15 DEF ingestionVars, Typed, IngestionTypeOK
<1> QED
  BY <1>1, <1>2, <1>3, <1>4, <1>5, <1>6, <1>7, <1>8, <1>9, <1>10, <1>11, <1>12, <1>13,
     <1>14, <1>15 DEF IngestionNext

-----------------------------------------------------------------------------
(* What a request at work on a memory knows of it. *)
Made(i) ==
  /\ row[fresh[i]] # "free" /\ author[fresh[i]] = i /\ aim[fresh[i]] = target[i]
  /\ fresh[i] # target[i]

Informed(i) ==
  /\ target[i] # Nothing => row[target[i]] # "free"
  /\ phase[i] \in {"embed"} \cup Linking => Made(i)
  /\ phase[i] \in Linking /\ row[fresh[i]] = "live" => fresh[i] \in index
  /\ phase[i] \in {"note", "tell"} => <<target[i], fresh[i]>> \in links

(* Vectors are of rows that were committed, and go after their rows. *)
Sound ==
  /\ \A m \in index : row[m] # "free"
  /\ \A m \in removing : row[m] = "gone"

Succeeds(l) == l[1] # l[2] /\ row[l[2]] # "free" /\ (row[l[2]] = "live" => l[2] \in index)

Settled(m) ==
  aim[m] # Nothing =>
    \/ <<aim[m], m>> \in links
    \/ <<author[m], m>> \in cuts
    \/ fresh[author[m]] = m /\ phase[author[m]] \in {"embed", "link"}

Recorded ==
  /\ \A i \in Ingests : Informed(i)
  /\ Sound
  /\ \A l \in links : Succeeds(l)
  /\ noted \cup reported \subseteq links
  /\ \A m \in MemoryIds : aim[m] # Nothing => author[m] \in Ingests
  /\ \A m \in MemoryIds : Settled(m)

LEMMA RecordedInit == IngestionInit => Recorded
BY DEF IngestionInit, Recorded, Informed, Made, Sound, Succeeds, Settled, Linking

(* A fact dealt with leaves its memory to others. *)
LEMMA AdvanceKeepsRecorded ==
  ASSUME Typed, Recorded, NEW i \in Ingests, phase[i] \in AtFact, Advance(i),
         phase[i] \in {"embed", "link"} => target[i] = Nothing,
         UNCHANGED <<row, removing, links, noted, author, aim, cuts>>,
         index \subseteq index', \A m \in index' : row[m] # "free",
         reported' \subseteq links
  PROVE  Recorded'
<1> USE DEF Recorded
<1>1. \A j \in Ingests : Informed(j)'
  <2> TAKE j \in Ingests
  <2>1. CASE j = i
    <3>1. target'[i] = Nothing /\ phase'[i] \in {"done", "look", "write"}
      BY AdvanceEffect DEF Typed, IngestionTypeOK
    <3> QED
      BY <2>1, <3>1 DEF Informed, Linking
  <2>2. CASE j # i
    <3>1. phase'[j] = phase[j] /\ target'[j] = target[j] /\ fresh'[j] = fresh[j]
      BY <2>2, AdvanceEffect DEF Typed, IngestionTypeOK
    <3> QED
      BY <3>1 DEF Informed, Made
  <2> QED
    BY <2>1, <2>2
<1>2. Sound' /\ \A l \in links' : Succeeds(l)'
  BY DEF Sound, Succeeds
<1>3. (noted \cup reported)' \subseteq links'
  OBVIOUS
<1>4. \A m \in MemoryIds : Settled(m)'
  <2> SUFFICES ASSUME NEW m \in MemoryIds, aim[m] # Nothing PROVE Settled(m)'
    BY DEF Settled
  <2>1. author[m] \in Ingests /\ Settled(m)
    OBVIOUS
  <2>2. CASE author[m] = i
    <3>1. ~(fresh[i] = m /\ phase[i] \in {"embed", "link"})
      BY <2>2 DEF Informed, Made, Linking
    <3> QED
      BY <2>1, <2>2, <3>1 DEF Settled
  <2>3. CASE author[m] # i
    <3>1. phase'[author[m]] = phase[author[m]] /\ fresh'[author[m]] = fresh[author[m]]
      BY <2>1, <2>3, AdvanceEffect DEF Typed, IngestionTypeOK
    <3> QED
      BY <2>1, <3>1 DEF Settled
  <2> QED
    BY <2>2, <2>3
<1> QED
  BY <1>1, <1>2, <1>3, <1>4

(* Steps of a request that write to no store. *)
LEMMA ThinkingKeepsRecorded ==
  ASSUME Typed, Recorded, NEW i \in Ingests,
         \/ Infer(i) \/ (\E facts \in Batches : Verbatim(i, facts) \/ Extract(i, facts))
         \/ \E m \in MemoryIds, f \in Facts : Replace(i, m, f)
         \/ Look(i) \/ Judge(i) \/ Retry(i)
  PROVE  Recorded'
<1> USE IngestionAssumption DEF stores, record, history, request
<1>1. CASE Infer(i) \/ (\E facts \in Batches : Verbatim(i, facts) \/ Extract(i, facts))
  <2>1. /\ phase[i] \in {"idle", "extract"}
        /\ phase'[i] \in {"extract", "write", "done", "look"}
        /\ \A j \in Ingests \ {i} : phase'[j] = phase[j]
        /\ UNCHANGED <<row, index, removing, links, noted, reported, target, fresh, author,
                       aim, cuts>>
    BY <1>1 DEF Infer, Verbatim, Extract, BeginIngest, Go, Typed, IngestionTypeOK
  <2> QED
    BY <2>1 DEF Recorded, Informed, Made, Sound, Succeeds, Settled, Linking
<1>2. CASE \E m \in MemoryIds, f \in Facts : Replace(i, m, f)
  <2>1. PICK m \in MemoryIds, f \in Facts : Replace(i, m, f)
    BY <1>2
  <2>2. /\ phase[i] = "idle" /\ phase'[i] = "write" /\ target'[i] = m /\ row[m] # "free"
        /\ \A j \in Ingests \ {i} : phase'[j] = phase[j] /\ target'[j] = target[j]
        /\ UNCHANGED <<row, index, removing, links, noted, reported, fresh, author, aim, cuts>>
    BY <2>1 DEF Replace, BeginIngest, Go, Live, Typed, IngestionTypeOK
  <2> QED
    BY <2>2 DEF Recorded, Informed, Made, Sound, Succeeds, Settled, Linking
<1>3. CASE Retry(i)
  <2>1. /\ phase[i] = "failed" /\ phase'[i] = "extract" /\ target'[i] = Nothing
        /\ \A j \in Ingests \ {i} :
             phase'[j] = phase[j] /\ target'[j] = target[j] /\ fresh'[j] = fresh[j]
        /\ UNCHANGED <<row, index, removing, links, noted, reported, author, aim, cuts>>
    BY <1>3 DEF Retry, Go, Typed, IngestionTypeOK
  <2> QED
    BY <2>1 DEF Recorded, Informed, Made, Sound, Succeeds, Settled, Linking
<1>4. ASSUME phase[i] \in {"look", "judge"}, phase'[i] \in {"write", "judge"},
             phase' = [phase EXCEPT ![i] = phase'[i]],
             target' = [target EXCEPT ![i] = target'[i]],
             target'[i] # Nothing => row[target'[i]] # "free",
             UNCHANGED <<row, index, removing, links, noted, reported, fresh, author, aim, cuts>>
      PROVE  Recorded'
  <2>1. \A j \in Ingests \ {i} : phase'[j] = phase[j] /\ target'[j] = target[j]
    BY <1>4 DEF Typed, IngestionTypeOK
  <2> QED
    BY <1>4, <2>1 DEF Recorded, Informed, Made, Sound, Succeeds, Settled, Linking
<1>5. ASSUME phase[i] \in {"look", "judge"}, Advance(i),
             UNCHANGED <<row, index, removing, links, noted, reported, author, aim, cuts>>
      PROVE  Recorded'
  <2>1. /\ phase[i] \in AtFact
        /\ \A m \in index' : row[m] # "free"
        /\ reported' \subseteq links
    BY <1>5 DEF AtFact, Recorded, Sound
  <2> QED
    BY <1>5, <2>1, AdvanceKeepsRecorded
<1>6. CASE Look(i)
  <2>1. CASE Go(i, "write") /\ UNCHANGED <<mode, todo, target, fresh, skips>>
    BY <1>4, <1>6, <2>1 DEF Look, Go, Recorded, Informed, Typed, IngestionTypeOK
  <2>2. ASSUME NEW m \in Nearest(i), Skip(i, m) PROVE Recorded'
    BY <1>5, <1>6, <2>2 DEF Look, Skip
  <2>3. ASSUME NEW m \in Nearest(i), Go(i, "judge"), target' = [target EXCEPT ![i] = m],
               UNCHANGED <<mode, todo, fresh, skips>>
        PROVE  Recorded'
    <3>1. m \in MemoryIds /\ row[m] # "free"
      BY DEF Nearest, Recorded, Sound, Typed, IngestionTypeOK
    <3> QED
      BY <1>4, <1>6, <2>3, <3>1 DEF Look, Go, Typed, IngestionTypeOK
  <2> QED
    BY <1>6, <2>1, <2>2, <2>3 DEF Look
<1>7. CASE Judge(i)
  <2>1. CASE Go(i, "write") /\ target' = [target EXCEPT ![i] = Nothing]
             /\ UNCHANGED <<mode, todo, fresh, skips>>
    BY <1>4, <1>7, <2>1 DEF Judge, Go, Typed, IngestionTypeOK
  <2>2. CASE Go(i, "write") /\ UNCHANGED <<mode, todo, target, fresh, skips>>
    BY <1>4, <1>7, <2>2 DEF Judge, Go, Recorded, Informed, Typed, IngestionTypeOK
  <2>3. CASE Skip(i, target[i])
    BY <1>5, <1>7, <2>3 DEF Judge, Skip
  <2> QED
    BY <1>7, <2>1, <2>2, <2>3 DEF Judge
<1> QED
  BY <1>1, <1>2, <1>3, <1>6, <1>7

(* Steps that write. *)
LEMMA WritingKeepsRecorded ==
  ASSUME Typed, Recorded, NEW i \in Ingests,
         Write(i) \/ Embed(i) \/ Link(i) \/ Note(i) \/ Tell(i) \/ Cut(i)
  PROVE  Recorded'
<1> USE IngestionAssumption DEF stores, record, history, request
<1>1. CASE Write(i)
  <2>1. PICK m \in MemoryIds :
          /\ row[m] = "free"
          /\ row' = [row EXCEPT ![m] = "live"]
          /\ fresh' = [fresh EXCEPT ![i] = m]
          /\ author' = [author EXCEPT ![m] = i]
          /\ aim' = [aim EXCEPT ![m] = target[i]]
    BY <1>1 DEF Write
  <2>2. /\ phase[i] = "write" /\ phase'[i] = "embed" /\ fresh'[i] = m
        /\ row'[m] = "live" /\ author'[m] = i /\ aim'[m] = target[i]
        /\ \A j \in Ingests \ {i} : phase'[j] = phase[j] /\ fresh'[j] = fresh[j]
        /\ \A n \in MemoryIds \ {m} :
             row'[n] = row[n] /\ author'[n] = author[n] /\ aim'[n] = aim[n]
        /\ UNCHANGED <<index, removing, links, noted, reported, target, cuts>>
    BY <1>1, <2>1 DEF Write, Go, Typed, IngestionTypeOK
  <2>3. \A j \in Ingests : Informed(j)'
    <3> TAKE j \in Ingests
    <3>1. target[j] # Nothing => target[j] \in MemoryIds \ {m}
      BY <2>1 DEF Recorded, Informed, Typed, IngestionTypeOK
    <3>2. CASE j = i
      BY <2>2, <3>1, <3>2 DEF Recorded, Informed, Made, Linking
    <3>3. CASE j # i
      <4>1. Informed(j) /\ Equipped(j)
        BY DEF Recorded, Typed
      <4>2. phase[j] \in {"embed"} \cup Linking => fresh[j] \in MemoryIds \ {m}
        BY <2>1, <4>1 DEF Informed, Made, Equipped
      <4> QED
        BY <2>2, <3>1, <3>3, <4>1, <4>2 DEF Informed, Made
    <3> QED
      BY <3>2, <3>3
  <2>4. Sound'
    BY <2>1, <2>2 DEF Recorded, Sound, Typed, IngestionTypeOK
  <2>5. \A l \in links' : Succeeds(l)'
    <3> SUFFICES ASSUME NEW l \in links PROVE Succeeds(l)'
      BY <2>2
    <3>1. l[2] \in MemoryIds /\ Succeeds(l)
      BY DEF Recorded, Typed, IngestionTypeOK
    <3> QED
      BY <2>1, <2>2, <3>1 DEF Succeeds
  <2>6. \A n \in MemoryIds : aim'[n] # Nothing => author'[n] \in Ingests
    BY <2>2 DEF Recorded
  <2>7. \A n \in MemoryIds : Settled(n)'
    BY <2>2 DEF Recorded, Settled
  <2> QED
    BY <2>2, <2>3, <2>4, <2>5, <2>6, <2>7 DEF Recorded
<1>2. CASE Embed(i)
  <2>1. /\ phase[i] = "embed" /\ phase[i] \in AtFact /\ fresh[i] \in MemoryIds
        /\ row[fresh[i]] # "free"
        /\ index' = index \cup {fresh[i]}
        /\ UNCHANGED <<row, removing, links, noted, reported, author, aim, cuts>>
    BY <1>2 DEF Embed, Typed, Equipped, Recorded, Informed, Made, AtFact
  <2>2. \A m \in index' : row[m] # "free"
    BY <2>1 DEF Recorded, Sound
  <2>3. CASE target[i] = Nothing /\ Advance(i)
    BY <2>1, <2>2, <2>3, AdvanceKeepsRecorded DEF Recorded
  <2>4. CASE target[i] # Nothing /\ Go(i, "link") /\ UNCHANGED <<mode, todo, target, fresh>>
    <3>1. phase'[i] = "link" /\ \A j \in Ingests \ {i} : phase'[j] = phase[j]
      BY <2>4 DEF Go, Typed, IngestionTypeOK
    <3> QED
      BY <2>1, <2>2, <2>4, <3>1
      DEF Recorded, Informed, Made, Sound, Succeeds, Settled, Linking
  <2> QED
    BY <1>2, <2>3, <2>4 DEF Embed
<1>3. CASE Link(i)
  <2>1. /\ phase[i] = "link" /\ phase'[i] = "note"
        /\ \A j \in Ingests \ {i} : phase'[j] = phase[j]
        /\ links' = links \cup {<<target[i], fresh[i]>>}
        /\ Made(i) /\ (row[fresh[i]] = "live" => fresh[i] \in index)
        /\ UNCHANGED <<row, index, removing, noted, reported, target, fresh, author, aim, cuts>>
    BY <1>3 DEF Link, Go, Typed, IngestionTypeOK, Recorded, Informed, Linking
  <2>2. Succeeds(<<target[i], fresh[i]>>)
    BY <2>1 DEF Succeeds, Made
  <2>3. \A l \in links' : Succeeds(l)'
    BY <2>1, <2>2 DEF Recorded, Succeeds
  <2>4. \A j \in Ingests : Informed(j)'
    BY <2>1 DEF Recorded, Informed, Made, Linking
  <2>5. \A m \in MemoryIds : Settled(m)'
    <3> TAKE m \in MemoryIds
    <3>1. CASE author[m] = i /\ fresh[i] = m
      BY <2>1, <3>1 DEF Settled, Made
    <3>2. CASE ~(author[m] = i /\ fresh[i] = m)
      BY <2>1, <3>2 DEF Settled, Recorded
    <3> QED
      BY <3>1, <3>2
  <2> QED
    BY <2>1, <2>3, <2>4, <2>5 DEF Recorded, Sound
<1>4. CASE Note(i)
  <2>1. /\ phase[i] = "note" /\ phase'[i] = "tell"
        /\ \A j \in Ingests \ {i} : phase'[j] = phase[j]
        /\ <<target[i], fresh[i]>> \in links
        /\ noted' \subseteq noted \cup {<<target[i], fresh[i]>>}
        /\ UNCHANGED <<row, index, removing, links, reported, target, fresh, author, aim, cuts>>
    BY <1>4 DEF Note, Go, Typed, IngestionTypeOK, Recorded, Informed
  <2> QED
    BY <2>1 DEF Recorded, Informed, Made, Sound, Succeeds, Settled, Linking
<1>5. CASE Tell(i)
  <2>1. /\ phase[i] = "tell" /\ phase[i] \in AtFact /\ Advance(i)
        /\ <<target[i], fresh[i]>> \in links
        /\ reported' = reported \cup {<<target[i], fresh[i]>>}
        /\ UNCHANGED <<row, index, removing, links, noted, author, aim, cuts>>
    BY <1>5 DEF Tell, Recorded, Informed, AtFact
  <2>2. (\A m \in index' : row[m] # "free") /\ reported' \subseteq links
    BY <2>1 DEF Recorded, Sound
  <2> QED
    BY <2>1, <2>2, AdvanceKeepsRecorded
<1>6. CASE Cut(i)
  <2>1. /\ phase[i] # "failed" /\ phase'[i] = "failed"
        /\ \A j \in Ingests \ {i} : phase'[j] = phase[j]
        /\ cuts' = cuts \cup {<<i, fresh[i]>>}
        /\ UNCHANGED <<row, removing, noted, reported, target, fresh, author, aim>>
    BY <1>6 DEF Cut, Go, Underway, Typed, IngestionTypeOK
  <2>2. \/ UNCHANGED <<index, links>>
        \/ phase[i] = "embed" /\ index' = index \cup {fresh[i]} /\ UNCHANGED links
        \/ phase[i] = "link" /\ links' = links \cup {<<target[i], fresh[i]>>} /\ UNCHANGED index
    BY <1>6 DEF Cut
  <2>3. \A m \in index' : row[m] # "free"
    <3>1. phase[i] = "embed" => row[fresh[i]] # "free"
      BY DEF Recorded, Informed, Made, Linking
    <3> QED
      BY <2>2, <3>1 DEF Recorded, Sound
  <2>4. index \subseteq index' /\ links \subseteq links'
    BY <2>2
  <2>5. \A l \in links' : Succeeds(l)'
    <3>1. \A l \in links : Succeeds(l)'
      BY <2>1, <2>4 DEF Recorded, Succeeds
    <3>2. phase[i] = "link" => Succeeds(<<target[i], fresh[i]>>)'
      BY <2>1, <2>4 DEF Recorded, Informed, Made, Succeeds, Linking
    <3> TAKE l \in links'
    <3>3. CASE l \in links
      BY <3>1, <3>3
    <3>4. CASE phase[i] = "link" /\ l = <<target[i], fresh[i]>>
      BY <2>1, <3>2, <3>4 DEF Succeeds
    <3> QED
      BY <2>2, <3>3, <3>4
  <2>6. \A j \in Ingests : Informed(j)'
    BY <2>1, <2>4 DEF Recorded, Informed, Made, Linking
  <2>7. \A m \in MemoryIds : Settled(m)'
    BY <2>1, <2>4 DEF Recorded, Settled
  <2> QED
    BY <2>1, <2>3, <2>4, <2>5, <2>6, <2>7 DEF Recorded, Sound
<1> QED
  BY <1>1, <1>2, <1>3, <1>4, <1>5, <1>6

(* Deletions take rows, and vectors of rows that are gone. *)
LEMMA ForgettingKeepsRecorded ==
  ASSUME Typed, Recorded, NEW m \in MemoryIds, Forget(m) \/ Unindex(m)
  PROVE  Recorded'
<1> USE DEF stores, record, history, request
<1>1. CASE Forget(m)
  <2>1. /\ row[m] = "live" /\ row'[m] = "gone"
        /\ \A n : n # m => row'[n] = row[n]
        /\ removing' = removing \cup {m}
        /\ UNCHANGED <<index, links, noted, reported, phase, target, fresh, author, aim, cuts>>
    BY <1>1 DEF Forget, Live, Typed, IngestionTypeOK
  <2> QED
    BY <2>1 DEF Recorded, Informed, Made, Sound, Succeeds, Settled
<1>2. CASE Unindex(m)
  <2>1. /\ row[m] = "gone" /\ removing' = removing \ {m}
        /\ index \ {m} \subseteq index' /\ index' \subseteq index
        /\ UNCHANGED <<row, links, noted, reported, phase, target, fresh, author, aim, cuts>>
    BY <1>2 DEF Unindex, Recorded, Sound
  <2> QED
    BY <2>1 DEF Recorded, Informed, Made, Sound, Succeeds, Settled
<1> QED
  BY <1>1, <1>2

LEMMA RecordedNext == Typed /\ Recorded /\ [IngestionNext]_ingestionVars => Recorded'
<1> SUFFICES ASSUME Typed, Recorded, [IngestionNext]_ingestionVars PROVE Recorded'
  OBVIOUS
<1>1. CASE IngestionNext
  BY <1>1, ThinkingKeepsRecorded, WritingKeepsRecorded, ForgettingKeepsRecorded
  DEF IngestionNext
<1>2. CASE UNCHANGED ingestionVars
  BY <1>2 DEF ingestionVars, stores, record, history, request, Recorded, Informed, Made,
              Sound, Succeeds, Settled
<1> QED
  BY <1>1, <1>2

LEMMA RecordedAlways == IngestionSpec => [](Typed /\ Recorded)
BY TypedInit, TypedNext, RecordedInit, RecordedNext, PTL DEF IngestionSpec

(* Every variable stays within its range, for every number of requests,     *)
(* memories and facts.                                                      *)
THEOREM IngestionTypeAlways == IngestionSpec => []IngestionTypeOK
<1>1. Typed => IngestionTypeOK
  BY DEF Typed
<1> QED
  BY RecordedAlways, <1>1, PTL

(* However requests and deletions overlap and wherever a request is cut     *)
(* short, _record_supersession (retrieval/ingestion.py:301-391) retires a   *)
(* memory for one that search finds, and a memory that was to be replaced   *)
(* is retired unless the request was cut short.                             *)
THEOREM SupersessionsHoldAlways == IngestionSpec => []SupersessionsHold
<1>1. Typed /\ Recorded => SupersessionsHold
  BY DEF Typed, IngestionTypeOK, Recorded, Succeeds, Settled, SupersessionsHold,
         RetiredForAnother, ResolvedOrCut, Live
<1> QED
  BY RecordedAlways, <1>1, PTL

-----------------------------------------------------------------------------
(* A memory whose vector is to be written has never been found by a search. *)
Unseen(i) ==
  phase[i] = "embed" =>
    /\ fresh[i] \notin index
    /\ \A j \in Ingests : fresh[i] \notin given[j]
    /\ \A m \in MemoryIds : fresh[i] \notin prior[m]
    /\ says[fresh[i]] = Head(todo[i]) /\ prior[fresh[i]] = given[i]

(* A fact about to be written says the same as no memory that was there     *)
(* when its request began, and as none that the request has written.        *)
Compared(i) ==
  phase[i] \in {"judge", "write", "embed"} /\ mode[i] = "infer" =>
    \A n \in index :
      row[n] = "live" /\ (n \in given[i] \/ author[n] = i) =>
        Likeness[<<Head(todo[i]), says[n]>>] # "duplicate"

Near(i) == phase[i] = "judge" => Likeness[<<Head(todo[i]), says[target[i]]>>] # "far"

(* What was found once is there, or gone. *)
Past ==
  /\ \A i \in Ingests : \A n \in given[i] : row[n] # "free" /\ (row[n] = "live" => n \in index)
  /\ \A m \in MemoryIds : \A n \in prior[m] : row[n] # "free"

Authored(m) ==
  /\ row[m] # "free" => says[m] \in Facts
  /\ author[m] # Nothing => row[m] # "free" /\ phase[author[m]] # "idle"

Distinct ==
  /\ \A i \in Ingests : Unseen(i) /\ Compared(i) /\ Near(i)
  /\ Past
  /\ \A m \in MemoryIds : Authored(m)
  /\ DuplicatesAreDropped

LEMMA DistinctInit == IngestionInit => Distinct
BY DEF IngestionInit, Distinct, Unseen, Compared, Near, Past, Authored,
       DuplicatesAreDropped, NoTwins, SkippedIsKnown, Live

(* Of two memories that say the same the later one was not compared with    *)
(* the other, by its writer or any other request.                           *)
LEMMA NewVectorIsNoTwin ==
  ASSUME Typed, Recorded, Distinct, NEW i \in Ingests, phase[i] = "embed",
         index' = index \cup {fresh[i]}, UNCHANGED <<row, says, author, prior, mode>>
  PROVE  NoTwins'
<1> DEFINE f == fresh[i]
<1>1. f \in MemoryIds /\ author[f] = i /\ row[f] # "free" /\ says[f] \in Facts
  BY DEF Typed, Equipped, Recorded, Informed, Made, Distinct, Authored
<1>2. \A m \in MemoryIds : f \notin prior[m]
  BY DEF Distinct, Unseen
<1>3. \A n \in index : mode[i] = "infer" /\ row[n] = "live" /\ (n \in prior[f] \/ author[n] = i)
                         => Likeness[<<says[f], says[n]>>] # "duplicate"
  BY DEF Distinct, Unseen, Compared
<1>4. \A n \in index : n \in MemoryIds /\ says[n] \in Facts
  BY DEF Typed, IngestionTypeOK, Recorded, Sound, Distinct, Authored
<1>5. \A n \in index : Likeness[<<says[n], says[f]>>] = Likeness[<<says[f], says[n]>>]
  BY <1>1, <1>4, IngestionAssumption
<1> SUFFICES ASSUME NEW m \in index', NEW n \in index', row[m] = "live", row[n] = "live", m # n,
                    author[m] # Nothing, mode[author[m]] = "infer",
                    Likeness[<<says[m], says[n]>>] = "duplicate"
             PROVE  n \notin prior[m] /\ author[n] # author[m]
  BY DEF NoTwins, Live
<1>6. CASE m = f
  BY <1>1, <1>3, <1>6
<1>7. CASE m # f /\ n = f
  <2>1. Likeness[<<says[f], says[m]>>] = "duplicate" /\ m \in index
    BY <1>5, <1>7
  <2> QED
    BY <1>1, <1>2, <1>3, <1>7, <2>1 DEF Typed, IngestionTypeOK
<1>8. CASE m \in index /\ n \in index
  BY <1>8 DEF Distinct, DuplicatesAreDropped, NoTwins, Live, Typed, IngestionTypeOK
<1> QED
  BY <1>6, <1>7, <1>8

(* A fact that is dealt with concerns its request no more. *)
LEMMA AdvanceKeepsDistinct ==
  ASSUME Typed, Recorded, Distinct, NEW i \in Ingests, phase[i] \in AtFact, Advance(i),
         UNCHANGED <<row, says, index, author, given, prior>>, SkippedIsKnown'
  PROVE  Distinct'
<1>1. \A j \in Ingests : Unseen(j)' /\ Compared(j)' /\ Near(j)'
  <2> TAKE j \in Ingests
  <2>1. CASE j = i
    <3>1. phase'[i] \in {"done", "look", "write"} /\ (phase'[i] = "write" => mode'[i] # "infer")
      BY AdvanceEffect
    <3> QED
      BY <2>1, <3>1 DEF Unseen, Compared, Near
  <2>2. CASE j # i
    <3>1. /\ phase'[j] = phase[j] /\ target'[j] = target[j] /\ fresh'[j] = fresh[j]
          /\ todo'[j] = todo[j] /\ mode' = mode
      BY <2>2, AdvanceEffect DEF Typed, IngestionTypeOK
    <3> QED
      BY <3>1 DEF Distinct, Unseen, Compared, Near
  <2> QED
    BY <2>1, <2>2
<1>2. Past'
  BY DEF Distinct, Past
<1>3. \A m \in MemoryIds : Authored(m)'
  <2> TAKE m \in MemoryIds
  <2>1. author[m] # Nothing => author[m] \in Ingests
    BY DEF Typed, IngestionTypeOK
  <2>2. \A j \in Ingests : phase'[j] = phase[j] \/ phase'[j] \in {"done", "look", "write"}
    BY AdvanceEffect DEF Typed, IngestionTypeOK
  <2> QED
    BY <2>1, <2>2 DEF Distinct, Authored
<1>4. NoTwins'
  BY AdvanceEffect DEF Distinct, DuplicatesAreDropped, NoTwins, Live
<1> QED
  BY <1>1, <1>2, <1>3, <1>4 DEF Distinct, DuplicatesAreDropped

(* Requests that begin, or begin again, have seen what search can see.      *)
Begins(i) ==
  /\ phase[i] \in {"idle", "failed", "extract"}
  /\ phase'[i] \in {"extract", "write", "done", "look"}
  /\ \A j \in Ingests \ {i} : phase'[j] = phase[j] /\ mode'[j] = mode[j] /\ given'[j] = given[j]
  /\ phase[i] = "idle" \/ mode'[i] = mode[i]
  /\ phase'[i] = "write" => mode'[i] # "infer"
  /\ \A j \in Ingests \ {i} : todo'[j] = todo[j] /\ target'[j] = target[j] /\ fresh'[j] = fresh[j]
  /\ given'[i] \in {given[i], index}
  /\ UNCHANGED <<row, says, index, author, prior, skips>>

LEMMA BeginningKeepsDistinct ==
  ASSUME Typed, Recorded, Distinct, NEW i \in Ingests, Begins(i)
  PROVE  Distinct'
<1> USE DEF Begins
<1>1. \A j \in Ingests \ {i} :
        phase'[j] = phase[j] /\ mode'[j] = mode[j] /\ given'[j] = given[j]
  OBVIOUS
<1>2. given'[i] \in {given[i], index}
  OBVIOUS
<1>3. \A j \in Ingests : Unseen(j)' /\ Compared(j)' /\ Near(j)'
  <2> TAKE j \in Ingests
  <2>1. CASE j = i
    BY <2>1 DEF Unseen, Compared, Near
  <2>2. CASE j # i
    <3>1. Unseen(j)'
      BY <1>1, <1>2, <2>2 DEF Distinct, Unseen
    <3>2. Compared(j)' /\ Near(j)'
      BY <1>1, <2>2 DEF Distinct, Compared, Near
    <3> QED
      BY <3>1, <3>2
  <2> QED
    BY <2>1, <2>2
<1>4. Past'
  BY <1>1, <1>2 DEF Distinct, Past, Recorded, Sound
<1>5. \A m \in MemoryIds : Authored(m)'
  BY <1>1 DEF Distinct, Authored, Typed, IngestionTypeOK
<1>6. NoTwins'
  <2>1. \A m \in MemoryIds : author[m] # Nothing => mode'[author[m]] = mode[author[m]]
    BY <1>1 DEF Distinct, Authored, Typed, IngestionTypeOK
  <2> QED
    BY <2>1 DEF Distinct, DuplicatesAreDropped, NoTwins, Live
<1>7. SkippedIsKnown'
  BY DEF Distinct, DuplicatesAreDropped, SkippedIsKnown
<1> QED
  BY <1>3, <1>4, <1>5, <1>6, <1>7 DEF Distinct, DuplicatesAreDropped

(* Requests that move on without touching a store. *)
LEMMA MovingKeepsDistinct ==
  ASSUME Typed, Recorded, Distinct, NEW i \in Ingests,
         phase' = [phase EXCEPT ![i] = phase'[i]],
         phase[i] # "idle", phase'[i] \in {"write", "note", "tell", "failed"},
         phase'[i] = "write" => phase[i] = "judge" \/ Compared(i)',
         UNCHANGED <<row, says, index, mode, todo, fresh, author, given, prior, skips>>,
         \A j \in Ingests \ {i} : target'[j] = target[j]
  PROVE  Distinct'
<1>1. \A j \in Ingests \ {i} : phase'[j] = phase[j]
  BY DEF Typed, IngestionTypeOK
<1>2. \A j \in Ingests : Unseen(j)' /\ Compared(j)' /\ Near(j)'
  <2> TAKE j \in Ingests
  <2>1. CASE j = i
    BY <2>1 DEF Distinct, Unseen, Compared, Near
  <2>2. CASE j # i
    BY <1>1, <2>2 DEF Distinct, Unseen, Compared, Near
  <2> QED
    BY <2>1, <2>2
<1>3. Past' /\ NoTwins' /\ SkippedIsKnown'
  BY DEF Distinct, Past, DuplicatesAreDropped, NoTwins, Live, SkippedIsKnown
<1>4. \A m \in MemoryIds : Authored(m)'
  BY <1>1 DEF Distinct, Authored, Typed, IngestionTypeOK
<1> QED
  BY <1>2, <1>3, <1>4 DEF Distinct, DuplicatesAreDropped

LEMMA ThinkingKeepsDistinct ==
  ASSUME Typed, Recorded, Distinct, NEW i \in Ingests,
         \/ Infer(i) \/ (\E facts \in Batches : Verbatim(i, facts) \/ Extract(i, facts))
         \/ \E m \in MemoryIds, f \in Facts : Replace(i, m, f)
         \/ Look(i) \/ Judge(i) \/ Retry(i)
  PROVE  Distinct'
<1> USE DEF stores, record, history, request
<1>1. CASE Infer(i)
  <2>1. Begins(i)
    BY <1>1 DEF Begins, Infer, BeginIngest, Go, Typed, IngestionTypeOK
  <2> QED
    BY <2>1, BeginningKeepsDistinct
<1>2. ASSUME NEW facts \in Batches, Verbatim(i, facts) PROVE Distinct'
  <2>1. Begins(i)
    BY <1>2 DEF Begins, Verbatim, BeginIngest, Go, Typed, IngestionTypeOK
  <2> QED
    BY <2>1, BeginningKeepsDistinct
<1>3. ASSUME NEW facts \in Batches, Extract(i, facts) PROVE Distinct'
  <2>1. Begins(i)
    BY <1>3 DEF Begins, Extract, Go, Typed, IngestionTypeOK
  <2> QED
    BY <2>1, BeginningKeepsDistinct
<1>4. ASSUME NEW m \in MemoryIds, NEW f \in Facts, Replace(i, m, f) PROVE Distinct'
  <2>1. Begins(i)
    BY <1>4 DEF Begins, Replace, BeginIngest, Go, Typed, IngestionTypeOK
  <2> QED
    BY <2>1, BeginningKeepsDistinct
<1>5. CASE Retry(i)
  <2>1. Begins(i)
    BY <1>5 DEF Begins, Retry, Go, Typed, IngestionTypeOK
  <2> QED
    BY <2>1, BeginningKeepsDistinct
<1>6. ASSUME NEW m \in MemoryIds, phase[i] \in {"look", "judge"}, Skip(i, m), row[m] # "free",
             Likeness[<<Head(todo[i]), says[m]>>] # "far",
             UNCHANGED <<stores, record, author, given, prior, aim, cuts>>
      PROVE  Distinct'
  <2>1. SkippedIsKnown'
    <3> SUFFICES ASSUME NEW s \in skips'
                 PROVE  row[s[2]] # "free" /\ Likeness[<<s[1], says[s[2]]>>] # "far"
      BY <1>6 DEF SkippedIsKnown
    <3>1. CASE s \in skips
      BY <3>1 DEF Distinct, DuplicatesAreDropped, SkippedIsKnown
    <3>2. CASE s = <<Head(todo[i]), m>>
      BY <1>6, <3>2
    <3> QED
      BY <1>6, <3>1, <3>2 DEF Skip
  <2> QED
    BY <1>6, <2>1, AdvanceKeepsDistinct DEF Skip, AtFact
<1>7. CASE Look(i)
  <2>1. phase[i] = "look"
    BY <1>7 DEF Look
  <2>2. CASE Nearest(i) = {} /\ Go(i, "write") /\ UNCHANGED <<mode, todo, target, fresh, skips>>
    <3>1. \A n \in index : Likeness[<<Head(todo[i]), says[n]>>] # "duplicate"
      BY <2>2 DEF Nearest, Band
    <3>2. Compared(i)'
      BY <1>7, <2>2, <3>1 DEF Look, Compared
    <3> QED
      BY <1>7, <2>1, <2>2, <3>2, MovingKeepsDistinct DEF Look, Go, Typed, IngestionTypeOK
  <2>3. ASSUME NEW m \in Nearest(i), Band(i, m) = "duplicate", Skip(i, m) PROVE Distinct'
    <3>1. m \in MemoryIds /\ row[m] # "free"
      BY DEF Nearest, Recorded, Sound, Typed, IngestionTypeOK
    <3> QED
      BY <1>6, <1>7, <2>1, <2>3, <3>1 DEF Look, Band
  <2>4. ASSUME NEW m \in Nearest(i), Band(i, m) # "duplicate", Go(i, "judge"),
               target' = [target EXCEPT ![i] = m], UNCHANGED <<mode, todo, fresh, skips>>
        PROVE  Distinct'
    <3>1. /\ Likeness[<<Head(todo[i]), says[m]>>] = "similar"
          /\ \A n \in index : Likeness[<<Head(todo[i]), says[n]>>] # "duplicate"
      BY <2>4 DEF Nearest, Band
    <3>2. phase'[i] = "judge" /\ target'[i] = m
          /\ \A j \in Ingests \ {i} : phase'[j] = phase[j] /\ target'[j] = target[j]
      BY <2>4 DEF Go, Typed, IngestionTypeOK
    <3>3. UNCHANGED <<row, says, index, mode, todo, fresh, author, given, prior, skips>>
      BY <1>7, <2>4 DEF Look
    <3>4. \A j \in Ingests : Unseen(j)' /\ Compared(j)' /\ Near(j)'
      BY <2>1, <3>1, <3>2, <3>3 DEF Distinct, Unseen, Compared, Near
    <3>5. Past' /\ NoTwins' /\ SkippedIsKnown'
      BY <3>3 DEF Distinct, Past, DuplicatesAreDropped, NoTwins, Live, SkippedIsKnown
    <3>6. \A n \in MemoryIds : Authored(n)'
      BY <2>1, <3>2, <3>3 DEF Distinct, Authored, Typed, IngestionTypeOK
    <3> QED
      BY <3>4, <3>5, <3>6 DEF Distinct, DuplicatesAreDropped
  <2> QED
    BY <1>7, <2>2, <2>3, <2>4 DEF Look
<1>8. CASE Judge(i)
  <2>1. phase[i] = "judge" /\ UNCHANGED <<stores, record, author, given, prior, aim, cuts>>
    BY <1>8 DEF Judge
  <2>2. CASE Go(i, "write") /\ UNCHANGED <<mode, todo, fresh, skips>>
             /\ \A j \in Ingests \ {i} : target'[j] = target[j]
    BY <2>1, <2>2, MovingKeepsDistinct DEF Go, Typed, IngestionTypeOK
  <2>3. CASE target[i] \in Live /\ Skip(i, target[i])
    <3>1. Likeness[<<Head(todo[i]), says[target[i]]>>] # "far"
      BY <2>1 DEF Distinct, Near
    <3> QED
      BY <1>6, <2>1, <2>3, <3>1 DEF Live
  <2>4. \A j \in Ingests \ {i} : [target EXCEPT ![i] = Nothing][j] = target[j]
    BY DEF Typed, IngestionTypeOK
  <2> QED
    BY <1>8, <2>2, <2>3, <2>4 DEF Judge
<1> QED
  BY <1>1, <1>2, <1>3, <1>4, <1>5, <1>7, <1>8

(* A vector that appears concerns only memories that nobody has looked at. *)
LEMMA IndexingKeepsDistinct ==
  ASSUME Typed, Recorded, Distinct, NEW i \in Ingests, phase[i] = "embed",
         index' = index \cup {fresh[i]},
         \A j \in Ingests \ {i} :
           /\ phase'[j] = phase[j] /\ todo'[j] = todo[j]
           /\ target'[j] = target[j] /\ fresh'[j] = fresh[j],
         phase'[i] \in {"done", "look", "write", "link", "failed"},
         phase'[i] = "write" => mode[i] # "infer",
         UNCHANGED <<row, says, mode, author, given, prior, skips>>
  PROVE  Distinct'
<1>1. fresh[i] \in MemoryIds /\ author[fresh[i]] = i /\ row[fresh[i]] # "free"
  BY DEF Typed, Equipped, Recorded, Informed, Made
<1>2. \A j \in Ingests : fresh[i] \notin given[j]
  BY DEF Distinct, Unseen
<1>3. \A j \in Ingests : Unseen(j)' /\ Compared(j)' /\ Near(j)'
  <2> TAKE j \in Ingests
  <2>1. CASE j = i
    BY <2>1 DEF Unseen, Compared, Near
  <2>2. CASE j # i
    <3>1. phase[j] = "embed" => fresh[j] # fresh[i]
      BY <1>1, <2>2 DEF Recorded, Informed, Made
    <3>2. Unseen(j)'
      BY <2>2, <3>1 DEF Distinct, Unseen
    <3>3. Compared(j)'
      BY <1>1, <1>2, <2>2 DEF Distinct, Compared
    <3>4. Near(j)'
      BY <2>2 DEF Distinct, Near
    <3> QED
      BY <3>2, <3>3, <3>4
  <2> QED
    BY <2>1, <2>2
<1>4. Past'
  BY DEF Distinct, Past
<1>5. \A m \in MemoryIds : Authored(m)'
  BY DEF Distinct, Authored, Typed, IngestionTypeOK
<1>6. NoTwins'
  BY NewVectorIsNoTwin
<1>7. SkippedIsKnown'
  BY DEF Distinct, DuplicatesAreDropped, SkippedIsKnown
<1> QED
  BY <1>3, <1>4, <1>5, <1>6, <1>7 DEF Distinct, DuplicatesAreDropped

LEMMA WriteKeepsDistinct ==
  ASSUME Typed, Recorded, Distinct, NEW i \in Ingests, Write(i)
  PROVE  Distinct'
<1> USE DEF stores, record, history, request
<1>1. PICK m \in MemoryIds :
        /\ row[m] = "free"
        /\ row' = [row EXCEPT ![m] = "live"]
        /\ says' = [says EXCEPT ![m] = Head(todo[i])]
        /\ fresh' = [fresh EXCEPT ![i] = m]
        /\ author' = [author EXCEPT ![m] = i]
        /\ prior' = [prior EXCEPT ![m] = given[i]]
  BY DEF Write
<1>2. /\ phase[i] = "write" /\ phase'[i] = "embed" /\ fresh'[i] = m
      /\ \A j \in Ingests \ {i} : phase'[j] = phase[j] /\ fresh'[j] = fresh[j]
      /\ UNCHANGED <<index, mode, todo, target, skips, given>>
  BY <1>1 DEF Write, Go, Typed, IngestionTypeOK
<1>3. /\ row'[m] = "live" /\ says'[m] = Head(todo[i]) /\ author'[m] = i /\ prior'[m] = given[i]
      /\ \A n \in MemoryIds \ {m} : /\ row'[n] = row[n] /\ says'[n] = says[n]
                                    /\ author'[n] = author[n] /\ prior'[n] = prior[n]
  BY <1>1 DEF Typed, IngestionTypeOK
<1>4. /\ m \notin index /\ index \subseteq MemoryIds
      /\ \A j \in Ingests : m \notin given[j] /\ given[j] \subseteq MemoryIds
      /\ \A n \in MemoryIds : m \notin prior[n] /\ prior[n] \subseteq MemoryIds
  BY <1>1 DEF Recorded, Sound, Distinct, Past, Typed, IngestionTypeOK
<1>5. Head(todo[i]) \in Facts
  BY <1>2, HeadIsFact DEF AtFact
<1>6. \A j \in Ingests : Unseen(j)' /\ Compared(j)' /\ Near(j)'
  <2> TAKE j \in Ingests
  <2>1. CASE j = i
    <3>1. Unseen(i)'
      BY <1>2, <1>3, <1>4 DEF Unseen
    <3>2. Compared(i)'
      BY <1>2, <1>3, <1>4 DEF Distinct, Compared
    <3>3. Near(i)'
      BY <1>2 DEF Near
    <3> QED
      BY <2>1, <3>1, <3>2, <3>3
  <2>2. CASE j # i
    <3>1. phase[j] = "embed" => fresh[j] \in MemoryIds /\ fresh[j] # m
      BY <1>1 DEF Recorded, Informed, Made, Typed, Equipped
    <3>2. Unseen(j)'
      <4>1. phase[j] = "embed" => fresh[j] \notin given[i]
        BY DEF Distinct, Unseen
      <4> QED
        BY <1>2, <1>3, <2>2, <3>1, <4>1 DEF Distinct, Unseen
    <3>3. Compared(j)'
      BY <1>2, <1>3, <1>4, <2>2 DEF Distinct, Compared
    <3>4. phase[j] = "judge" => target[j] \in MemoryIds \ {m}
      BY <1>1, IngestionAssumption DEF Recorded, Informed, Typed, Equipped
    <3>5. Near(j)'
      BY <1>2, <1>3, <2>2, <3>4 DEF Distinct, Near
    <3> QED
      BY <3>2, <3>3, <3>5
  <2> QED
    BY <2>1, <2>2
<1>7. Past'
  <2>1. \A j \in Ingests : \A n \in given'[j] : row'[n] # "free" /\ (row'[n] = "live" => n \in index')
    BY <1>2, <1>3, <1>4 DEF Distinct, Past
  <2>2. \A k \in MemoryIds : \A n \in prior'[k] : row'[n] # "free"
    <3> TAKE k \in MemoryIds
    <3>1. CASE k = m
      BY <1>2, <1>3, <2>1, <3>1
    <3>2. CASE k # m
      BY <1>3, <1>4, <3>2 DEF Distinct, Past
    <3> QED
      BY <3>1, <3>2
  <2> QED
    BY <2>1, <2>2 DEF Past
<1>8. \A n \in MemoryIds : Authored(n)'
  <2>1. \A n \in MemoryIds : author[n] # Nothing => author[n] \in Ingests
    BY DEF Typed, IngestionTypeOK
  <2> QED
    BY <1>2, <1>3, <1>5, <2>1 DEF Distinct, Authored
<1>9. NoTwins'
  BY <1>2, <1>3, <1>4 DEF Distinct, DuplicatesAreDropped, NoTwins, Live
<1>10. SkippedIsKnown'
  <2> SUFFICES ASSUME NEW s \in skips
               PROVE  row'[s[2]] # "free" /\ Likeness[<<s[1], says'[s[2]]>>] # "far"
    BY <1>2 DEF SkippedIsKnown
  <2>1. s[2] \in MemoryIds /\ row[s[2]] # "free" /\ Likeness[<<s[1], says[s[2]]>>] # "far"
    BY DEF Distinct, DuplicatesAreDropped, SkippedIsKnown, Typed, IngestionTypeOK
  <2> QED
    BY <1>1, <1>3, <2>1
<1> QED
  BY <1>6, <1>7, <1>8, <1>9, <1>10 DEF Distinct, DuplicatesAreDropped

LEMMA WritingKeepsDistinct ==
  ASSUME Typed, Recorded, Distinct, NEW i \in Ingests,
         Embed(i) \/ Link(i) \/ Note(i) \/ Tell(i) \/ Cut(i)
  PROVE  Distinct'
<1> USE DEF stores, record, history, request
<1>1. CASE Embed(i)
  <2>1. phase[i] = "embed" /\ phase[i] \in AtFact /\ index' = index \cup {fresh[i]}
        /\ UNCHANGED <<row, says, author, given, prior, skips>>
    BY <1>1 DEF Embed, AtFact
  <2>2. CASE Advance(i)
    <3>1. /\ \A j \in Ingests \ {i} :
               /\ phase'[j] = phase[j] /\ todo'[j] = todo[j]
               /\ target'[j] = target[j] /\ fresh'[j] = fresh[j]
          /\ phase'[i] \in {"done", "look", "write"} /\ mode' = mode
          /\ phase'[i] = "write" => mode[i] # "infer"
      BY <2>1, <2>2, AdvanceEffect DEF Typed, IngestionTypeOK
    <3> QED
      BY <2>1, <3>1, IndexingKeepsDistinct
  <2>3. CASE Go(i, "link") /\ UNCHANGED <<mode, todo, target, fresh>>
    <3>1. phase'[i] = "link" /\ \A j \in Ingests \ {i} : phase'[j] = phase[j]
      BY <2>3 DEF Go, Typed, IngestionTypeOK
    <3> QED
      BY <2>1, <2>3, <3>1, IndexingKeepsDistinct
  <2> QED
    BY <1>1, <2>2, <2>3 DEF Embed
<1>2. CASE Link(i) \/ Note(i)
  <2>1. /\ phase' = [phase EXCEPT ![i] = phase'[i]]
        /\ phase[i] # "idle" /\ phase'[i] \in {"note", "tell"}
        /\ UNCHANGED <<row, says, index, mode, todo, target, fresh, author, given, prior, skips>>
    BY <1>2 DEF Link, Note, Go, Typed, IngestionTypeOK
  <2> QED
    BY <2>1, MovingKeepsDistinct
<1>3. CASE Tell(i)
  <2>1. phase[i] \in AtFact /\ Advance(i) /\ UNCHANGED <<row, says, index, author, given, prior, skips>>
    BY <1>3 DEF Tell, AtFact
  <2>2. SkippedIsKnown'
    BY <2>1 DEF Distinct, DuplicatesAreDropped, SkippedIsKnown
  <2> QED
    BY <2>1, <2>2, AdvanceKeepsDistinct
<1>4. CASE Cut(i)
  <2>1. /\ phase' = [phase EXCEPT ![i] = phase'[i]]
        /\ phase[i] # "idle" /\ phase'[i] = "failed"
        /\ \A j \in Ingests \ {i} : phase'[j] = phase[j]
        /\ UNCHANGED <<row, says, mode, todo, target, fresh, author, given, prior, skips>>
    BY <1>4 DEF Cut, Go, Underway, Typed, IngestionTypeOK
  <2>2. CASE UNCHANGED index
    BY <2>1, <2>2, MovingKeepsDistinct
  <2>3. CASE phase[i] = "embed" /\ index' = index \cup {fresh[i]}
    BY <2>1, <2>3, IndexingKeepsDistinct
  <2> QED
    BY <1>4, <2>2, <2>3 DEF Cut
<1> QED
  BY <1>1, <1>2, <1>3, <1>4

LEMMA ForgettingKeepsDistinct ==
  ASSUME Typed, Recorded, Distinct, NEW m \in MemoryIds, Forget(m) \/ Unindex(m)
  PROVE  Distinct'
<1> USE DEF stores, record, history, request
<1>1. CASE Forget(m)
  <2>1. /\ row[m] = "live" /\ row'[m] = "gone"
        /\ \A n : n # m => row'[n] = row[n]
        /\ UNCHANGED <<says, index, phase, mode, todo, target, fresh, author, given, prior, skips>>
    BY <1>1 DEF Forget, Live, Typed, IngestionTypeOK
  <2> QED
    BY <2>1 DEF Distinct, Unseen, Compared, Near, Past, Authored, DuplicatesAreDropped, NoTwins,
                SkippedIsKnown, Live
<1>2. CASE Unindex(m)
  <2>1. /\ row[m] = "gone"
        /\ index \ {m} \subseteq index' /\ index' \subseteq index
        /\ UNCHANGED <<row, says, phase, mode, todo, target, fresh, author, given, prior, skips>>
    BY <1>2 DEF Unindex, Recorded, Sound
  <2> QED
    BY <2>1 DEF Distinct, Unseen, Compared, Near, Past, Authored, DuplicatesAreDropped, NoTwins,
                SkippedIsKnown, Live
<1> QED
  BY <1>1, <1>2

LEMMA DistinctNext == Typed /\ Recorded /\ Distinct /\ [IngestionNext]_ingestionVars => Distinct'
<1> SUFFICES ASSUME Typed, Recorded, Distinct, [IngestionNext]_ingestionVars PROVE Distinct'
  OBVIOUS
<1>1. CASE IngestionNext
  BY <1>1, ThinkingKeepsDistinct, WriteKeepsDistinct, WritingKeepsDistinct,
     ForgettingKeepsDistinct DEF IngestionNext
<1>2. CASE UNCHANGED ingestionVars
  BY <1>2 DEF ingestionVars, stores, record, history, request, Distinct, Unseen, Compared,
              Near, Past, Authored, DuplicatesAreDropped, NoTwins, SkippedIsKnown, Live
<1> QED
  BY <1>1, <1>2

(* For every number of overlapping requests: what dedup_and_write           *)
(* (retrieval/ingestion.py:195-295) writes says the same as no memory that  *)
(* was searchable when its request began, nor as one the request wrote      *)
(* before, and what it drops as known was committed at some time.           *)
THEOREM DuplicatesAreDroppedAlways == IngestionSpec => []DuplicatesAreDropped
<1>1. Distinct => DuplicatesAreDropped
  BY DEF Distinct
<1> QED
  BY RecordedAlways, DistinctInit, DistinctNext, <1>1, PTL DEF IngestionSpec
=============================================================================
