------------------------- MODULE GpoSnapshotProofs -------------------------
(***************************************************************************)
(* The properties of module GpoSnapshot for any tree of files, any fact    *)
(* plan and any number of writes.                                          *)
(*                                                                         *)
(* Versions only grow, so what was read earlier is not ahead of what was   *)
(* read later (Ordered).  A moment between two reads that saw the same is  *)
(* squeezed: it saw the same as well.                                      *)
(***************************************************************************)
EXTENDS GpoSnapshot, FiniteSetTheorems, TLAPS

\* pc once the second pass has begun, and once it is over.
Second == {"second", "scope", "paths", "planned", "done"}
Later  == Second \ {"second"}

\* What each observer has read when the next one's turn comes.
Progress ==
    /\ pc = "ad" => DOMAIN reading = {}
    /\ pc \notin {"ad", "raised"} => Of("ad", {Gpc}) \subseteq DOMAIN reading
    /\ pc \notin {"ad", "gpt", "raised"}
          => Of("version", {GptIni}) \subseteq DOMAIN reading
    /\ pc \notin {"ad", "gpt", "gptAd", "raised"}
          => Of("version", {Gpc}) \subseteq DOMAIN reading
    /\ pc \in {"list", "hash"} \cup Second
          => Of("scripts", ScriptsFiles) \subseteq DOMAIN reading
    /\ pc \in {"hash"} \cup Second => Of("bytes", Files) \subseteq DOMAIN reading
    /\ pc \in Second => Of("sha256", Files) \subseteq DOMAIN reading
    /\ pc \in Later => Of("again", Files) \subseteq DOMAIN reading
    /\ pc \in {"paths", "planned", "done"} => Of("scope", {Gpc}) \subseteq DOMAIN reading
    /\ pc \in {"planned", "done"} => Of("relpath", Files) \subseteq DOMAIN reading

\* Nothing read is ahead of the surface, nor is the marked moment.
Ordered ==
    /\ \A f \in DOMAIN reading : reading[f] <= surface[f[2]]
    /\ \A c \in Cells : mark[c] <= surface[c]

\* The first pass: listed, then read, before the second pass begins.
FirstPass ==
    \A f \in Files :
        /\ Has(<<"sha256", f>>) =>
              /\ Has(<<"bytes", f>>)
              /\ Exists(f, reading[<<"bytes", f>>])
                    => Exists(f, reading[<<"sha256", f>>])
              /\ pc \in Second => reading[<<"sha256", f>>] <= mark[f]
        /\ Has(<<"bytes", f>>) /\ ~Exists(f, reading[<<"bytes", f>>]) =>
              /\ Has(<<"sha256", f>>)
              /\ reading[<<"sha256", f>>] = reading[<<"bytes", f>>]

SecondPass ==
    \A f \in Files : Has(<<"again", f>>) =>
        pc \in Second /\ mark[f] <= reading[<<"again", f>>]

\* The directory was asked before and after the moment GPT.INI was read.
GptMoment ==
    /\ pc \in {"gptAd", "scripts", "list", "hash"} =>
          /\ reading[<<"version", GptIni>>] = mark[GptIni]
          /\ reading[<<"ad", Gpc>>] <= mark[Gpc]
          /\ Fits(GptNumber[mark[GptIni]])
    /\ pc \in {"scripts", "list", "hash"} => mark[Gpc] <= reading[<<"version", Gpc>>]
    /\ pc \in {"gpt", "gptAd"} => ~Has(<<"version", Gpc>>)
    /\ pc = "gpt" => ~Has(<<"version", GptIni>>)

SnapshotInv ==
    SnapshotTypeOK /\ Progress /\ Ordered /\ FirstPass /\ SecondPass /\ GptMoment

\* Every fact is about a cell.
LEMMA FactsAreAboutCells == \A f \in Facts : f[2] \in Cells
<1>1. ASSUME NEW o, NEW cells, cells \subseteq Cells, NEW f \in Of(o, cells)
      PROVE  f[2] \in Cells
  <2>1. PICK c \in cells : f = <<o, c>>
    BY <1>1 DEF Of
  <2>2. QED
    BY <2>1, <1>1
<1>2. /\ {Gpc} \subseteq Cells /\ {GptIni, Gpc} \subseteq Cells
      /\ Files \subseteq Cells /\ ScriptsFiles \subseteq Cells
      /\ Planned \subseteq Cells
  BY SnapshotAssumption DEF SnapshotAssumption, Cells
<1>3. QED
  BY ONLY <1>1, <1>2 DEF Facts

\* A read adds facts, with the versions of this moment, and keeps the others.
Adds(facts) ==
    /\ DOMAIN reading' = DOMAIN reading \cup facts
    /\ \A f \in DOMAIN reading : reading'[f] = reading[f]
    /\ \A f \in facts \ DOMAIN reading : reading'[f] = surface[f[2]]

LEMMA ReadsAdd ==
    ASSUME SnapshotTypeOK, NEW facts, facts \subseteq Facts, Reads(facts)
    PROVE  /\ Adds(facts)
           /\ DOMAIN reading' \subseteq Facts
           /\ reading' \in [DOMAIN reading' -> Versions]
<1>1. \A f \in facts : surface[f[2]] \in Versions
  BY FactsAreAboutCells DEF SnapshotTypeOK, Surfaces
<1>2. \A f \in DOMAIN reading : reading[f] \in Versions
  BY DEF SnapshotTypeOK
<1>3. QED
  BY <1>1, <1>2 DEF SnapshotTypeOK, Reads, Adds

\* GPT.INI is a file and the directory object is not.
LEMMA Cell == GptIni \in Cells /\ Gpc \in Cells /\ GptIni # Gpc
  BY SnapshotAssumption DEF SnapshotAssumption, Cells

\* The facts of one observer are facts.
LEMMA ObserversRead ==
    /\ Of("ad", {Gpc}) \subseteq Facts /\ Of("version", {GptIni}) \subseteq Facts
    /\ Of("version", {Gpc}) \subseteq Facts /\ Of("scope", {Gpc}) \subseteq Facts
    /\ \A f \in ScriptsFiles : {<<"scripts", f>>} \subseteq Facts
    /\ \A f \in Planned : {<<"planned", f>>} \subseteq Facts
    /\ \A f \in Files :
          /\ {<<"bytes", f>>} \subseteq Facts
          /\ {<<"bytes", f>>, <<"sha256", f>>} \subseteq Facts
          /\ {<<"sha256", f>>} \subseteq Facts
          /\ {<<"again", f>>} \subseteq Facts
          /\ {<<"relpath", f>>} \subseteq Facts
  BY DEF Facts, Of

\* Whatever is read, it is not ahead of the surface.
LEMMA ReadsAreOrdered ==
    ASSUME SnapshotTypeOK, Ordered, NEW facts, facts \subseteq Facts, Reads(facts),
           surface' = surface, mark' \in {mark, surface}, pc' \in Observers
    PROVE  SnapshotTypeOK' /\ Ordered'
<1>1. \A f \in facts : f[2] \in Cells
  BY FactsAreAboutCells
<1>2. \A c \in Cells : surface[c] <= surface[c]
  BY SnapshotAssumption DEF SnapshotTypeOK, Surfaces, Versions, SnapshotAssumption
<1>3. Ordered'
  BY <1>1, <1>2, ReadsAdd DEF Ordered, Adds
<1>4. SnapshotTypeOK'
  BY ReadsAdd DEF SnapshotTypeOK, Adds, Observers
<1>5. QED
  BY <1>3, <1>4

\* Reads of other observers leave the two passes as they are.
LEMMA OtherReads ==
    ASSUME SnapshotTypeOK, FirstPass, SecondPass,
           NEW facts, facts \subseteq Facts, Reads(facts),
           \A f \in Files :
              /\ <<"sha256", f>> \notin facts /\ <<"again", f>> \notin facts
              /\ <<"bytes", f>> \in facts => Exists(f, surface[f]),
           pc' \in Second <=> pc \in Second, pc \in Second => mark' = mark
    PROVE  FirstPass' /\ SecondPass'
<1>1. FirstPass'
  BY ReadsAdd DEF FirstPass, Has, Adds
<1>2. SecondPass'
  BY ReadsAdd DEF SecondPass, Has, Adds
<1>3. QED
  BY <1>1, <1>2

\* Each action keeps the invariant.
LEMMA SnapshotInvStep == SnapshotInv /\ [SnapshotNext]_snapshotVars => SnapshotInv'
<1> SUFFICES ASSUME SnapshotInv, [SnapshotNext]_snapshotVars PROVE SnapshotInv'
  OBVIOUS
<1> USE DEF SnapshotInv
<1>1. CASE SurfaceChanges
  <2>1. \A c \in Cells : surface[c] <= surface'[c]
    BY <1>1, SnapshotAssumption
    DEF SurfaceChanges, SnapshotTypeOK, Surfaces, Versions, SnapshotAssumption
  <2>2. SnapshotTypeOK'
    BY <1>1, SnapshotAssumption
    DEF SurfaceChanges, SnapshotTypeOK, Surfaces, Versions, SnapshotAssumption
  <2>3. Ordered'
    <3>1. reading' = reading /\ mark' = mark
      BY <1>1 DEF SurfaceChanges
    <3>2. \A c \in Cells : /\ surface[c] \in Nat /\ surface'[c] \in Nat
                           /\ mark[c] \in Nat
      BY <2>2, SnapshotAssumption
      DEF SnapshotTypeOK, Surfaces, Versions, SnapshotAssumption
    <3>3. \A f \in DOMAIN reading : reading[f] \in Nat /\ f[2] \in Cells
      BY FactsAreAboutCells, SnapshotAssumption
      DEF SnapshotTypeOK, Versions, SnapshotAssumption
    <3>4. \A f \in DOMAIN reading : reading[f] <= surface'[f[2]]
      BY <2>1, <3>2, <3>3 DEF Ordered
    <3>5. \A c \in Cells : mark[c] <= surface'[c]
      BY <2>1, <3>2 DEF Ordered
    <3>6. QED
      BY <3>1, <3>4, <3>5 DEF Ordered
  <2>s. reading' = reading /\ pc' = pc /\ mark' = mark
    BY <1>1 DEF SurfaceChanges
  <2>4. Progress' /\ SecondPass'
    BY <2>s DEF Progress, SecondPass, Has
  <2>5. FirstPass'
    BY <2>s DEF FirstPass, Has
  <2>6. GptMoment'
    BY <2>s DEF GptMoment, Has
  <2>7. QED
    BY <2>2, <2>3, <2>4, <2>5, <2>6
<1>2. CASE ReadAd
  <2>1. Of("ad", {Gpc}) \subseteq Facts /\ Reads(Of("ad", {Gpc}))
    BY <1>2, ObserversRead DEF ReadAd
  <2> Adds(Of("ad", {Gpc}))
    BY <2>1, ReadsAdd
  <2>2. SnapshotTypeOK' /\ Ordered'
    BY <1>2, <2>1, ReadsAreOrdered DEF ReadAd, Observers
  <2>3. Progress'
    BY <1>2, <2>1 DEF Adds, ReadAd, Progress, Second, Later
  <2>4. FirstPass' /\ SecondPass'
    BY <1>2, <2>1, OtherReads DEF ReadAd, Second, Of
  <2>5. GptMoment'
    BY <1>2, <2>1, Cell DEF Adds, ReadAd, GptMoment, Has, Of, Progress
  <2>6. QED
    BY <2>2, <2>3, <2>4, <2>5
<1>3. CASE ReadGptIni
  <2>1. Of("version", {GptIni}) \subseteq Facts /\ Reads(Of("version", {GptIni}))
    BY <1>3, ObserversRead DEF ReadGptIni
  <2> Adds(Of("version", {GptIni}))
    BY <2>1, ReadsAdd
  <2>2. SnapshotTypeOK' /\ Ordered'
    BY <1>3, <2>1, ReadsAreOrdered DEF ReadGptIni, Observers
  <2>3. Progress'
    BY <1>3, <2>1 DEF Adds, ReadGptIni, Progress, Second, Later
  <2>4. FirstPass' /\ SecondPass'
    BY <1>3, <2>1, OtherReads DEF ReadGptIni, Second, Of
  <2>5. GptMoment'
    <3>1. /\ <<"version", GptIni>> \in DOMAIN reading' \ DOMAIN reading
          /\ <<"ad", Gpc>> \in DOMAIN reading
          /\ <<"version", Gpc>> \notin DOMAIN reading'
      BY <1>3, <2>1, Cell DEF Adds, ReadGptIni, GptMoment, Has, Of, Progress
    <3>2. /\ reading'[<<"version", GptIni>>] = surface[GptIni]
          /\ reading'[<<"ad", Gpc>>] = reading[<<"ad", Gpc>>]
      BY <2>1, <3>1 DEF Adds
    <3>3. reading[<<"ad", Gpc>>] <= surface[Gpc]
      BY <3>1 DEF Ordered
    <3>4. QED
      BY <1>3, <3>1, <3>2, <3>3 DEF ReadGptIni, GptMoment, Has
  <2>6. QED
    BY <2>2, <2>3, <2>4, <2>5
<1>4. CASE ReadAdVersion
  <2>1. Of("version", {Gpc}) \subseteq Facts /\ Reads(Of("version", {Gpc}))
    BY <1>4, ObserversRead DEF ReadAdVersion
  <2> Adds(Of("version", {Gpc}))
    BY <2>1, ReadsAdd
  <2>2. SnapshotTypeOK' /\ Ordered'
    BY <1>4, <2>1, ReadsAreOrdered DEF ReadAdVersion, Observers
  <2>3. Progress'
    BY <1>4, <2>1 DEF Adds, ReadAdVersion, Progress, Second, Later
  <2>4. FirstPass' /\ SecondPass'
    BY <1>4, <2>1, OtherReads DEF ReadAdVersion, Second, Of
  <2>5. GptMoment'
    <3>1. /\ <<"version", Gpc>> \in DOMAIN reading' \ DOMAIN reading
          /\ <<"ad", Gpc>> \in DOMAIN reading
          /\ <<"version", GptIni>> \in DOMAIN reading
      BY <1>4, <2>1, Cell DEF Adds, ReadAdVersion, GptMoment, Has, Of, Progress
    <3>2. /\ reading'[<<"version", Gpc>>] = surface[Gpc]
          /\ reading'[<<"ad", Gpc>>] = reading[<<"ad", Gpc>>]
          /\ reading'[<<"version", GptIni>>] = reading[<<"version", GptIni>>]
      BY <2>1, <3>1 DEF Adds
    <3>3. mark[Gpc] <= surface[Gpc]
      BY Cell DEF Ordered
    <3>4. QED
      BY <1>4, <3>1, <3>2, <3>3 DEF ReadAdVersion, GptMoment, Has
  <2>6. QED
    BY <2>2, <2>3, <2>4, <2>5
<1>5. ASSUME NEW f \in ScriptsFiles, ReadScripts(f) PROVE SnapshotInv'
  <2>1. {<<"scripts", f>>} \subseteq Facts /\ Reads({<<"scripts", f>>})
    BY <1>5, ObserversRead DEF ReadScripts
  <2> Adds({<<"scripts", f>>})
    BY <2>1, ReadsAdd
  <2>2. SnapshotTypeOK' /\ Ordered'
    BY <1>5, <2>1, ReadsAreOrdered DEF ReadScripts, Turn, Observers
  <2>3. Progress'
    BY <1>5, <2>1 DEF Adds, ReadScripts, Turn, Progress, Second, Later
  <2>4. FirstPass' /\ SecondPass'
    BY <1>5, <2>1, OtherReads DEF ReadScripts, Turn, Second, Of
  <2>5. GptMoment'
    BY <1>5, <2>1, Cell DEF Adds, ReadScripts, Turn, GptMoment, Has, Of, Progress
  <2>6. QED
    BY <2>2, <2>3, <2>4, <2>5
<1>6. CASE ReadScope
  <2>1. Of("scope", {Gpc}) \subseteq Facts /\ Reads(Of("scope", {Gpc}))
    BY <1>6, ObserversRead DEF ReadScope
  <2> Adds(Of("scope", {Gpc}))
    BY <2>1, ReadsAdd
  <2>2. SnapshotTypeOK' /\ Ordered'
    BY <1>6, <2>1, ReadsAreOrdered DEF ReadScope, Observers
  <2>3. Progress'
    BY <1>6, <2>1 DEF Adds, ReadScope, Progress, Second, Later
  <2>4. FirstPass' /\ SecondPass'
    BY <1>6, <2>1, OtherReads DEF ReadScope, Second, Of
  <2>5. GptMoment'
    BY <1>6, <2>1, Cell DEF Adds, ReadScope, GptMoment, Has, Of, Progress
  <2>6. QED
    BY <2>2, <2>3, <2>4, <2>5
<1>7. ASSUME NEW f \in Files, ListPath(f) PROVE SnapshotInv'
  <2>1. {<<"relpath", f>>} \subseteq Facts /\ Reads({<<"relpath", f>>})
    BY <1>7, ObserversRead DEF ListPath
  <2> Adds({<<"relpath", f>>})
    BY <2>1, ReadsAdd
  <2>2. SnapshotTypeOK' /\ Ordered'
    BY <1>7, <2>1, ReadsAreOrdered DEF ListPath, Turn, Observers
  <2>3. Progress'
    BY <1>7, <2>1 DEF Adds, ListPath, Turn, Progress, Second, Later
  <2>4. FirstPass' /\ SecondPass'
    BY <1>7, <2>1, OtherReads DEF ListPath, Turn, Second, Of
  <2>5. GptMoment'
    BY <1>7, <2>1, Cell DEF Adds, ListPath, Turn, GptMoment, Has, Of, Progress
  <2>6. QED
    BY <2>2, <2>3, <2>4, <2>5
<1>8. ASSUME NEW f \in Planned, ReadPlanned(f) PROVE SnapshotInv'
  <2>1. {<<"planned", f>>} \subseteq Facts /\ Reads({<<"planned", f>>})
    BY <1>8, ObserversRead DEF ReadPlanned
  <2> Adds({<<"planned", f>>})
    BY <2>1, ReadsAdd
  <2>2. SnapshotTypeOK' /\ Ordered'
    BY <1>8, <2>1, ReadsAreOrdered DEF ReadPlanned, Observers
  <2>3. Progress'
    BY <1>8, <2>1 DEF Adds, ReadPlanned, Progress, Second, Later
  <2>4. FirstPass' /\ SecondPass'
    BY <1>8, <2>1, OtherReads DEF ReadPlanned, Second, Of
  <2>5. GptMoment'
    BY <1>8, <2>1, Cell DEF Adds, ReadPlanned, GptMoment, Has, Of, Progress
  <2>6. QED
    BY <2>2, <2>3, <2>4, <2>5
<1>9. ASSUME NEW f \in Files, ListFile(f) PROVE SnapshotInv'
  <2>1. CASE Exists(f, surface[f])
    <3>1. {<<"bytes", f>>} \subseteq Facts /\ Reads({<<"bytes", f>>})
      BY <1>9, <2>1, ObserversRead DEF ListFile
    <3> Adds({<<"bytes", f>>})
      BY <3>1, ReadsAdd
    <3>2. SnapshotTypeOK' /\ Ordered'
      BY <1>9, <3>1, ReadsAreOrdered DEF ListFile, Turn, Observers
    <3>3. Progress'
      BY <1>9, <3>1 DEF Adds, ListFile, Turn, Progress, Second, Later
    <3>4. FirstPass' /\ SecondPass'
      BY <1>9, <2>1, <3>1, OtherReads DEF ListFile, Turn, Second
    <3>5. GptMoment'
      BY <1>9, <3>1, Cell DEF Adds, ListFile, Turn, GptMoment, Has, Of, Progress
    <3>6. QED
      BY <3>2, <3>3, <3>4, <3>5
  <2>2. CASE ~Exists(f, surface[f])
    <3> DEFINE facts == {<<"bytes", f>>, <<"sha256", f>>}
    <3>1. facts \subseteq Facts /\ Reads(facts)
      BY <1>9, <2>2, ObserversRead DEF ListFile
    <3> Adds(facts)
      BY <3>1, ReadsAdd
    <3>2. SnapshotTypeOK' /\ Ordered'
      BY <1>9, <3>1, ReadsAreOrdered DEF ListFile, Turn, Observers
    <3>3. Progress'
      BY <1>9, <3>1 DEF Adds, ListFile, Turn, Progress, Second, Later
    <3>4. /\ pc' \notin Second /\ pc \notin Second
          /\ <<"bytes", f>> \notin DOMAIN reading
          /\ <<"sha256", f>> \notin DOMAIN reading
      BY <1>9 DEF ListFile, Turn, Second, FirstPass, Has
    <3>5. /\ reading'[<<"bytes", f>>] = surface[f]
          /\ reading'[<<"sha256", f>>] = surface[f]
      BY <3>1, <3>4 DEF Adds
    <3>6. FirstPass'
      BY <3>1, <3>4, <3>5, <2>2 DEF Adds, FirstPass, Has
    <3>7. SecondPass'
      BY <3>1, <3>4 DEF Adds, SecondPass, Has
    <3>8. GptMoment'
      BY <1>9, <3>1, Cell DEF Adds, ListFile, Turn, GptMoment, Has, Of, Progress
    <3>9. QED
      BY <3>2, <3>3, <3>6, <3>7, <3>8
  <2>3. QED
    BY <2>1, <2>2
<1>10. ASSUME NEW f \in Files, HashFile(f) PROVE SnapshotInv'
  <2>1. {<<"sha256", f>>} \subseteq Facts /\ Reads({<<"sha256", f>>})
    BY <1>10, ObserversRead DEF HashFile
  <2> Adds({<<"sha256", f>>})
    BY <2>1, ReadsAdd
  <2>2. SnapshotTypeOK' /\ Ordered'
    BY <1>10, <2>1, ReadsAreOrdered DEF HashFile, Observers
  <2>3. Progress'
    BY <1>10, <2>1 DEF Adds, HashFile, Progress, Second, Later
  <2>4. FirstPass'
    <3>1. /\ pc' \notin Second /\ <<"bytes", f>> \in DOMAIN reading
          /\ <<"sha256", f>> \notin DOMAIN reading
      BY <1>10 DEF HashFile, Progress, Of, Has, Second
    <3>2. reading'[<<"sha256", f>>] = surface[f]
      BY <2>1, <3>1 DEF Adds
    <3>3. Exists(f, surface[f])
      BY <1>10 DEF HashFile
    <3>4. QED
      BY <2>1, <3>1, <3>2, <3>3 DEF Adds, FirstPass, Has
  <2>5. SecondPass'
    BY <1>10, <2>1 DEF Adds, HashFile, SecondPass, Has, Second
  <2>6. GptMoment'
    BY <1>10, <2>1, Cell DEF Adds, HashFile, GptMoment, Has, Of, Progress
  <2>7. QED
    BY <2>2, <2>3, <2>4, <2>5, <2>6
<1>11. CASE BeginSecondPass
  <2>1. SnapshotTypeOK' /\ Progress'
    BY <1>11 DEF BeginSecondPass, SnapshotTypeOK, Progress, Second, Later, Observers
  <2>2. Ordered'
    BY <1>11, SnapshotAssumption
    DEF BeginSecondPass, Ordered, SnapshotTypeOK, Surfaces, Versions, SnapshotAssumption
  <2>3. FirstPass'
    <3>1. \A f \in Files : Has(<<"sha256", f>>) => reading[<<"sha256", f>>] <= surface[f]
      BY DEF Ordered, Has
    <3>2. QED
      BY <1>11, <3>1 DEF BeginSecondPass, FirstPass, Has
  <2>4. SecondPass' /\ GptMoment'
    BY <1>11 DEF BeginSecondPass, SecondPass, GptMoment, Second, Has
  <2>5. QED
    BY <2>1, <2>2, <2>3, <2>4
<1>12. ASSUME NEW f \in Files, VisitFile(f) PROVE SnapshotInv'
  <2>1. {<<"again", f>>} \subseteq Facts /\ Reads({<<"again", f>>})
    BY <1>12, ObserversRead DEF VisitFile
  <2> Adds({<<"again", f>>})
    BY <2>1, ReadsAdd
  <2>2. SnapshotTypeOK' /\ Ordered'
    BY <1>12, <2>1, ReadsAreOrdered DEF VisitFile, Turn, Observers
  <2>3. Progress'
    BY <1>12, <2>1 DEF Adds, VisitFile, Turn, Progress, Second, Later
  <2>4. pc \in Second /\ pc' \in Second /\ mark' = mark
    BY <1>12 DEF VisitFile, Turn, Second
  <2>5. FirstPass'
    BY <2>1, <2>4 DEF Adds, FirstPass, Has
  <2>6. SecondPass'
    <3>1. <<"again", f>> \notin DOMAIN reading /\ mark[f] <= surface[f]
      BY <1>12 DEF VisitFile, Has, Ordered, Cells
    <3>2. reading'[<<"again", f>>] = surface[f]
      BY <2>1, <3>1 DEF Adds
    <3>3. QED
      BY <2>1, <2>4, <3>1, <3>2 DEF Adds, SecondPass, Has
  <2>7. GptMoment'
    BY <1>12 DEF VisitFile, Turn, GptMoment
  <2>8. QED
    BY <2>2, <2>3, <2>5, <2>6, <2>7
<1>13. CASE Complete
  <2>1. DOMAIN reading = Facts
    <3>1. \A f \in Of("version", {GptIni, Gpc}) : f \in DOMAIN reading
      BY <1>13 DEF Complete, Progress, Of
    <3>2. QED
      BY <1>13, <3>1 DEF Complete, Progress, SnapshotTypeOK, Second, Later, Facts
  <2>2. SnapshotTypeOK' /\ Progress'
    BY <1>13, <2>1 DEF Complete, SnapshotTypeOK, Progress, Second, Later, Observers
  <2>3. Ordered' /\ FirstPass' /\ SecondPass' /\ GptMoment'
    BY <1>13 DEF Complete, Ordered, FirstPass, SecondPass, GptMoment, Second, Has
  <2>4. QED
    BY <2>2, <2>3
<1>14. CASE Fails
  <2>1. DOMAIN reading' = {} /\ reading' \in [{} -> Versions]
    BY <1>14 DEF Fails, Nothing
  <2>2. SnapshotTypeOK'
    BY <1>14, <2>1 DEF Fails, SnapshotTypeOK
  <2>3. Ordered'
    BY <1>14, <2>1, SnapshotAssumption
    DEF Fails, Ordered, SnapshotTypeOK, Surfaces, Versions, SnapshotAssumption
  <2>4. Progress' /\ FirstPass' /\ SecondPass' /\ GptMoment'
    BY <1>14, <2>1 DEF Fails, Progress, FirstPass, SecondPass, GptMoment, Second, Later, Has
  <2>5. QED
    BY <2>2, <2>3, <2>4
<1>15. CASE UNCHANGED snapshotVars
  <2>1. SnapshotTypeOK' /\ Progress' /\ Ordered'
    BY <1>15 DEF snapshotVars, SnapshotTypeOK, Progress, Ordered
  <2>2. FirstPass' /\ SecondPass'
    BY <1>15 DEF snapshotVars, FirstPass, SecondPass, Has
  <2>3. GptMoment'
    BY <1>15 DEF snapshotVars, GptMoment, Has
  <2>4. QED
    BY <2>1, <2>2, <2>3
<1>16. QED
  BY <1>1, <1>2, <1>3, <1>4, <1>5, <1>6, <1>7, <1>8, <1>9, <1>10, <1>11, <1>12,
     <1>13, <1>14, <1>15 DEF SnapshotNext

LEMMA SnapshotInvHolds == SnapshotSpec => []SnapshotInv
<1>1. SnapshotInit => SnapshotInv
  <2> SUFFICES ASSUME SnapshotInit PROVE SnapshotInv
    OBVIOUS
  <2>1. DOMAIN reading = {} /\ reading \in [{} -> Versions]
    BY DEF SnapshotInit, Nothing
  <2>2. SnapshotTypeOK
    BY <2>1 DEF SnapshotInit, SnapshotTypeOK, Observers
  <2>3. Ordered
    BY <2>1 DEF SnapshotInit, Ordered
  <2>4. QED
    BY <2>1, <2>2, <2>3
    DEF SnapshotInit, SnapshotInv, Progress, FirstPass, SecondPass, GptMoment,
        Second, Later, Has
<1>2. QED
  BY <1>1, SnapshotInvStep, PTL DEF SnapshotSpec

\* The variables keep their types, and an observation that completes has every
\* fact: no observer of capture_snapshot or of the plan is skipped.
THEOREM SnapshotTypeCorrect == SnapshotSpec => []SnapshotTypeOK
<1>1. SnapshotInv => SnapshotTypeOK
  BY DEF SnapshotInv
<1>2. QED
  BY <1>1, SnapshotInvHolds, PTL

\* Equally many files in both passes, each of the first also in the second: the
\* passes list the same files.
LEMMA SameFiles ==
    ASSUME PassesMatch
    PROVE  \A f \in Files : PassTwo(f) = PassOne(f)
<1> DEFINE one == Listed(PassOne)
           two == Listed(PassTwo)
<1>1. IsFiniteSet(two)
  BY SnapshotAssumption, FS_Subset DEF SnapshotAssumption, Listed
<1>2. one \subseteq two
  BY DEF PassesMatch, Listed
<1>3. one = two
  BY <1>1, <1>2, FS_Subset DEF PassesMatch
<1>4. SUFFICES ASSUME NEW f \in Files PROVE PassTwo(f) = PassOne(f)
  OBVIOUS
<1>5. CASE f \in one
  BY <1>5 DEF PassesMatch
<1>6. CASE f \notin one
  BY <1>3, <1>6 DEF Listed
<1>7. QED
  BY <1>5, <1>6

\* Passes that match show the tree of one moment, for any number of files and
\* writes (psl.py, SYSVOL_TREE_FINGERPRINT).
THEOREM MatchedPassesShowOneMoment == SnapshotSpec => []MatchedPassesAreOneMoment
<1>1. SnapshotInv => MatchedPassesAreOneMoment
  <2> SUFFICES ASSUME SnapshotInv, pc \in Later, PassesMatch, NEW f \in Files
               PROVE  PassOne(f) = Entry(f, mark[f], mark[f])
    BY DEF MatchedPassesAreOneMoment, Later, Second
  <2> DEFINE b == reading[<<"bytes", f>>]
             s == reading[<<"sha256", f>>]
             a == reading[<<"again", f>>]
             m == mark[f]
  <2>1. Has(<<"bytes", f>>) /\ Has(<<"sha256", f>>) /\ Has(<<"again", f>>)
    BY DEF SnapshotInv, Progress, Later, Second, Of, Has
  <2>2. b \in Versions /\ s \in Versions /\ a \in Versions /\ m \in Versions
    BY <2>1 DEF SnapshotInv, SnapshotTypeOK, Has, Surfaces, Cells
  <2>3. s <= m /\ m <= a
    BY <2>1 DEF SnapshotInv, FirstPass, SecondPass, Later, Has
  <2>4. Entry(f, a, a) = Entry(f, b, s)
    BY SameFiles DEF PassOne, PassTwo
  <2>5. CASE Exists(f, b)
    <3>1. Exists(f, a) /\ Content[f][a] = Content[f][s] /\ Length[f][a] = Length[f][b]
      BY <2>4, <2>5 DEF Entry, Nothing
    <3>2. a = s
      BY <2>2, <3>1, ContentAssumption DEF ContentAssumption
    <3>3. m = a
      BY <2>2, <2>3, <3>2, SnapshotAssumption DEF Versions, SnapshotAssumption
    <3>4. QED
      BY <2>4, <3>3 DEF PassOne
  <2>6. CASE ~Exists(f, b)
    <3>1. s = b /\ ~Exists(f, a)
      BY <2>1, <2>4, <2>6 DEF SnapshotInv, FirstPass, Entry, Nothing
    <3>2. a = b
      BY <2>2, <2>6, <3>1, ContentAssumption DEF ContentAssumption, Exists
    <3>3. m = a
      BY <2>2, <2>3, <3>1, <3>2, SnapshotAssumption DEF Versions, SnapshotAssumption
    <3>4. QED
      BY <2>4, <3>3 DEF PassOne
  <2>7. QED
    BY <2>5, <2>6
<1>2. QED
  BY <1>1, SnapshotInvHolds, PTL

\* Taking a 32-bit version apart and putting it together again loses nothing
\* (version_packing.py).
LEMMA PackUnpack ==
    ASSUME NEW n \in Nat, Fits(n)
    PROVE  Pack(Unpack(n)) = n
<1>1. Base \in Nat /\ Base > 0
  BY SnapshotAssumption DEF Base, SnapshotAssumption
<1>2. n \div Base \in Nat /\ n \div Base < Base
  BY <1>1 DEF Fits
<1>3. (n \div Base) % Base = n \div Base
  BY <1>1, <1>2
<1>4. \A b \in Nat : b > 0 => n = b * (n \div b) + (n % b)
  OBVIOUS
<1>5. (n \div Base) * Base = Base * (n \div Base)
  BY <1>1, <1>2
<1>6. Pack(Unpack(n)) = (n \div Base) * Base + (n % Base)
  BY <1>3 DEF Pack, Unpack
<1>7. QED
  BY <1>1, <1>4, <1>5, <1>6

\* The version relations hold of one moment, for any number of writes and any
\* width of the version's halves.
THEOREM AgreeingVersionsShowOneMoment ==
    SnapshotSpec => []AgreeingVersionsAreOneMoment
<1>1. SnapshotInv => AgreeingVersionsAreOneMoment
  <2> SUFFICES ASSUME SnapshotInv, pc \in {"scripts", "list", "hash"}, VersionsAgree
               PROVE  VersionNumber[mark[Gpc]] = GptNumber[mark[GptIni]]
    BY DEF AgreeingVersionsAreOneMoment
  <2> DEFINE before == reading[<<"ad", Gpc>>]
             after  == reading[<<"version", Gpc>>]
             gpt    == GptNumber[mark[GptIni]]
  <2>1. before <= mark[Gpc] /\ mark[Gpc] <= after
    BY DEF SnapshotInv, GptMoment
  <2>2. reading[<<"version", GptIni>>] = mark[GptIni] /\ Fits(gpt)
    BY DEF SnapshotInv, GptMoment
  <2>3. /\ <<"ad", Gpc>> \in DOMAIN reading /\ <<"version", Gpc>> \in DOMAIN reading
    BY DEF SnapshotInv, Progress, Second, Of
  <2>4. /\ before \in Versions /\ after \in Versions
        /\ mark[Gpc] \in Versions /\ mark[GptIni] \in Versions
    BY <2>3, Cell DEF SnapshotInv, SnapshotTypeOK, Surfaces
  <2>5. /\ gpt \in Nat /\ VersionNumber[mark[Gpc]] \in Nat
        /\ VersionNumber[before] \in Nat /\ VersionNumber[after] \in Nat
    BY <2>4, SnapshotAssumption DEF SnapshotAssumption
  <2>6. VersionNumber[before] = gpt /\ VersionNumber[after] = gpt
    BY <2>2, <2>5, PackUnpack DEF VersionsAgree
  <2>7. /\ VersionNumber[before] <= VersionNumber[mark[Gpc]]
        /\ VersionNumber[mark[Gpc]] <= VersionNumber[after]
    BY <2>1, <2>4, NumberAssumption DEF NumberAssumption
  <2>8. QED
    BY <2>5, <2>6, <2>7
<1>2. QED
  BY <1>1, SnapshotInvHolds, PTL

---------------------------------------------------------------------------
\* A read is a read of the promised observation.
LEMMA ReadIsPromised ==
    ASSUME SnapshotTypeOK, NEW facts, facts \subseteq Facts, Reads(facts),
           surface' = surface
    PROVE  Promise!Read
<1>1. /\ Adds(facts) /\ DOMAIN reading' \subseteq Facts
      /\ reading' \in [DOMAIN reading' -> Versions]
  BY ReadsAdd
<1>2. \A f \in DOMAIN reading' :
          reading'[f] = IF f \in DOMAIN reading THEN reading[f] ELSE surface[Source[f]]
  BY <1>1 DEF Adds, Source
<1>3. reading' = [f \in DOMAIN reading' |->
                    IF f \in DOMAIN reading THEN reading[f] ELSE surface[Source[f]]]
  BY <1>1, <1>2
<1>4. QED
  BY <1>1, <1>3 DEF Adds, Promise!Read

\* The snapshot implements module Observation: what the poll loop takes for
\* granted holds for any tree and any fact plan.
THEOREM SnapshotImplementsObservation == SnapshotSpec => IsObservation
<1>1. SnapshotInit => Promise!ObservationInit
  BY DEF SnapshotInit, Promise!ObservationInit, Surfaces, Versions, Nothing,
         Promise!Nothing
<1>2. SnapshotInv /\ [SnapshotNext]_snapshotVars
        => [Promise!Change \/ Promise!Read \/ Promise!Begin]_(Promise!observationVars)
  <2> SUFFICES ASSUME SnapshotInv, [SnapshotNext]_snapshotVars
               PROVE  [Promise!Change \/ Promise!Read \/ Promise!Begin]_(Promise!observationVars)
    OBVIOUS
  <2> SnapshotTypeOK
    BY DEF SnapshotInv
  <2>1. CASE SurfaceChanges
    BY <2>1 DEF SurfaceChanges, Promise!Change
  <2>2. CASE ReadAd
    BY <2>2, ReadIsPromised, ObserversRead DEF ReadAd
  <2>3. CASE ReadGptIni
    BY <2>3, ReadIsPromised, ObserversRead DEF ReadGptIni
  <2>4. CASE ReadAdVersion
    BY <2>4, ReadIsPromised, ObserversRead DEF ReadAdVersion
  <2>5. ASSUME NEW f \in ScriptsFiles, ReadScripts(f) PROVE Promise!Read
    BY <2>5, ReadIsPromised, ObserversRead DEF ReadScripts
  <2>6. ASSUME NEW f \in Files, ListFile(f) PROVE Promise!Read
    BY <2>6, ReadIsPromised, ObserversRead DEF ListFile
  <2>7. ASSUME NEW f \in Files, HashFile(f) PROVE Promise!Read
    BY <2>7, ReadIsPromised, ObserversRead DEF HashFile
  <2>8. ASSUME NEW f \in Files, VisitFile(f) PROVE Promise!Read
    BY <2>8, ReadIsPromised, ObserversRead DEF VisitFile
  <2>9. ASSUME NEW f \in Files, ListPath(f) PROVE Promise!Read
    BY <2>9, ReadIsPromised, ObserversRead DEF ListPath
  <2>10. CASE ReadScope
    BY <2>10, ReadIsPromised, ObserversRead DEF ReadScope
  <2>11. ASSUME NEW f \in Planned, ReadPlanned(f) PROVE Promise!Read
    BY <2>11, ReadIsPromised, ObserversRead DEF ReadPlanned
  <2>12. CASE BeginSecondPass \/ Complete
    BY <2>12 DEF BeginSecondPass, Complete, Promise!observationVars
  <2>13. CASE Fails
    BY <2>13 DEF Fails, Promise!Begin, Nothing, Promise!Nothing
  <2>14. CASE UNCHANGED snapshotVars
    BY <2>14 DEF snapshotVars, Promise!observationVars
  <2>15. QED
    BY <2>1, <2>2, <2>3, <2>4, <2>5, <2>6, <2>7, <2>8, <2>9, <2>10, <2>11, <2>12,
       <2>13, <2>14 DEF SnapshotNext
<1>3. QED
  BY <1>1, <1>2, SnapshotInvHolds, PTL
  DEF SnapshotSpec, IsObservation, Promise!ObservationSpec

=============================================================================
