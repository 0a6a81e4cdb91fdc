---------------------------- MODULE GpoSnapshot ----------------------------
(***************************************************************************)
(* One observation of a group policy object: capture_snapshot of           *)
(* src/src/gpo_observers/snapshots.py with the guest scripts of psl.py,    *)
(* and the observers of single files that the fact plan may add            *)
(* (exec_transaction.py).  The observers run one after the other; the      *)
(* directory object is read three times and SYSVOL is walked three times   *)
(* while both go on changing.  A cell is the directory object or a file;   *)
(* its versions are numbered in the order they were written.               *)
(***************************************************************************)
EXTENDS Naturals, FiniteSets

CONSTANTS Files,         \* paths below the GPO's SYSVOL directory
          GptIni,        \* GPT.INI
          ScriptsFiles,  \* scripts.ini, psscripts.ini of both sides
          SystemFiles,   \* SYSTEM_FILE_RELPATHS
          Planned,       \* files the fact plan has an observer of its own for
          MaxVersion,
          Content,       \* of each file at each version, or Missing
          Length,        \* its length in bytes
          VersionNumber, \* versionNumber of the directory object, by version
          GptNumber,     \* Version of GPT.INI, by version
          HalfMask       \* 16 bits

Gpc      == "gpc"
Missing  == "missing"
Cells    == Files \cup {Gpc}
Versions == 0..MaxVersion
Surfaces == [Cells -> Versions]

\* A fact is named by the observer that reads it and the cell it reads.
Of(observer, cells) == {<<observer, c>> : c \in cells}

Facts == Of("ad", {Gpc}) \cup Of("version", {GptIni, Gpc})
           \cup Of("scripts", ScriptsFiles) \cup Of("bytes", Files)
           \cup Of("sha256", Files) \cup Of("again", Files)
           \cup Of("scope", {Gpc}) \cup Of("relpath", Files)
           \cup Of("planned", Planned)

Source == [f \in Facts |-> f[2]]

ASSUME SnapshotAssumption ==
    /\ IsFiniteSet(Files) /\ Gpc \notin Files
    /\ GptIni \in Files
    /\ ScriptsFiles \subseteq SystemFiles /\ ScriptsFiles # {}
    /\ SystemFiles \subseteq Files /\ Planned \subseteq Files
    /\ MaxVersion \in Nat /\ HalfMask \in Nat
    /\ VersionNumber \in [Versions -> Nat] /\ GptNumber \in [Versions -> Nat]

\* Two versions of a file differ in content, and it is absent in at most one:
\* a file that is written does not return to what it was.
ASSUME ContentAssumption ==
    /\ DOMAIN Content = Files /\ DOMAIN Length = Files
    /\ \A f \in Files : \A v, w \in Versions :
          Content[f][v] = Content[f][w] => v = w

\* A later write does not take back versionNumber.
ASSUME NumberAssumption ==
    \A v, w \in Versions : v <= w => VersionNumber[v] <= VersionNumber[w]

VARIABLES
    surface,    \* the version each cell has now
    reading,    \* what has been read so far
    pc,         \* the observer at work, "done" or "raised"
    mark        \* ghost: the surface when GPT.INI was read; from the second
                \* pass on, the surface when that pass began

snapshotVars == <<surface, reading, pc, mark>>

Nothing == <<>>

Exists(f, v) == Content[f][v] # Missing

Has(fact) == fact \in DOMAIN reading

\* A read takes what is there at this moment.
Reads(facts) ==
    reading' = [f \in DOMAIN reading \cup facts |->
                   IF f \in DOMAIN reading THEN reading[f] ELSE surface[f[2]]]

\* The next observer's turn comes when all of these have been read.
Turn(facts, next) == pc' = IF facts \subseteq DOMAIN reading' THEN next ELSE pc

SnapshotInit ==
    /\ surface \in {s \in Surfaces : \A c \in Cells : s[c] = 0}
    /\ reading = Nothing /\ pc = "ad" /\ mark = surface

SurfaceChanges ==
    /\ pc \notin {"done", "raised"}
    /\ \E c \in Cells :
          surface[c] < MaxVersion /\ surface' = [surface EXCEPT ![c] = @ + 1]
    /\ UNCHANGED <<reading, pc, mark>>

---------------------------------------------------------------------------
\* version_values: Version is one 32-bit field of two 16-bit halves.

Base == HalfMask + 1

Unpack(n) == [machine |-> n % Base, user |-> (n \div Base) % Base]

Pack(halves) == halves.user * Base + halves.machine

Fits(n) == n < Base * Base

---------------------------------------------------------------------------
\* The observers, in the order capture_snapshot calls them.

\* Mutant: the observer of the version values asks the directory first, so
\* that both its numbers are from before GPT.INI is read.
ReadAdTwice ==
    /\ pc = "ad" /\ pc' = "gpt"
    /\ Reads(Of("ad", {Gpc}) \cup Of("version", {Gpc}))
    /\ UNCHANGED <<surface, mark>>

ReadAd ==
    /\ pc = "ad" /\ pc' = "gpt"
    /\ Reads(Of("ad", {Gpc}))
    /\ UNCHANGED <<surface, mark>>

\* GPT.INI has to be there and its Version has to fit.
ReadGptIni ==
    /\ pc = "gpt" /\ pc' = "gptAd"
    /\ Exists(GptIni, surface[GptIni]) /\ Fits(GptNumber[surface[GptIni]])
    /\ Reads(Of("version", {GptIni}))
    /\ mark' = surface
    /\ UNCHANGED surface

ReadAdVersion ==
    /\ pc = "gptAd" /\ pc' = "scripts"
    /\ Reads(Of("version", {Gpc}))
    /\ UNCHANGED <<surface, mark>>

ReadScripts(f) ==
    /\ pc = "scripts" /\ ~Has(<<"scripts", f>>)
    /\ Reads({<<"scripts", f>>})
    /\ Turn(Of("scripts", ScriptsFiles), "list")
    /\ UNCHANGED <<surface, mark>>

\* The first pass lists the tree, with the lengths, before it reads a file.
ListFile(f) ==
    /\ pc = "list" /\ ~Has(<<"bytes", f>>)
    /\ \/ Exists(f, surface[f]) /\ Reads({<<"bytes", f>>})
       \/ ~Exists(f, surface[f]) /\ Reads({<<"bytes", f>>, <<"sha256", f>>})
    /\ Turn(Of("bytes", Files), "hash")
    /\ UNCHANGED <<surface, mark>>

\* A listed file that is gone by now fails the observation.
HashFile(f) ==
    /\ pc = "hash" /\ ~Has(<<"sha256", f>>)
    /\ Exists(f, surface[f])
    /\ Reads({<<"sha256", f>>})
    /\ UNCHANGED <<surface, pc, mark>>

BeginSecondPass ==
    /\ pc = "hash" /\ Of("sha256", Files) \subseteq DOMAIN reading
    /\ pc' = "second" /\ mark' = surface
    /\ UNCHANGED <<surface, reading>>

\* The second pass reads each file as it comes to it.
VisitFile(f) ==
    /\ pc = "second" /\ ~Has(<<"again", f>>)
    /\ Reads({<<"again", f>>})
    /\ Turn(Of("again", Files), "scope")
    /\ UNCHANGED <<surface, mark>>

\* Mutant: the third read of the directory is saved.
ReadScopeFromAd ==
    /\ pc = "scope" /\ pc' = "paths"
    /\ reading' = [f \in DOMAIN reading \cup Of("scope", {Gpc}) |->
                     IF f \in DOMAIN reading THEN reading[f]
                                            ELSE reading[<<"ad", Gpc>>]]
    /\ UNCHANGED <<surface, mark>>

ReadScope ==
    /\ pc = "scope" /\ pc' = "paths"
    /\ Reads(Of("scope", {Gpc}))
    /\ UNCHANGED <<surface, mark>>

ListPath(f) ==
    /\ pc = "paths" /\ ~Has(<<"relpath", f>>)
    /\ Reads({<<"relpath", f>>})
    /\ Turn(Of("relpath", Files), "planned")
    /\ UNCHANGED <<surface, mark>>

\* The fact plan's own observers, one file each.
ReadPlanned(f) ==
    /\ pc = "planned" /\ ~Has(<<"planned", f>>)
    /\ Reads({<<"planned", f>>})
    /\ UNCHANGED <<surface, pc, mark>>

Complete ==
    /\ pc = "planned" /\ Of("planned", Planned) \subseteq DOMAIN reading
    /\ pc' = "done"
    /\ UNCHANGED <<surface, reading, mark>>

\* Any call may fail, and what it returns may be refused: nothing of what was
\* read is handed on.
Fails ==
    /\ pc \notin {"done", "raised"} /\ pc' = "raised"
    /\ reading' = Nothing /\ mark' = surface
    /\ UNCHANGED surface

SnapshotNext ==
    \/ SurfaceChanges
    \/ ReadAd \/ ReadGptIni \/ ReadAdVersion
    \/ \E f \in ScriptsFiles : ReadScripts(f)
    \/ \E f \in Files : ListFile(f) \/ HashFile(f) \/ VisitFile(f) \/ ListPath(f)
    \/ BeginSecondPass \/ ReadScope
    \/ \E f \in Planned : ReadPlanned(f)
    \/ Complete \/ Fails

SnapshotSpec == SnapshotInit /\ [][SnapshotNext]_snapshotVars

---------------------------------------------------------------------------
\* What the observation reports.

\* An entry of a pass: nothing, or content and length.
Entry(f, listed, read) ==
    IF Exists(f, listed) THEN <<Content[f][read], Length[f][listed]>> ELSE Nothing

PassOne(f) == Entry(f, reading[<<"bytes", f>>], reading[<<"sha256", f>>])
PassTwo(f) == Entry(f, reading[<<"again", f>>], reading[<<"again", f>>])

Listed(Pass(_)) == {f \in Files : Pass(f) # Nothing}

\* Mutant: the counts are not compared.
PassesMatchUncounted == \A f \in Listed(PassOne) : PassTwo(f) = PassOne(f)

PassesMatch ==
    /\ Cardinality(Listed(PassOne)) = Cardinality(Listed(PassTwo))
    /\ \A f \in Listed(PassOne) : PassTwo(f) = PassOne(f)

\* ad.versionNumber and version.ad_versionNumber both equal to version.user and
\* version.machine put together, as the capabilities require.
VersionsAgree ==
    LET packed == Pack(Unpack(GptNumber[reading[<<"version", GptIni>>]]))
    IN  /\ VersionNumber[reading[<<"ad", Gpc>>]] = packed
        /\ VersionNumber[reading[<<"version", Gpc>>]] = packed

---------------------------------------------------------------------------
Observers == {"ad", "gpt", "gptAd", "scripts", "list", "hash", "second", "scope",
              "paths", "planned"}

\* Type invariant; a completed observation has every fact.
SnapshotTypeOK ==
    /\ surface \in Surfaces /\ mark \in Surfaces
    /\ pc \in Observers \cup {"done", "raised"}
    /\ DOMAIN reading \subseteq Facts /\ reading \in [DOMAIN reading -> Versions]
    /\ pc = "done" => DOMAIN reading = Facts

\* sysvol.passes_match, which capabilities require: when the two passes agree,
\* the listing of the first is the tree as it was at one moment, as the second
\* pass began, although a pass lists and reads file after file and takes the
\* length of a file before its content (ContentAssumption).
MatchedPassesAreOneMoment ==
    pc \in {"scope", "paths", "planned", "done"} /\ PassesMatch =>
        \A f \in Files : PassOne(f) = Entry(f, mark[f], mark[f])

\* The version relations the capabilities derive: when the numbers read agree,
\* directory and SYSVOL did agree at the moment GPT.INI was read, although the
\* directory was asked before and after it.
AgreeingVersionsAreOneMoment ==
    pc \in {"scripts", "list", "hash"} /\ VersionsAgree =>
        VersionNumber[mark[Gpc]] = GptNumber[mark[GptIni]]

\* The snapshot is an observation as the poll loop of module Converge takes it
\* for granted.
Promise == INSTANCE Observation WITH settles <- TRUE

IsObservation == Promise!ObservationSpec

=============================================================================
