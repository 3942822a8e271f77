------------------------- MODULE Composition_proofs -------------------------
(***************************************************************************)
(* Proofs about Composition for every value of its constants: the type     *)
(* invariant, and that ComputeStatus passes to the status template only    *)
(* objects of named sources entries that exist in the target cluster.      *)
(***************************************************************************)
EXTENDS Composition, TLAPS

USE CompositionAssumption

-----------------------------------------------------------------------------
(* Type correctness.                                                       *)

(* The file ComputeStatus picks from a non-empty list of rendered files is *)
(* one of them.                                                            *)
LEMMA PickFileType ==
    ASSUME NEW fs \in FileLists, fs # << >>, NEW name
    PROVE  PickFile(fs, name) \in FileNames
<1>1. PICK n \in 0..MaxFiles : fs \in [1..n -> FileNames]
    BY DEF FileLists
<1>2. n # 0
    BY <1>1
<1>3. fs[1] \in FileNames
    BY <1>1, <1>2
<1>4. name \in SeqRange(fs) => name \in FileNames
    BY <1>1 DEF SeqRange
<1>5. QED
    BY <1>3, <1>4 DEF PickFile

(* The files of a rendered list are file names.                            *)
LEMMA SeqRangeType ==
    ASSUME NEW fs \in FileLists
    PROVE  SeqRange(fs) \subseteq FileNames
<1>1. PICK n \in 0..MaxFiles : fs \in [1..n -> FileNames]
    BY DEF FileLists
<1>2. QED
    BY <1>1 DEF SeqRange

LEMMA EmptyFileList == << >> \in FileLists
BY DEF FileLists

LEMMA InitTypeOK == Init => TypeOK
<1> SUFFICES ASSUME Init PROVE TypeOK
    OBVIOUS
<1>1. files \in FileLists
    BY EmptyFileList DEF Init
<1>2. stage \in {"action", "sources", "status"}
    BY DEF Init
<1>3. QED
    BY <1>1, <1>2 DEF Init, TypeOK, Errors

LEMMA NextTypeOK == TypeOK /\ [Next]_vars => TypeOK'
<1> SUFFICES ASSUME TypeOK, [Next]_vars PROVE TypeOK'
    OBVIOUS
<1> USE DEF TypeOK, Fail
<1>1. CASE FetchResources
    <2>1. CASE /\ instance' = ("instance" \in given)
               /\ catalog' = ("catalog" \in given)
               /\ binding' = ("binding" \in given)
               /\ pc' = "resolve"
               /\ UNCHANGED <<result, err>>
        BY <1>1, <2>1 DEF FetchResources
    <2>2. ASSUME NEW id \in given, NEW e \in Errors, Fail(e),
                 UNCHANGED <<instance, binding, catalog>>
          PROVE  TypeOK'
        BY <1>1, <2>2 DEF FetchResources
    <2>3. QED
        BY <1>1, <2>1, <2>2 DEF FetchResources
<1>2. CASE ResolveTarget
    BY <1>2 DEF ResolveTarget, Errors
<1>3. CASE SelectRenderer
    BY <1>3 DEF SelectRenderer, Errors
<1>4. CASE Render
    BY <1>4 DEF Render, Errors
<1>5. CASE ListFiles
    <2> DEFINE Frame == UNCHANGED <<op, action, given, templates, live, stage,
                                   instance, binding, catalog, resources, named,
                                   sourceObjects>>
    <2>0. Frame /\ pc = "list"
        BY <1>5 DEF ListFiles
    <2>1. CASE Fail("ListError") /\ UNCHANGED <<files, todo, file>>
        BY <2>0, <2>1 DEF Errors
    <2>2. CASE \E fs \in FileLists :
                 /\ files' = fs
                 /\ \/ /\ stage = "action"
                       /\ todo' = SeqRange(fs)
                       /\ pc' = "parse"
                       /\ UNCHANGED <<result, err, file>>
                    \/ /\ stage # "action" /\ fs = << >>
                       /\ pc' = "done"
                       /\ UNCHANGED <<result, err, todo, file>>
                    \/ /\ stage # "action" /\ fs # << >>
                       /\ file' = PickFile(fs, IF stage = "sources"
                                               THEN "sources.yaml" ELSE "status.yaml")
                       /\ pc' = IF stage = "sources" THEN "parseSources" ELSE "parseStatus"
                       /\ UNCHANGED <<result, err, todo>>
        <3>1. PICK fs \in FileLists :
                 /\ files' = fs
                 /\ \/ /\ stage = "action"
                       /\ todo' = SeqRange(fs)
                       /\ pc' = "parse"
                       /\ UNCHANGED <<result, err, file>>
                    \/ /\ stage # "action" /\ fs = << >>
                       /\ pc' = "done"
                       /\ UNCHANGED <<result, err, todo, file>>
                    \/ /\ stage # "action" /\ fs # << >>
                       /\ file' = PickFile(fs, IF stage = "sources"
                                               THEN "sources.yaml" ELSE "status.yaml")
                       /\ pc' = IF stage = "sources" THEN "parseSources" ELSE "parseStatus"
                       /\ UNCHANGED <<result, err, todo>>
            BY <2>2
        <3>2. SeqRange(fs) \subseteq FileNames
            BY SeqRangeType
        <3>3. fs # << >> => PickFile(fs, IF stage = "sources"
                                        THEN "sources.yaml" ELSE "status.yaml") \in FileNames
            BY PickFileType
        <3>4. QED
            BY <2>0, <3>1, <3>2, <3>3
    <2>3. QED
        BY <1>5, <2>1, <2>2 DEF ListFiles
<1>6. ASSUME NEW f \in FileNames, ParseFile(f) PROVE TypeOK'
    BY <1>6 DEF ParseFile, Errors
<1>7. CASE ExpectedDone
    BY <1>7 DEF ExpectedDone
<1>8. CASE ParseSources
    BY <1>8 DEF ParseSources, Errors
<1>9. ASSUME NEW k \in SourceKeys, FetchSource(k) PROVE TypeOK'
    BY <1>9 DEF FetchSource
<1>10. CASE SourcesFetched
    BY <1>10 DEF SourcesFetched
<1>11. CASE ParseStatus
    BY <1>11 DEF ParseStatus, Errors
<1>12. CASE Returned
    BY <1>12 DEF Returned, vars
<1>13. CASE UNCHANGED vars
    BY <1>13 DEF vars
<1>14. QED
    BY <1>1, <1>2, <1>3, <1>4, <1>5, <1>6, <1>7, <1>8, <1>9, <1>10, <1>11,
       <1>12, <1>13 DEF Next

(* Every reachable state of Composition is well typed.                     *)
THEOREM TypeCorrect == Spec => []TypeOK
BY InitTypeOK, NextTypeOK, PTL DEF Spec

-----------------------------------------------------------------------------
(* The result contract of ComputeExpectedResources.  It is not inductive   *)
(* by itself: a step to "done" must start from the untouched pair (nil,    *)
(* nil error), and ComputeExpectedResources must never reach the branch of *)
(* ListFiles that returns (nil, nil), which only the sources and status    *)
(* stages of ComputeStatus take.                                           *)
ResultPending ==
    /\ pc # "done" => result = "nil" /\ err = "none"
    /\ op = "expected" => stage = "action"
    /\ pc \in {"parseSources", "fetchSources"} => stage = "sources"
    /\ ExpectedResultContract

(* Every early return of the code carries an error other than nil.         *)
LEMMA FailSetsError ==
    ASSUME NEW e, e # "none", Fail(e)
    PROVE  pc' = "done" /\ (result' = "nil") # (err' = "none")
BY DEF Fail

LEMMA InitResultPending == Init => ResultPending
BY DEF Init, ResultPending, ExpectedResultContract, ResultContract

LEMMA NextResultPending ==
    TypeOK /\ ResultPending /\ [Next]_vars => ResultPending'
<1> SUFFICES ASSUME TypeOK, ResultPending, [Next]_vars
             PROVE  ResultPending'
    OBVIOUS
<1> USE DEF ResultPending, ExpectedResultContract, ResultContract
<1>1. CASE FetchResources
    <2>1. ASSUME NEW id \in given, NEW e \in Errors,
                 e \in NotFoundError(id) \cup {"TransportError"}
          PROVE  e # "none"
        <3>1. id \in {"instance", "binding", "catalog"}
            BY DEF TypeOK
        <3>2. QED
            BY <2>1, <3>1 DEF NotFoundError
    <2>2. QED
        BY <1>1, <2>1, FailSetsError DEF FetchResources
<1>2. CASE ResolveTarget
    BY <1>2, FailSetsError DEF ResolveTarget
<1>3. CASE SelectRenderer
    BY <1>3, FailSetsError DEF SelectRenderer
<1>4. CASE Render
    BY <1>4, FailSetsError DEF Render
<1>5. CASE ListFiles
    BY <1>5, FailSetsError DEF ListFiles
<1>6. ASSUME NEW f \in FileNames, ParseFile(f) PROVE ResultPending'
    BY <1>6, FailSetsError DEF ParseFile
<1>7. CASE ExpectedDone
    BY <1>7 DEF ExpectedDone
<1>8. CASE ParseSources
    BY <1>8, FailSetsError DEF ParseSources
<1>9. ASSUME NEW k \in SourceKeys, FetchSource(k) PROVE ResultPending'
    BY <1>9 DEF FetchSource
<1>10. CASE SourcesFetched
    BY <1>10 DEF SourcesFetched
<1>11. CASE ParseStatus
    BY <1>11, FailSetsError DEF ParseStatus
<1>12. CASE Returned
    BY <1>12 DEF Returned, vars
<1>13. CASE UNCHANGED vars
    BY <1>13 DEF vars
<1>14. QED
    BY <1>1, <1>2, <1>3, <1>4, <1>5, <1>6, <1>7, <1>8, <1>9, <1>10, <1>11,
       <1>12, <1>13 DEF Next

(* Every return of ComputeExpectedResources carries exactly one of a       *)
(* resource list and an error, for every plan, every combination of IDs,   *)
(* every render outcome and any number of rendered files.                  *)
THEOREM ExpectedResultContractInvariant == Spec => []ExpectedResultContract
<1>1. Init => TypeOK /\ ResultPending
    BY InitTypeOK, InitResultPending
<1>2. TypeOK /\ ResultPending /\ [Next]_vars => TypeOK' /\ ResultPending'
    BY NextTypeOK, NextResultPending
<1>3. ResultPending => ExpectedResultContract
    BY DEF ResultPending
<1>4. QED
    BY <1>1, <1>2, <1>3, PTL DEF Spec
=============================================================================
