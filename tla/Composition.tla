---------------------------- MODULE Composition ----------------------------
(***************************************************************************)
(* One call of ComputeExpectedResources or ComputeStatus of the resource   *)
(* manager (resources.go), with fetchResources, SFPlan.GetTemplate and the *)
(* renderer factory (factory.go).  Every remote call (a Get on the source  *)
(* or target cluster, a render, a file read, a parse) is one step whose    *)
(* outcome is chosen by the environment; every early return of the code   *)
(* is a step to pc = "done" with the value pair the code returns.  Data is *)
(* abstracted: a rendered file stands for the documents parsed from it, a  *)
(* sources entry for the object it names.                                  *)
(***************************************************************************)
EXTENDS Naturals, Sequences, FiniteSets

CONSTANTS
    Operations,   \* the entry points called: "expected" and/or "status"
    CallerIDs,    \* which of instanceID, bindingID, serviceID+planID a caller sets
    TypeNames,    \* the template type strings a plan may declare
    FileNames,    \* the names of rendered files
    SourceKeys,   \* the logical names of a rendered sources file
    MaxFiles,     \* the most files one render produces
    Spelled       \* the renderer each type name spells, ignoring case

ASSUME CompositionAssumption ==
    /\ Operations \subseteq {"expected", "status"}
    /\ CallerIDs \subseteq SUBSET {"instance", "binding", "catalog"}
    /\ MaxFiles \in Nat
    /\ Spelled \in [TypeNames -> {"helm", "gotemplate", "other"}]

VARIABLES
    op, action, given,           \* the call and its arguments
    templates, live,             \* the plan's templates, the target cluster
    pc, stage,                   \* where the call is
    instance, binding, catalog,  \* fetched objects (TRUE = non-nil)
    files, todo, resources,      \* the current render's files, loop state
    named, sourceObjects, file,  \* ComputeStatus locals
    result, err                  \* the returned pair

vars == <<op, action, given, templates, live, pc, stage, instance, binding,
          catalog, files, todo, resources, named, sourceObjects, file,
          result, err>>

-----------------------------------------------------------------------------
(* The actions a template may be declared for (sfplan_types.go 27-32 and *)
(* the status action), and the absence of one.                            *)
TemplateActions == {"provision", "bind", "sources", "status"}
NoTemplate == "none"

(* A render yields a list of distinct file names.                          *)
FileLists == {s \in UNION {[1..n -> FileNames] : n \in 0..MaxFiles} :
                 \A i, j \in DOMAIN s : i # j => s[i] # s[j]}

SeqRange(s) == {s[i] : i \in DOMAIN s}

(* factory.go GetRenderer: an exact match against the listed spellings.    *)
HelmNames == {"helm", "Helm", "HELM"}
GoTemplateNames == {"gotemplate", "Gotemplate", "GoTemplate", "GOTEMPLATE"}
GetRenderer(t) ==
    IF t \in HelmNames THEN "helm"
    ELSE IF t \in GoTemplateNames THEN "gotemplate"
    ELSE "NotImplemented"

(* factory.go GetRendererInput / GetPropertiesRendererInput: the same      *)
(* switch on the template type, after serialising the non-nil entities.   *)
GetRendererInput(t) ==
    IF t \in HelmNames \cup GoTemplateNames THEN "input" ELSE "NotImplemented"

(* The template a stage renders: the call's action, then sources, status.  *)
StageAction(s) == IF s = "action" THEN action ELSE s

(* ComputeStatus 356-362 and 435-441: the file of that name if rendered,   *)
(* else the first file.                                                    *)
PickFile(fs, name) == IF name \in SeqRange(fs) THEN name ELSE fs[1]

(* An early return with an error.                                          *)
Fail(e) == /\ pc' = "done" /\ err' = e /\ result' = "nil"

Errors == {"none", "InstanceNotFound", "BindingNotFound", "ServiceNotFound",
           "PlanNotFound", "TemplateNotFound", "NotImplemented", "RenderError",
           "ListError", "ContentError", "ParseError", "TransportError",
           "RendererError", "ConvertError"}

TypeOK ==
    /\ op \in Operations
    /\ action \in {"provision", "bind"}
    /\ given \in CallerIDs
    /\ templates \in [TemplateActions -> TypeNames \cup {NoTemplate}]
    /\ live \subseteq SourceKeys
    /\ pc \in {"fetch", "resolve", "template", "render", "list", "parse",
               "parseSources", "fetchSources", "parseStatus", "done", "panic"}
    /\ stage \in {"action", "sources", "status"}
    /\ instance \in BOOLEAN /\ binding \in BOOLEAN /\ catalog \in BOOLEAN
    /\ files \in FileLists /\ file \in FileNames \cup {"none"}
    /\ todo \subseteq FileNames \cup SourceKeys
    /\ resources \subseteq FileNames
    /\ named \subseteq SourceKeys /\ sourceObjects \subseteq SourceKeys
    /\ result \in {"nil", "value"} /\ err \in Errors

Init ==
    /\ op \in Operations
    /\ action \in {"provision", "bind"}
    /\ given \in CallerIDs
    /\ templates \in [TemplateActions -> TypeNames \cup {NoTemplate}]
    /\ live \in SUBSET SourceKeys
    /\ pc = "fetch" /\ stage = IF op = "expected" THEN "action" ELSE "sources"
    /\ instance = FALSE /\ binding = FALSE /\ catalog = FALSE
    /\ files = << >> /\ todo = {} /\ resources = {}
    /\ named = {} /\ sourceObjects = {} /\ file = "none"
    /\ result = "nil" /\ err = "none"

-----------------------------------------------------------------------------
(* fetchResources 47-97: Get the instance (if instanceID is set), find the  *)
(* service and plan (if serviceID and planID are set; FindServiceInfo is    *)
(* not under src/), Get the binding (if bindingID is set).  The first Get  *)
(* that fails returns its error, a typed not-found error for a missing     *)
(* instance or binding.                                                    *)
NotFoundError(id) ==
    CASE id = "instance" -> {"InstanceNotFound"}
      [] id = "binding"  -> {"BindingNotFound"}
      [] id = "catalog"  -> {"ServiceNotFound", "PlanNotFound"}

FetchResources ==
    /\ pc = "fetch"
    /\ \/ /\ instance' = ("instance" \in given)
          /\ catalog' = ("catalog" \in given)
          /\ binding' = ("binding" \in given)
          /\ pc' = "resolve"
          /\ UNCHANGED <<result, err>>
       \/ \E id \in given, e \in Errors :
            /\ e \in NotFoundError(id) \cup {"TransportError"}
            /\ Fail(e)
            /\ UNCHANGED <<instance, binding, catalog>>
    /\ UNCHANGED <<op, action, given, templates, live, stage, files, todo,
                   resources, named, sourceObjects, file>>

(* ComputeExpectedResources 107-123, ComputeStatus 299-315: a nil plan or  *)
(* service is a not-found error (FindServiceInfo returns both or an error, *)
(* so a nil service never follows a non-nil plan); the target name is      *)
(* instance.GetName(), then binding.GetName() for the bind action, each a  *)
(* nil dereference when that object was not fetched.                        *)
ResolveTargetNilError ==
    /\ pc = "resolve"
    /\ \/ /\ ~catalog
          /\ pc' = "done" /\ result' = "nil" /\ UNCHANGED err
       \/ /\ catalog /\ instance
          /\ action = "bind" => binding
          /\ pc' = "template"
          /\ UNCHANGED <<result, err>>
    /\ UNCHANGED <<op, action, given, templates, live, stage, instance, binding,
                   catalog, files, todo, resources, named, sourceObjects, file>>

ResolveTarget ==
    /\ pc = "resolve"
    /\ \/ /\ ~catalog
          /\ Fail("PlanNotFound")
       \/ /\ catalog
          /\ \/ ~instance
             \/ action = "bind" /\ ~binding
          /\ pc' = "panic"
          /\ UNCHANGED <<result, err>>
       \/ /\ catalog /\ instance
          /\ action = "bind" => binding
          /\ pc' = "template"
          /\ UNCHANGED <<result, err>>
    /\ UNCHANGED <<op, action, given, templates, live, stage, instance, binding,
                   catalog, files, todo, resources, named, sourceObjects, file>>

(* SFPlan.GetTemplate (sfplan_types.go 118-125): the first template of the *)
(* action; a plan holds at most one per action in this model.              *)
GetTemplate(a) == templates[a]

(* GetTemplate of the stage's action, then GetRenderer and the renderer   *)
(* input on its type (125-141, 317-333, 396-412).  helm.New (factory.go   *)
(* 21, renderer.go 62-77) may fail to build its client or to read the     *)
(* server version; GetRendererInput (factory.go 34-64), used for the      *)
(* action and sources templates, may fail to convert a fetched entity;    *)
(* the status template's input is built from the sources map only.       *)
SelectRenderer ==
    /\ pc = "template"
    /\ LET t == GetTemplate(StageAction(stage)) IN
         CASE t = NoTemplate -> Fail("TemplateNotFound")
           [] GetRenderer(t) = "NotImplemented" -> Fail("NotImplemented")
           [] OTHER ->
                \/ GetRenderer(t) = "helm" /\ Fail("RendererError")
                \/ stage \in {"action", "sources"} /\ Fail("ConvertError")
                \/ GetRendererInput(t) = "NotImplemented" /\ Fail("NotImplemented")
                \/ /\ GetRendererInput(t) # "NotImplemented"
                   /\ pc' = "render" /\ UNCHANGED <<result, err>>
    /\ UNCHANGED <<op, action, given, templates, live, stage, instance, binding,
                   catalog, files, todo, resources, named, sourceObjects, file>>

(* renderer.Render (143-151, 335-343, 414-422).                            *)
Render ==
    /\ pc = "render"
    /\ \/ Fail("RenderError")
       \/ pc' = "list" /\ UNCHANGED <<result, err>>
    /\ UNCHANGED <<op, action, given, templates, live, stage, instance, binding,
                   catalog, files, todo, resources, named, sourceObjects, file>>

(* output.ListFiles (153-157, 345-354, 424-433).  ComputeExpectedResources *)
(* goes on to parse every file; ComputeStatus returns (nil, err) when no   *)
(* file was rendered, where err is the nil error of ListFiles, and else   *)
(* picks the sources (status) file.                                        *)
ListFiles ==
    /\ pc = "list"
    /\ \/ /\ Fail("ListError")
          /\ UNCHANGED <<files, todo, file>>
       \/ \E fs \in FileLists :
            /\ files' = fs
            /\ \/ /\ stage = "action"
                  /\ todo' = SeqRange(fs)
                  /\ pc' = "parse"
                  /\ UNCHANGED <<result, err, file>>
               \/ /\ stage # "action" /\ fs = << >>
                  /\ pc' = "done"
                  /\ UNCHANGED <<result, err, todo, file>>
               \/ /\ stage # "action" /\ fs # << >>
                  /\ file' = PickFile(fs, IF stage = "sources"
                                          THEN "sources.yaml" ELSE "status.yaml")
                  /\ pc' = IF stage = "sources" THEN "parseSources" ELSE "parseStatus"
                  /\ UNCHANGED <<result, err, todo>>
    /\ UNCHANGED <<op, action, given, templates, live, stage, instance, binding,
                   catalog, resources, named, sourceObjects>>

(* ComputeExpectedResources 159-178: FileContent and StringToUnstructured  *)
(* of one file; its documents are stamped with the namespace and appended. *)
ParseFile(f) ==
    /\ pc = "parse" /\ f \in todo
    /\ \/ /\ \E e \in {"ContentError", "ParseError"} : Fail(e)
          /\ UNCHANGED <<todo, resources>>
       \/ /\ resources' = resources \cup {f}
          /\ todo' = todo \ {f}
          /\ UNCHANGED <<pc, result, err>>
    /\ UNCHANGED <<op, action, given, templates, live, stage, instance, binding,
                   catalog, files, named, sourceObjects, file>>

ExpectedDone ==
    /\ pc = "parse" /\ todo = {}
    /\ pc' = "done" /\ result' = "value"
    /\ UNCHANGED <<op, action, given, templates, live, stage, instance, binding,
                   catalog, files, todo, resources, named, sourceObjects, file,
                   err>>

(* ComputeStatus 364-374: FileContent and ParseSources of the sources file: *)
(* a map from logical names to entries, some of them without a name.       *)
ParseSources ==
    /\ pc = "parseSources"
    /\ \/ /\ \E e \in {"ContentError", "ParseError"} : Fail(e)
          /\ UNCHANGED <<todo, named>>
       \/ \E entries \in SUBSET SourceKeys, N \in SUBSET SourceKeys :
            /\ N \subseteq entries
            /\ todo' = entries /\ named' = N
            /\ pc' = "fetchSources"
            /\ UNCHANGED <<result, err>>
    /\ UNCHANGED <<op, action, given, templates, live, stage, instance, binding,
                   catalog, files, resources, sourceObjects, file>>

(* ComputeStatus 376-394, one entry of the map: an entry with a name is    *)
(* fetched from the target cluster; a failed Get (not found included) is   *)
(* logged and the entry skipped.                                           *)
FetchSource(k) ==
    /\ pc = "fetchSources" /\ k \in todo
    /\ todo' = todo \ {k}
    /\ \/ /\ k \notin named
          /\ UNCHANGED sourceObjects
       \/ /\ k \in named /\ k \in live
          /\ sourceObjects' = sourceObjects \cup {k}
       \/ /\ k \in named
          /\ UNCHANGED sourceObjects
    /\ UNCHANGED <<op, action, given, templates, live, pc, stage, instance,
                   binding, catalog, files, resources, named, file, result, err>>

(* After the loop ComputeStatus renders the status template (396).         *)
SourcesFetched ==
    /\ pc = "fetchSources" /\ todo = {}
    /\ stage' = "status" /\ pc' = "template"
    /\ UNCHANGED <<op, action, given, templates, live, instance, binding,
                   catalog, files, todo, resources, named, sourceObjects, file,
                   result, err>>

(* ComputeStatus 443-455: FileContent and ParseStatus of the status file.  *)
ParseStatus ==
    /\ pc = "parseStatus"
    /\ \/ \E e \in {"ContentError", "ParseError"} : Fail(e)
       \/ pc' = "done" /\ result' = "value" /\ UNCHANGED err
    /\ UNCHANGED <<op, action, given, templates, live, stage, instance, binding,
                   catalog, files, todo, resources, named, sourceObjects, file>>

(* The call has returned, or panicked.                                     *)
Returned ==
    /\ pc \in {"done", "panic"}
    /\ UNCHANGED vars

Next ==
    \/ FetchResources \/ ResolveTarget \/ SelectRenderer \/ Render
    \/ ListFiles \/ \E f \in FileNames : ParseFile(f) \/ ExpectedDone
    \/ ParseSources \/ \E k \in SourceKeys : FetchSource(k) \/ SourcesFetched
    \/ ParseStatus \/ Returned

Spec == Init /\ [][Next]_vars

-----------------------------------------------------------------------------
(* A returned pair carries exactly one of a result and an error: callers   *)
(* (the instance and binding controllers) test the error and then use the  *)
(* result.  Spec 4.3 and 4.8: every failure aborts with its error.          *)
ResultContract == pc = "done" => (result = "nil") # (err = "none")

(* The same contract for ComputeExpectedResources, whose every early       *)
(* return (fetch, plan, template, renderer, render, list, parse) carries   *)
(* its error: the instance and binding controllers apply the resources it  *)
(* returns only when the error is nil.                                     *)
ExpectedResultContract == op = "expected" => ResultContract

(* No call of ComputeExpectedResources or ComputeStatus dereferences an    *)
(* object it did not fetch (instance.GetName, binding.GetName).             *)
NoNilDereference == pc # "panic"

(* A call fails with NotImplemented only on a template whose type spells   *)
(* no known renderer, ignoring case (spec 4.2: case-insensitive match; the *)
(* factory's switch in GetRenderer is what decides).                       *)
RendererSelection ==
    (pc = "done" /\ err = "NotImplemented") =>
        Spelled[templates[StageAction(stage)]] = "other"
=============================================================================
