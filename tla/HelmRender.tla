----------------------------- MODULE HelmRender -----------------------------
(***************************************************************************)
(* One use of the Helm renderer (helm/renderer.go): New, Render, which     *)
(* loads the chart, renderRelease, which prepares the values, and          *)
(* renderResources, which runs the template engine and then removes from   *)
(* the rendered file map, while ranging over it, the partials (base name   *)
(* starting with "_") and the files with an ignored suffix (NOTES.txt).   *)
(* File names are short sequences of characters, since the properties are  *)
(* about how a name is tested; Go ranges over a map in no fixed order.     *)
(***************************************************************************)
EXTENDS Naturals, Sequences, SequencesExt

CONSTANTS
    Chars,           \* the characters file names are made of, "/" and "_" among them
    MaxLen,          \* longest file name
    MaxFiles,        \* most files one engine render produces
    IgnoreSuffixes   \* ignoreFileSuffix

ASSUME HelmAssumption ==
    /\ {"/", "_"} \subseteq Chars
    /\ MaxLen \in Nat \ {0} /\ MaxFiles \in Nat
    /\ IgnoreSuffixes \subseteq Seq(Chars)

(* The names the engine can produce: non-empty template paths.             *)
FileNames == SeqOf(Chars, MaxLen) \ {<< >>}

VARIABLES pc, rendered, files, todo, result

vars == <<pc, rendered, files, todo, result>>

TypeOK ==
    /\ pc \in {"new", "render", "release", "engine", "filter", "done"}
    /\ rendered \subseteq FileNames /\ files \subseteq rendered
    /\ todo \subseteq rendered
    /\ result \in {"none", "output", "error"}

(***************************************************************************)
(* path.Base and the filter of renderResources.                            *)
(***************************************************************************)

(* The name without its trailing slashes.                                  *)
StripTrailingSlashes(k) ==
    SubSeq(k, 1, Min({j \in 0..Len(k) : \A m \in j + 1..Len(k) : k[m] = "/"}))

(* path.Base: "." for the empty name; trailing slashes removed; then the   *)
(* part after the last slash, or "/" when only slashes were left.          *)
Base(k) ==
    IF k = << >> THEN <<".">>
    ELSE LET t == StripTrailingSlashes(k)
             i == Max({0} \cup {m \in 1..Len(t) : t[m] = "/"})
         IN  IF t = << >> THEN <<"/">> ELSE SubSeq(t, i + 1, Len(t))

(* Mutant: the prefix tested on the whole name instead of its base name.   *)
PartialWholeKey(k) == IsPrefix(<<"_">>, k)

(* strings.HasPrefix(path.Base(k), "_"): a template partial.               *)
Partial(k) == IsPrefix(<<"_">>, Base(k))

(* strings.HasSuffix(k, suffix) for a suffix of ignoreFileSuffix.          *)
Ignored(k) == \E s \in IgnoreSuffixes : IsSuffix(s, k)

(***************************************************************************)
(* The call.                                                               *)
(***************************************************************************)

Init ==
    /\ pc = "new" /\ rendered = {} /\ files = {} /\ todo = {}
    /\ result = "none"

Fail == pc' = "done" /\ result' = "error" /\ UNCHANGED <<rendered, files, todo>>

(* New: without a client set, building the config or the client may fail; *)
(* the server version query may fail.                                      *)
New ==
    /\ pc = "new"
    /\ \/ Fail
       \/ pc' = "render" /\ UNCHANGED <<rendered, files, todo, result>>

(* Render: the input must be a helmInput, and the chart must load.         *)
Render ==
    /\ pc = "render"
    /\ \/ Fail
       \/ pc' = "release" /\ UNCHANGED <<rendered, files, todo, result>>

(* renderRelease: marshalling the values, processing the requirements and  *)
(* their import values, and building the render values may each fail.     *)
RenderRelease ==
    /\ pc = "release"
    /\ \/ Fail
       \/ pc' = "engine" /\ UNCHANGED <<rendered, files, todo, result>>

(* renderResources, lines 136-139: the engine fails or yields a file map.  *)
EngineRender ==
    /\ pc = "engine"
    /\ \/ Fail
       \/ \E n \in 0..MaxFiles : \E f \in [1..n -> FileNames] :
            LET fs == Range(f) IN
            /\ rendered' = fs /\ files' = fs /\ todo' = fs
            /\ pc' = "filter" /\ UNCHANGED result

(* Lines 142-153, one iteration of the range loop over the map: the key    *)
(* reached is deleted when it is a partial or has an ignored suffix.       *)
(* Only the current key is deleted, so every key is still reached.         *)
FilterKey(k) ==
    /\ pc = "filter" /\ k \in todo
    /\ todo' = todo \ {k}
    /\ files' = IF Partial(k) \/ Ignored(k) THEN files \ {k} ELSE files
    /\ UNCHANGED <<pc, rendered, result>>

(* Lines 155-158: the loop is over and the remaining map is the output.    *)
FilterDone ==
    /\ pc = "filter" /\ todo = {}
    /\ pc' = "done" /\ result' = "output"
    /\ UNCHANGED <<rendered, files, todo>>

Next == New \/ Render \/ RenderRelease \/ EngineRender
        \/ (\E k \in FileNames : FilterKey(k)) \/ FilterDone

Spec == Init /\ [][Next]_vars

-----------------------------------------------------------------------------
(* The reference, from the spec's Rendered Output: a file is excluded when *)
(* its base name (its last non-empty path segment) starts with an         *)
(* underscore, or when it ends with one of the ignored suffixes.           *)
RefPartial(k) ==
    \E i \in 1..Len(k) :
        /\ k[i] = "_" /\ (i = 1 \/ k[i - 1] = "/")
        /\ \A m \in i + 1..Len(k) : k[m] = "/" => \A n \in m..Len(k) : k[n] = "/"

RefExcluded(k) ==
    RefPartial(k) \/ \E s \in IgnoreSuffixes, u \in SeqOf(Chars, Len(k)) : u \o s = k

(* The output of a successful Helm render is exactly the rendered files    *)
(* that are neither partials nor ignored, whatever order the range loop    *)
(* visits the map in and whatever directories and trailing slashes the    *)
(* names have.                                                             *)
FilterSound == (pc = "done" /\ result = "output") =>
                   files = {k \in rendered : ~RefExcluded(k)}
=============================================================================
