----------------------------- MODULE DeepCopies -----------------------------
(***************************************************************************)
(* QuarksJobs in the operator's memory.                                    *)
(*                                                                         *)
(* The informer's cache hands out deep copies, made by the generated       *)
(* functions, so that a worker may change its copy while others read the   *)
(* cache.  The job creator copies the template once more and adds to that  *)
(* copy what the Job needs; the worker then writes its QuarksJob back.     *)
(* Maps, slices and pointers are addresses of heap cells: the object that   *)
(* made the cell, and the part of the QuarksJob that is in it.  A map of   *)
(* strings is the set of those who have put something there.               *)
(***************************************************************************)
EXTENDS Sequences

CONSTANTS Holders,  \* workers with a copy of the QuarksJob
          Nil

VARIABLES heap,    \* cells, by their Go type and address
          cached,  \* the QuarksJob in the informer's cache
          copy,    \* each worker's copy
          step,    \* how far each worker is
          stored   \* the template on the API server, by value

memoryVars == <<heap, cached, copy, step, stored>>

-----------------------------------------------------------------------------
(* The generated functions.  A copy has for every cell of in a cell of its  *)
(* own, with the address that the cell has when owner makes it.            *)

Cached == <<"cache", Nil>>
Copy(w) == <<"copy", w>>
Job(w) == <<"job", w>>

Owners == {Cached} \cup {Copy(w) : w \in Holders} \cup {Job(w) : w \in Holders}

Parts == {"output", "outputMap", "files1", "files2", "labels", "pod", "stamp", "newStamp",
          "outputLabels", "optionLabels", "annotations"}

ASSUME MemoryAssumption == Nil \notin Owners \X Parts

\* The address of the copied cell; nothing is made for a nil.
Fresh(owner, a) == IF a = Nil THEN Nil ELSE <<owner, a[2]>>

\* The cells of one type, and those that owner adds for in's.
Extend(cells, in, owner, copied) ==
  [a \in DOMAIN cells \cup {Fresh(owner, b) : b \in {c \in DOMAIN cells : c[1] = in}} |->
     IF a \in DOMAIN cells THEN cells[a] ELSE copied[<<in, a[2]>>]]

\* Mutant of CopyOptions: a shallow copy.
CopyOptionsShallow(owner, in) == in

\* The labels are copied, the annotations are not.
CopyOptions(owner, in) == [in EXCEPT !.labels = Fresh(owner, @)]

CopyFilesToSecrets(owner, in) == [f \in DOMAIN in |-> CopyOptions(owner, in[f])]

\* Mutant of CopyOutputMap: the containers' maps come out empty.
CopyOutputMapEmpty(owner, in) == [c \in DOMAIN in |-> Nil]

CopyOutputMap(owner, in) == [c \in DOMAIN in |-> Fresh(owner, in[c])]

CopyOutput(owner, in) == [files |-> Fresh(owner, in.files), labels |-> Fresh(owner, in.labels)]

\* Mutant of CopyTemplate: it is the original.
CopyTemplateShallow(owner, in) == in

\* The pod template's labels, and the rest of it.
CopyTemplate(owner, in) == [labels |-> Fresh(owner, in.labels), pod |-> Fresh(owner, in.pod)]

\* A trigger has no cells: its copy is the assignment.
CopyTrigger(in) == in

CopySpec(owner, in) ==
  [in EXCEPT !.strategy = CopyTrigger(@), !.output = Fresh(owner, @),
             !.template = CopyTemplate(owner, @)]

CopyStatus(owner, in) == [in EXCEPT !.stamp = Fresh(owner, @)]

CopyQuarksJob(owner, in) ==
  [spec |-> CopySpec(owner, in.spec), status |-> CopyStatus(owner, in.status)]

CopyQuarksJobList(owner, in) == [i \in DOMAIN in |-> CopyQuarksJob(owner, in[i])]

\* A map of strings, a time or a pod template is copied as it is.
CopyTexts(texts, in, owner) == Extend(texts, in, owner, texts)

\* The heap with the cells of a copy.
CopyCells(in, owner) ==
  [texts |-> CopyTexts(heap.texts, in, owner),
   files |-> Extend(heap.files, in, owner,
               [a \in DOMAIN heap.files |-> CopyFilesToSecrets(owner, heap.files[a])]),
   outputMaps |-> Extend(heap.outputMaps, in, owner,
               [a \in DOMAIN heap.outputMaps |-> CopyOutputMap(owner, heap.outputMaps[a])]),
   outputs |-> Extend(heap.outputs, in, owner,
               [a \in DOMAIN heap.outputs |-> CopyOutput(owner, heap.outputs[a])])]

-----------------------------------------------------------------------------
(* What a copy is about.                                                   *)

\* The value of a map of strings, and what an address leads to.
Text(a) == IF a = Nil THEN Nil ELSE heap.texts[a]
Files(a) == IF a = Nil THEN <<>> ELSE heap.files[a]
OutputMap(a) == IF a = Nil THEN <<>> ELSE heap.outputMaps[a]

TemplateValue(t) == [labels |-> Text(t.labels), pod |-> Text(t.pod)]

FilesValue(a) ==
  [f \in DOMAIN Files(a) |-> [labels |-> Text(Files(a)[f].labels),
                              annotations |-> Text(Files(a)[f].annotations)]]

OutputValue(a) ==
  IF a = Nil THEN Nil
  ELSE [outputMap |-> [c \in DOMAIN OutputMap(heap.outputs[a].files) |->
                         FilesValue(OutputMap(heap.outputs[a].files)[c])],
        labels |-> Text(heap.outputs[a].labels)]

Value(o) == [output |-> OutputValue(o.spec.output), strategy |-> o.spec.strategy,
             template |-> TemplateValue(o.spec.template),
             stamp |-> Text(o.status.stamp), completed |-> o.status.completed]

\* The addresses an object leads to, the annotations' apart.
OutputMaps(o) == IF o.spec.output = Nil THEN {} ELSE {heap.outputs[o.spec.output].files}
FileMaps(o) == UNION {{OutputMap(m)[c] : c \in DOMAIN OutputMap(m)} : m \in OutputMaps(o)}
Options(o) == UNION {{Files(m)[f] : f \in DOMAIN Files(m)} : m \in FileMaps(o)}

Annotations(o) == {p.annotations : p \in Options(o)} \ {Nil}

Addresses(o) ==
  ({o.spec.output, o.status.stamp, o.spec.template.labels, o.spec.template.pod}
     \cup (IF o.spec.output = Nil THEN {} ELSE {heap.outputs[o.spec.output].labels})
     \cup OutputMaps(o) \cup FileMaps(o) \cup {p.labels : p \in Options(o)}
     \cup Annotations(o)) \ {Nil}

-----------------------------------------------------------------------------
(* The cache, the workers and the job creator.                             *)

\* The address of a part of the cached object, which it has or has not.
Optional(part) == {Nil, <<Cached, part>>}

\* A QuarksJob as it is decoded: what may be left out is, or is not, and no
\* two parts share a cell.
MemoryInit ==
  /\ \E labels \in Optional("labels"), stamp \in Optional("stamp"),
        output \in Optional("output"), files \in Optional("outputMap"),
        outputLabels \in Optional("outputLabels"), ofC1 \in Optional("files1"),
        ofC2 \in Optional("files2"), optionLabels \in Optional("optionLabels"),
        annotations \in Optional("annotations") :
       /\ heap = [texts |-> [a \in {Cached} \X {"labels", "pod", "stamp", "outputLabels",
                                                 "optionLabels", "annotations"} |-> {"user"}],
                  files |-> [a \in {Cached} \X {"files1", "files2"} |->
                               IF a[2] = "files1"
                               THEN [f1 |-> [labels |-> optionLabels, annotations |-> annotations]]
                               ELSE [f2 |-> [labels |-> Nil, annotations |-> Nil],
                                     f3 |-> [labels |-> Nil, annotations |-> Nil]]],
                  outputMaps |-> [a \in {Cached} \X {"outputMap"} |-> [c1 |-> ofC1, c2 |-> ofC2]],
                  outputs |-> [a \in {Cached} \X {"output"} |->
                                 [files |-> files, labels |-> outputLabels]]]
       /\ cached = [spec |-> [output |-> output, strategy |-> "once",
                              template |-> [labels |-> labels, pod |-> <<Cached, "pod">>]],
                    status |-> [stamp |-> stamp, completed |-> FALSE]]
  /\ copy = [w \in Holders |-> Nil]
  /\ step = [w \in Holders |-> "idle"]
  /\ stored = TemplateValue(cached.spec.template)

\* client.Get: a deep copy of what is cached; or a list of all there is, copied.
Get(w) ==
  /\ step[w] = "idle"
  /\ heap' = CopyCells(Cached, Copy(w))
  /\ copy' \in {[copy EXCEPT ![w] = CopyQuarksJob(Copy(w), cached)],
                [copy EXCEPT ![w] = CopyQuarksJobList(Copy(w), <<cached>>)[1]]}
  /\ step' = [step EXCEPT ![w] = "read"]
  /\ UNCHANGED <<cached, stored>>

\* The heap when a cell is made or changed.
Write(cells, a, cell) == [b \in DOMAIN cells \cup {a} |-> IF b = a THEN cell ELSE cells[b]]

\* The worker sets the stamp to a time of its own, or to none.
SetStamp(w) ==
  /\ step[w] = "read"
  /\ \/ /\ heap' = [heap EXCEPT !.texts = Write(@, <<Copy(w), "newStamp">>, {w})]
        /\ copy' = [copy EXCEPT ![w].status.stamp = <<Copy(w), "newStamp">>]
     \/ /\ copy' = [copy EXCEPT ![w].status.stamp = Nil]
        /\ UNCHANGED heap
  /\ step' = [step EXCEPT ![w] = "stamped"]
  /\ UNCHANGED <<cached, stored>>

\* The job creator copies the template and adds a volume for the service
\* account and one per container, the container that persists the output, and
\* a label, to a map that it makes if there is none.
BuildTemplate(w) ==
  LET template == CopyTemplate(Job(w), copy[w].spec.template)
      labels   == IF template.labels = Nil THEN <<Job(w), "labels">> ELSE template.labels
      made     == CopyTexts(heap.texts, Copy(w), Job(w))
      old      == IF template.labels = Nil THEN {} ELSE made[labels]
  IN
  /\ step[w] = "stamped"
  /\ heap' = [heap EXCEPT !.texts = Write(Write(made, template.pod, made[template.pod] \cup {"job"}),
                                         labels, old \cup {"job"})]
  /\ step' = [step EXCEPT ![w] = "built"]
  /\ UNCHANGED <<cached, copy, stored>>

\* The errand is done in the worker's copy.  The write sends the whole
\* QuarksJob, which the API server accepts or refuses.
WriteBack(w) ==
  /\ step[w] = "built"
  /\ stored' \in {stored, TemplateValue(copy[w].spec.template)}
  /\ copy' = [copy EXCEPT ![w] = Nil]
  /\ step' = [step EXCEPT ![w] = "done"]
  /\ UNCHANGED <<heap, cached>>

MemoryNext == \E w \in Holders : Get(w) \/ SetStamp(w) \/ BuildTemplate(w) \/ WriteBack(w)

MemorySpec == MemoryInit /\ [][MemoryNext]_memoryVars

-----------------------------------------------------------------------------
(* The inductive invariant.                                                *)

\* The cells of the cached object, and the pointers to them.
OfCache(cells) == {a \in DOMAIN cells : a[1] = Cached}
Pointers(cells) == OfCache(cells) \cup {Nil}

\* Cells have owners, the copies of a worker that has none yet excepted.
AddressesOK(cells) ==
  \A a \in DOMAIN cells :
    /\ a \in Owners \X Parts
    /\ a[1] = Cached => a[2] # "newStamp"
    /\ \A w \in Holders : step[w] = "idle" => a[1] # Copy(w)

\* The cached object leads only to cells of its own, and is what is stored.
CachedOK ==
  /\ cached \in [spec : [output : Pointers(heap.outputs), strategy : {"once"},
                         template : [labels : Pointers(heap.texts), pod : OfCache(heap.texts)]],
                 status : [stamp : Pointers(heap.texts), completed : BOOLEAN]]
  /\ \A a \in OfCache(heap.outputs) :
       heap.outputs[a] \in [files : Pointers(heap.outputMaps), labels : Pointers(heap.texts)]
  /\ \A a \in OfCache(heap.outputMaps) : \A c \in DOMAIN heap.outputMaps[a] :
       heap.outputMaps[a][c] \in Pointers(heap.files)
  /\ \A a \in OfCache(heap.files) : \A f \in DOMAIN heap.files[a] :
       heap.files[a][f] \in [labels : Pointers(heap.texts), annotations : Pointers(heap.texts)]
  /\ \A a \in OfCache(heap.texts) : "job" \notin heap.texts[a]
  /\ stored = TemplateValue(cached.spec.template)

\* A worker's cells are copies of the cached ones, as they are now.
CellsCopied(w) ==
  /\ \A a \in OfCache(heap.texts) :
       /\ Fresh(Copy(w), a) \in DOMAIN heap.texts
       /\ heap.texts[Fresh(Copy(w), a)] = heap.texts[a]
  /\ \A a \in OfCache(heap.files) :
       /\ Fresh(Copy(w), a) \in DOMAIN heap.files
       /\ heap.files[Fresh(Copy(w), a)] = CopyFilesToSecrets(Copy(w), heap.files[a])
  /\ \A a \in OfCache(heap.outputMaps) :
       /\ Fresh(Copy(w), a) \in DOMAIN heap.outputMaps
       /\ heap.outputMaps[Fresh(Copy(w), a)] = CopyOutputMap(Copy(w), heap.outputMaps[a])
  /\ \A a \in OfCache(heap.outputs) :
       /\ Fresh(Copy(w), a) \in DOMAIN heap.outputs
       /\ heap.outputs[Fresh(Copy(w), a)] = CopyOutput(Copy(w), heap.outputs[a])

\* The worker's copy is one of the cached object, but for the stamp.
CopyOK(w) ==
  /\ step[w] \in {"idle", "done"} => copy[w] = Nil
  /\ step[w] \in {"read", "stamped", "built"} =>
       /\ CellsCopied(w)
       /\ copy[w].spec = CopySpec(Copy(w), cached.spec)
       /\ copy[w].status.stamp \in {Nil} \cup ({Copy(w)} \X Parts)
  /\ step[w] = "read" => copy[w] = CopyQuarksJob(Copy(w), cached)

\* Nobody writes to a cell of the cache, or of a copy that is in use, but its
\* owner (zz_generated.deepcopy.go:16-252).
MemoryInv ==
  /\ heap = [texts |-> heap.texts, files |-> heap.files, outputMaps |-> heap.outputMaps,
             outputs |-> heap.outputs]
  /\ step \in [Holders -> {"idle", "read", "stamped", "built", "done"}]
  /\ copy = [w \in Holders |-> copy[w]]
  /\ AddressesOK(heap.texts) /\ AddressesOK(heap.files)
  /\ AddressesOK(heap.outputMaps) /\ AddressesOK(heap.outputs)
  /\ CachedOK
  /\ \A w \in Holders : CopyOK(w)

-----------------------------------------------------------------------------
(* Properties.                                                             *)

Objects == {cached} \cup {copy[w] : w \in {v \in Holders : copy[v] # Nil}}

\* A copy has the value of the original, though optional parts are missing on
\* any level (zz_generated.deepcopy.go:16-252).
CopyEqualsOriginal ==
  \A w \in Holders : step[w] = "read" => Value(copy[w]) = Value(cached)

\* What the job creator adds to a Job's template reaches neither the QuarksJob
\* the worker will store, nor the cache, nor what is stored
\* (job_creator.go:61, 73-120).
TemplateIsTheUsers ==
  /\ \A o \in Objects : TemplateValue(o.spec.template) = stored
  /\ "job" \notin stored.pod
  /\ stored.labels # Nil => "job" \notin stored.labels

\* Two objects in memory have no cell in common but the annotations of their
\* output's Secrets, which CopyOptions forgets: a write through one of them does
\* not show in the other (zz_generated.deepcopy.go:16-252, types.go:90).
OnlyAnnotationsShared ==
  \A w \in Holders : \A o \in Objects :
    (copy[w] # Nil /\ copy[w] # o) =>
      Addresses(copy[w]) \cap Addresses(o) \subseteq Annotations(o)
=============================================================================
