-------------------------- MODULE DeepCopiesProofs --------------------------
(***************************************************************************)
(* Proofs about the copies of a QuarksJob in memory, for any number of     *)
(* workers and a QuarksJob that has or lacks any of its optional parts.    *)
(***************************************************************************)
EXTENDS DeepCopies, TLAPS

-----------------------------------------------------------------------------
(* Addresses.                                                              *)

\* Owners differ.
LEMMA OwnersDiffer ==
  /\ \A w \in Holders : Copy(w) # Cached /\ Job(w) # Cached
  /\ \A v, w \in Holders : /\ Copy(v) # Job(w)
                           /\ Copy(v) = Copy(w) => v = w
  BY DEF Copy, Job, Cached

\* An address is an owner and a part, and not nil.
LEMMA AddressParts ==
  ASSUME NEW a \in Owners \X Parts
  PROVE  /\ a # Nil /\ a[1] \in Owners /\ a[2] \in Parts /\ a = <<a[1], a[2]>>
         /\ \A owner \in Owners : /\ Fresh(owner, a) = <<owner, a[2]>>
                                  /\ Fresh(owner, a) \in Owners \X Parts
                                  /\ Fresh(owner, a) # Nil /\ Fresh(owner, a)[1] = owner
                                  /\ Fresh(owner, a)[2] = a[2]
<1>1. a # Nil
  BY MemoryAssumption
<1>2. a[1] \in Owners /\ a[2] \in Parts /\ a = <<a[1], a[2]>>
  OBVIOUS
<1>3. \A owner \in Owners : <<owner, a[2]>> \in Owners \X Parts
  BY <1>2
<1> QED
  BY <1>1, <1>2, <1>3, MemoryAssumption DEF Fresh

LEMMA OwnersAre ==
  /\ Cached \in Owners
  /\ \A w \in Holders : Copy(w) \in Owners /\ Job(w) \in Owners
  BY DEF Owners

\* The cells of new are those of cells, but for cells at the addresses in places.
Only(cells, new, places) ==
  /\ DOMAIN cells \subseteq DOMAIN new
  /\ \A a \in DOMAIN new : (a \in DOMAIN cells /\ new[a] = cells[a]) \/ a \in places

\* The cells a worker or its Job may make.
PlacesOf(owner) == {owner} \X Parts

\* A copy adds cells of its owner, one for each of the original.
LEMMA ExtendAdds ==
  ASSUME NEW cells, \A a \in DOMAIN cells : a \in Owners \X Parts,
         NEW in \in Owners, NEW owner \in Owners, NEW copied,
         NEW new, new = Extend(cells, in, owner, copied)
  PROVE  /\ Only(cells, new, PlacesOf(owner))
         /\ \A a \in DOMAIN cells : a[1] = in => Fresh(owner, a) \in DOMAIN new
         /\ \A a \in DOMAIN cells :
              (a[1] = in /\ Fresh(owner, a) \notin DOMAIN cells) => new[Fresh(owner, a)] = copied[a]
<1>1. DOMAIN new = DOMAIN cells \cup {Fresh(owner, b) : b \in {c \in DOMAIN cells : c[1] = in}}
  BY DEF Extend
<1>2. \A a \in DOMAIN new : new[a] = IF a \in DOMAIN cells THEN cells[a] ELSE copied[<<in, a[2]>>]
  BY DEF Extend
<1>3. \A b \in DOMAIN cells : Fresh(owner, b) \in PlacesOf(owner) /\ Fresh(owner, b)[2] = b[2]
  BY AddressParts DEF PlacesOf
<1>4. Only(cells, new, PlacesOf(owner))
  BY <1>1, <1>2, <1>3 DEF Only
<1>5. ASSUME NEW a \in DOMAIN cells, a[1] = in
      PROVE  /\ Fresh(owner, a) \in DOMAIN new
             /\ Fresh(owner, a) \notin DOMAIN cells => new[Fresh(owner, a)] = copied[a]
  <2>1. Fresh(owner, a) \in DOMAIN new
    BY <1>1, <1>5
  <2>2. a = <<in, a[2]>>
    BY <1>5, AddressParts
  <2>3. Fresh(owner, a)[2] = a[2]
    BY <1>3
  <2> QED
    BY <1>2, <2>1, <2>2, <2>3
<1> QED
  BY <1>4, <1>5

LEMMA WriteAdds ==
  ASSUME NEW cells, NEW a, NEW cell
  PROVE  Only(cells, Write(cells, a, cell), {a})
  BY DEF Only, Write

LEMMA OnlyTrans ==
  ASSUME NEW cells, NEW more, NEW new, NEW places, NEW others,
         Only(cells, more, places), Only(more, new, others), others \subseteq places
  PROVE  Only(cells, new, places)
  BY DEF Only

LEMMA OnlySame ==
  ASSUME NEW cells, NEW places
  PROVE  Only(cells, cells, places)
  BY DEF Only

-----------------------------------------------------------------------------
(* What a step that writes to a copy or a Job leaves alone.                *)

\* The steps change the heap in one of these places alone.
Touches(places) ==
  /\ Only(heap.texts, heap'.texts, places) /\ Only(heap.files, heap'.files, places)
  /\ Only(heap.outputMaps, heap'.outputMaps, places) /\ Only(heap.outputs, heap'.outputs, places)

Addressed == /\ AddressesOK(heap.texts) /\ AddressesOK(heap.files)
             /\ AddressesOK(heap.outputMaps) /\ AddressesOK(heap.outputs)

LEMMA CacheCells ==
  ASSUME NEW cells, NEW new, NEW places, Only(cells, new, places),
         \A a \in places : a[1] # Cached
  PROVE  /\ OfCache(new) = OfCache(cells) /\ Pointers(new) = Pointers(cells)
         /\ \A a \in OfCache(cells) : new[a] = cells[a]
  BY DEF Only, OfCache, Pointers

LEMMA CacheKept ==
  ASSUME CachedOK, NEW places, Touches(places), \A a \in places : a[1] # Cached,
         UNCHANGED <<cached, stored>>
  PROVE  CachedOK'
<1>1. /\ OfCache(heap'.texts) = OfCache(heap.texts) /\ Pointers(heap'.texts) = Pointers(heap.texts)
      /\ \A a \in OfCache(heap.texts) : heap'.texts[a] = heap.texts[a]
  BY CacheCells DEF Touches
<1>2. /\ OfCache(heap'.files) = OfCache(heap.files) /\ Pointers(heap'.files) = Pointers(heap.files)
      /\ \A a \in OfCache(heap.files) : heap'.files[a] = heap.files[a]
  BY CacheCells DEF Touches
<1>3. /\ OfCache(heap'.outputMaps) = OfCache(heap.outputMaps)
      /\ Pointers(heap'.outputMaps) = Pointers(heap.outputMaps)
      /\ \A a \in OfCache(heap.outputMaps) : heap'.outputMaps[a] = heap.outputMaps[a]
  BY CacheCells DEF Touches
<1>4. /\ OfCache(heap'.outputs) = OfCache(heap.outputs)
      /\ Pointers(heap'.outputs) = Pointers(heap.outputs)
      /\ \A a \in OfCache(heap.outputs) : heap'.outputs[a] = heap.outputs[a]
  BY CacheCells DEF Touches
<1>5. cached.spec.template.labels \in Pointers(heap.texts)
      /\ cached.spec.template.pod \in OfCache(heap.texts)
  BY DEF CachedOK
<1>6. TemplateValue(cached.spec.template)' = TemplateValue(cached.spec.template)
  BY <1>1, <1>5 DEF TemplateValue, Text, Pointers
<1>7. cached' \in [spec : [output : Pointers(heap'.outputs), strategy : {"once"},
                           template : [labels : Pointers(heap'.texts), pod : OfCache(heap'.texts)]],
                   status : [stamp : Pointers(heap'.texts), completed : BOOLEAN]]
  BY <1>1, <1>4 DEF CachedOK
<1>8. \A a \in OfCache(heap'.outputs) :
       heap'.outputs[a] \in [files : Pointers(heap'.outputMaps), labels : Pointers(heap'.texts)]
  BY <1>1, <1>3, <1>4 DEF CachedOK
<1>9. /\ \A a \in OfCache(heap'.outputMaps) : \A c \in DOMAIN heap'.outputMaps[a] :
           heap'.outputMaps[a][c] \in Pointers(heap'.files)
      /\ \A a \in OfCache(heap'.files) : \A f \in DOMAIN heap'.files[a] :
           heap'.files[a][f] \in [labels : Pointers(heap'.texts), annotations : Pointers(heap'.texts)]
      /\ \A a \in OfCache(heap'.texts) : "job" \notin heap'.texts[a]
  BY <1>1, <1>2, <1>3 DEF CachedOK
<1> QED
  BY <1>6, <1>7, <1>8, <1>9 DEF CachedOK

\* The cells of a copy, but for those nobody has a copy of.
CopyPlaces(w) == {Copy(w)} \X (Parts \ {"newStamp"})

LEMMA FreshPlaces ==
  ASSUME NEW cells, AddressesOK(cells), NEW a \in OfCache(cells), NEW w \in Holders
  PROVE  Fresh(Copy(w), a) \in CopyPlaces(w)
<1>1. a \in Owners \X Parts /\ a[2] # "newStamp"
  BY DEF AddressesOK, OfCache
<1>2. Fresh(Copy(w), a) = <<Copy(w), a[2]>> /\ a[2] \in Parts
  BY <1>1, AddressParts, OwnersAre
<1> QED
  BY <1>1, <1>2 DEF CopyPlaces

LEMMA CopyKept ==
  ASSUME Addressed, NEW v \in Holders, CellsCopied(v), NEW places, Touches(places),
         \A a \in places : a[1] # Cached, places \cap CopyPlaces(v) = {}
  PROVE  CellsCopied(v)'
<1>1. ASSUME NEW cells, AddressesOK(cells), NEW new, Only(cells, new, places)
      PROVE  /\ OfCache(new) = OfCache(cells)
             /\ \A a \in OfCache(cells) :
                  /\ new[a] = cells[a]
                  /\ Fresh(Copy(v), a) \in DOMAIN cells =>
                       /\ Fresh(Copy(v), a) \in DOMAIN new
                       /\ new[Fresh(Copy(v), a)] = cells[Fresh(Copy(v), a)]
  <2>1. /\ OfCache(new) = OfCache(cells)
        /\ \A a \in OfCache(cells) : new[a] = cells[a]
    BY <1>1, CacheCells
  <2>2. \A a \in OfCache(cells) : Fresh(Copy(v), a) \notin places
    BY <1>1, FreshPlaces
  <2> QED
    BY <1>1, <2>1, <2>2 DEF Only
<1>2. \A a \in OfCache(heap.texts)' :
       /\ Fresh(Copy(v), a) \in DOMAIN heap'.texts
       /\ heap'.texts[Fresh(Copy(v), a)] = heap'.texts[a]
  BY <1>1 DEF CellsCopied, Addressed, Touches, OfCache
<1>3. \A a \in OfCache(heap.files)' :
       /\ Fresh(Copy(v), a) \in DOMAIN heap'.files
       /\ heap'.files[Fresh(Copy(v), a)] = CopyFilesToSecrets(Copy(v), heap'.files[a])
  BY <1>1 DEF CellsCopied, Addressed, Touches, OfCache
<1>4. \A a \in OfCache(heap.outputMaps)' :
       /\ Fresh(Copy(v), a) \in DOMAIN heap'.outputMaps
       /\ heap'.outputMaps[Fresh(Copy(v), a)] = CopyOutputMap(Copy(v), heap'.outputMaps[a])
  BY <1>1 DEF CellsCopied, Addressed, Touches, OfCache
<1>5. \A a \in OfCache(heap.outputs)' :
       /\ Fresh(Copy(v), a) \in DOMAIN heap'.outputs
       /\ heap'.outputs[Fresh(Copy(v), a)] = CopyOutput(Copy(v), heap'.outputs[a])
  BY <1>1 DEF CellsCopied, Addressed, Touches, OfCache
<1> QED
  BY <1>2, <1>3, <1>4, <1>5 DEF CellsCopied, Copy, Fresh, CopyFilesToSecrets, CopyOutputMap, CopyOutput

-----------------------------------------------------------------------------
(* The inductive invariant.                                                *)

\* A step of w that leaves the cache alone, writes to cells of w and of its Job
\* only, and copies right what it copies, keeps the invariant.
LEMMA StepKeepsMemory ==
  ASSUME MemoryInv, NEW w \in Holders, NEW s \in {"read", "stamped", "built", "done"},
         NEW places \in SUBSET (PlacesOf(Copy(w)) \cup PlacesOf(Job(w))), Touches(places),
         heap' = [texts |-> heap'.texts, files |-> heap'.files,
                  outputMaps |-> heap'.outputMaps, outputs |-> heap'.outputs],
         step' = [step EXCEPT ![w] = s], UNCHANGED <<cached, stored>>,
         copy' = [v \in Holders |-> copy'[v]],
         \A v \in Holders \ {w} : copy'[v] = copy[v], CopyOK(w)'
  PROVE  MemoryInv'
<1>1. \A a \in places : /\ a \in Owners \X Parts /\ a[1] # Cached
                        /\ a[1] \in {Copy(w), Job(w)}
  BY OwnersAre, OwnersDiffer DEF PlacesOf
<1>2. Addressed /\ CachedOK
  BY DEF MemoryInv, Addressed
<1>3. step \in [Holders -> {"idle", "read", "stamped", "built", "done"}]
  BY DEF MemoryInv
<1>4. ASSUME NEW cells, AddressesOK(cells), NEW new, Only(cells, new, places)
      PROVE  \A a \in DOMAIN new :
               /\ a \in Owners \X Parts
               /\ a[1] = Cached => a[2] # "newStamp"
               /\ \A v \in Holders : step'[v] = "idle" => a[1] # Copy(v)
  <2>1. \A v \in Holders : step'[v] = "idle" => step[v] = "idle" /\ v # w
    BY <1>3
  <2>2. \A a \in places : \A v \in Holders : v # w => a[1] # Copy(v)
    BY <1>1, OwnersDiffer
  <2>3. ASSUME NEW a \in DOMAIN new, a \in places
        PROVE  /\ a \in Owners \X Parts /\ a[1] # Cached
               /\ \A v \in Holders : step'[v] = "idle" => a[1] # Copy(v)
    BY <1>1, <2>1, <2>2, <2>3
  <2>4. ASSUME NEW a \in DOMAIN new, a \notin places
        PROVE  /\ a \in Owners \X Parts /\ (a[1] = Cached => a[2] # "newStamp")
               /\ \A v \in Holders : step'[v] = "idle" => a[1] # Copy(v)
    <3>1. a \in DOMAIN cells
      BY <1>4, <2>4 DEF Only
    <3> QED
      BY <1>4, <2>1, <3>1 DEF AddressesOK
  <2> QED
    BY <2>3, <2>4
<1>5. (/\ AddressesOK(heap.texts) /\ AddressesOK(heap.files)
       /\ AddressesOK(heap.outputMaps) /\ AddressesOK(heap.outputs))'
  <2>1. /\ AddressesOK(heap.texts) /\ AddressesOK(heap.files)
        /\ AddressesOK(heap.outputMaps) /\ AddressesOK(heap.outputs)
    BY DEF MemoryInv
  <2>2. AddressesOK(heap.texts)'
    BY <1>4, <2>1 DEF Touches, AddressesOK, Copy, Cached, Owners, Job
  <2>3. AddressesOK(heap.files)'
    BY <1>4, <2>1 DEF Touches, AddressesOK, Copy, Cached, Owners, Job
  <2>4. AddressesOK(heap.outputMaps)'
    BY <1>4, <2>1 DEF Touches, AddressesOK, Copy, Cached, Owners, Job
  <2>5. AddressesOK(heap.outputs)'
    BY <1>4, <2>1 DEF Touches, AddressesOK, Copy, Cached, Owners, Job
  <2> QED
    BY <2>2, <2>3, <2>4, <2>5
<1>6. CachedOK'
  BY <1>1, <1>2, CacheKept
<1>7. ASSUME NEW v \in Holders \ {w}
      PROVE  CopyOK(v)'
  <2>1. step'[v] = step[v] /\ copy'[v] = copy[v] /\ CopyOK(v)
    BY <1>3 DEF MemoryInv
  <2>2. places \cap CopyPlaces(v) = {}
    BY <1>1, OwnersDiffer DEF CopyPlaces
  <2>3. CellsCopied(v) => CellsCopied(v)'
    BY <1>1, <1>2, <2>2, CopyKept
  <2> QED
    BY <2>1, <2>3 DEF CopyOK, Copy
<1>8. step' \in [Holders -> {"idle", "read", "stamped", "built", "done"}]
  BY <1>3
<1> QED
  BY <1>5, <1>6, <1>7, <1>8 DEF MemoryInv

\* Get: all cells of a new copy are made.
LEMMA StepGet ==
  ASSUME MemoryInv, NEW w \in Holders, Get(w)
  PROVE  MemoryInv'
<1>1. Addressed /\ CachedOK /\ step[w] = "idle" /\ heap' = CopyCells(Cached, Copy(w))
  BY DEF MemoryInv, Addressed, Get
<1>2. ASSUME NEW cells, AddressesOK(cells), NEW copied, NEW new,
             new = Extend(cells, Cached, Copy(w), copied)
      PROVE  /\ Only(cells, new, PlacesOf(Copy(w)))
             /\ OfCache(new) = OfCache(cells)
             /\ \A a \in OfCache(cells) : /\ new[a] = cells[a]
                                          /\ Fresh(Copy(w), a) \in DOMAIN new
                                          /\ new[Fresh(Copy(w), a)] = copied[a]
  <2>1. \A a \in DOMAIN cells : a \in Owners \X Parts /\ a[1] # Copy(w)
    BY <1>1, <1>2 DEF AddressesOK
  <2>2. \A a \in DOMAIN cells : Fresh(Copy(w), a) \notin DOMAIN cells
    BY <2>1, AddressParts, OwnersAre
  <2>3. /\ Only(cells, new, PlacesOf(Copy(w)))
        /\ \A a \in OfCache(cells) : /\ Fresh(Copy(w), a) \in DOMAIN new
                                     /\ new[Fresh(Copy(w), a)] = copied[a]
    BY <1>2, <2>1, <2>2, ExtendAdds, OwnersAre DEF OfCache
  <2>4. \A a \in PlacesOf(Copy(w)) : a[1] # Cached
    BY OwnersDiffer DEF PlacesOf
  <2> QED
    BY <2>3, <2>4, CacheCells
<1>3. /\ heap'.texts = Extend(heap.texts, Cached, Copy(w), heap.texts)
      /\ heap'.files = Extend(heap.files, Cached, Copy(w),
               [a \in DOMAIN heap.files |-> CopyFilesToSecrets(Copy(w), heap.files[a])])
      /\ heap'.outputMaps = Extend(heap.outputMaps, Cached, Copy(w),
               [a \in DOMAIN heap.outputMaps |-> CopyOutputMap(Copy(w), heap.outputMaps[a])])
      /\ heap'.outputs = Extend(heap.outputs, Cached, Copy(w),
               [a \in DOMAIN heap.outputs |-> CopyOutput(Copy(w), heap.outputs[a])])
  BY <1>1 DEF CopyCells, CopyTexts
<1>4. Touches(PlacesOf(Copy(w)))
  BY <1>1, <1>2, <1>3 DEF Touches, Addressed
<1>5. CellsCopied(w)'
  <2>1. \A a \in OfCache(heap'.texts) :
          /\ Fresh(Copy(w), a) \in DOMAIN heap'.texts
          /\ heap'.texts[Fresh(Copy(w), a)] = heap'.texts[a]
    BY <1>1, <1>2, <1>3 DEF Addressed
  <2>2. \A a \in OfCache(heap'.files) :
          /\ Fresh(Copy(w), a) \in DOMAIN heap'.files
          /\ heap'.files[Fresh(Copy(w), a)] = CopyFilesToSecrets(Copy(w), heap'.files[a])
    BY <1>1, <1>2, <1>3 DEF Addressed, OfCache
  <2>3. \A a \in OfCache(heap'.outputMaps) :
          /\ Fresh(Copy(w), a) \in DOMAIN heap'.outputMaps
          /\ heap'.outputMaps[Fresh(Copy(w), a)] = CopyOutputMap(Copy(w), heap'.outputMaps[a])
    BY <1>1, <1>2, <1>3 DEF Addressed, OfCache
  <2>4. \A a \in OfCache(heap'.outputs) :
          /\ Fresh(Copy(w), a) \in DOMAIN heap'.outputs
          /\ heap'.outputs[Fresh(Copy(w), a)] = CopyOutput(Copy(w), heap'.outputs[a])
    BY <1>1, <1>2, <1>3 DEF Addressed, OfCache
  <2> QED
    BY <2>1, <2>2, <2>3, <2>4
    DEF CellsCopied, Copy, Fresh, CopyFilesToSecrets, CopyOptions, CopyOutputMap, CopyOutput, OfCache
<1>6. copy' = [copy EXCEPT ![w] = CopyQuarksJob(Copy(w), cached)]
  <2>1. CopyQuarksJobList(Copy(w), <<cached>>)[1] = CopyQuarksJob(Copy(w), cached)
    BY DEF CopyQuarksJobList
  <2> QED
    BY <2>1 DEF Get
<1>7. copy = [v \in Holders |-> copy[v]]
  BY DEF MemoryInv
<1>8. /\ copy'[w] = CopyQuarksJob(Copy(w), cached) /\ copy' = [v \in Holders |-> copy'[v]]
      /\ \A v \in Holders \ {w} : copy'[v] = copy[v]
  BY <1>6, <1>7
<1>9. cached.status.stamp \in Pointers(heap.texts)
  BY <1>1 DEF CachedOK
<1>10. CopyQuarksJob(Copy(w), cached).status.stamp \in {Nil} \cup ({Copy(w)} \X Parts)
  <2>1. CopyQuarksJob(Copy(w), cached).status.stamp = Fresh(Copy(w), cached.status.stamp)
    BY <1>1 DEF CopyQuarksJob, CopyStatus, CachedOK
  <2>2. CASE cached.status.stamp = Nil
    BY <2>1, <2>2 DEF Fresh
  <2>3. CASE cached.status.stamp \in OfCache(heap.texts)
    BY <1>1, <2>1, <2>3, FreshPlaces DEF CopyPlaces, Addressed
  <2> QED
    BY <1>9, <2>2, <2>3 DEF Pointers
<1>11. CopyOK(w)'
  <2>1. step'[w] = "read" /\ cached' = cached
    BY DEF Get, MemoryInv
  <2>2. copy'[w].spec = CopySpec(Copy(w), cached.spec)
    BY <1>8 DEF CopyQuarksJob
  <2> QED
    BY <1>5, <1>8, <1>10, <2>1, <2>2
    DEF CopyOK, Copy, CopyQuarksJob, CopySpec, CopyTrigger, CopyStatus, CopyTemplate, Fresh
<1>12. heap' = [texts |-> heap'.texts, files |-> heap'.files,
                outputMaps |-> heap'.outputMaps, outputs |-> heap'.outputs]
  BY <1>1 DEF CopyCells
<1>13. step' = [step EXCEPT ![w] = "read"] /\ UNCHANGED <<cached, stored>>
  BY DEF Get
<1> QED
  BY <1>4, <1>8, <1>11, <1>12, <1>13, StepKeepsMemory

\* SetStamp: a cell of its own.
LEMMA StepSetStamp ==
  ASSUME MemoryInv, NEW w \in Holders, SetStamp(w)
  PROVE  MemoryInv'
<1> DEFINE a == <<Copy(w), "newStamp">>
<1>1. /\ step' = [step EXCEPT ![w] = "stamped"] /\ UNCHANGED <<cached, stored>>
      /\ step[w] = "read" /\ step'[w] = "stamped"
  BY DEF SetStamp, MemoryInv
<1>2. /\ CellsCopied(w) /\ copy[w] = CopyQuarksJob(Copy(w), cached) /\ Addressed /\ CachedOK
      /\ copy = [v \in Holders |-> copy[v]]
  BY <1>1 DEF MemoryInv, Addressed, CopyOK
<1>3. PICK stamp \in {Nil} \cup ({Copy(w)} \X Parts) :
        copy' = [copy EXCEPT ![w].status.stamp = stamp]
  BY DEF SetStamp, Parts
<1>4. /\ copy' = [v \in Holders |-> copy'[v]] /\ copy'[w] = [copy[w] EXCEPT !.status.stamp = stamp]
      /\ \A v \in Holders \ {w} : copy'[v] = copy[v]
  BY <1>2, <1>3
<1>5. Touches({a})
      /\ heap' = [texts |-> heap'.texts, files |-> heap'.files,
                  outputMaps |-> heap'.outputMaps, outputs |-> heap'.outputs]
  <2>1. heap = [texts |-> heap.texts, files |-> heap.files,
                outputMaps |-> heap.outputMaps, outputs |-> heap.outputs]
    BY DEF MemoryInv
  <2>2. CASE UNCHANGED heap
    BY <2>1, <2>2, OnlySame DEF Touches
  <2>3. CASE heap' = [heap EXCEPT !.texts = Write(@, a, {w})]
    <3>1. /\ heap'.texts = Write(heap.texts, a, {w}) /\ heap'.files = heap.files
          /\ heap'.outputMaps = heap.outputMaps /\ heap'.outputs = heap.outputs
      BY <2>1, <2>3
    <3> QED
      BY <2>1, <2>3, <3>1, OnlySame, WriteAdds DEF Touches
  <2> QED
    BY <2>2, <2>3 DEF SetStamp
<1>6. a \in PlacesOf(Copy(w)) /\ {a} \cap CopyPlaces(w) = {} /\ a[1] # Cached
  BY OwnersDiffer DEF PlacesOf, CopyPlaces, Parts
<1>7. CellsCopied(w)'
  BY <1>2, <1>5, <1>6, CopyKept
<1>8. /\ copy'[w].spec = CopySpec(Copy(w), cached.spec)
      /\ copy'[w].status.stamp \in {Nil} \cup ({Copy(w)} \X Parts)
  <2>1. PICK status \in [stamp : {Nil} \cup OfCache(heap.texts), completed : BOOLEAN] :
          cached.status = status
    BY <1>2 DEF CachedOK, Pointers
  <2>2. copy[w].status = [stamp |-> Fresh(Copy(w), status.stamp), completed |-> status.completed]
    BY <1>2, <2>1 DEF CopyQuarksJob, CopyStatus
  <2>3. copy[w].spec = CopySpec(Copy(w), cached.spec)
    BY <1>2 DEF CopyQuarksJob
  <2>4. copy[w] = [spec |-> copy[w].spec, status |-> copy[w].status]
    BY <1>2 DEF CopyQuarksJob
  <2>5. copy'[w].spec = copy[w].spec /\ copy'[w].status.stamp = stamp
    BY <1>4, <2>2, <2>4
  <2> QED
    BY <1>3, <2>3, <2>5
<1>9. CopyOK(w)'
  BY <1>1, <1>7, <1>8 DEF CopyOK, Copy, CopySpec, CopyTrigger, CopyTemplate, Fresh
<1> QED
  BY <1>1, <1>4, <1>5, <1>6, <1>9, StepKeepsMemory

\* BuildTemplate: the cells of the Job's template.
LEMMA StepBuild ==
  ASSUME MemoryInv, NEW w \in Holders, BuildTemplate(w)
  PROVE  MemoryInv'
<1>1. /\ step' = [step EXCEPT ![w] = "built"] /\ UNCHANGED <<cached, copy, stored>>
      /\ step[w] = "stamped" /\ step'[w] = "built"
  BY DEF BuildTemplate, MemoryInv
<1>2. /\ CellsCopied(w) /\ copy[w].spec = CopySpec(Copy(w), cached.spec)
      /\ copy[w].status.stamp \in {Nil} \cup ({Copy(w)} \X Parts)
      /\ Addressed /\ CachedOK /\ copy = [v \in Holders |-> copy[v]]
      /\ heap = [texts |-> heap.texts, files |-> heap.files,
                 outputMaps |-> heap.outputMaps, outputs |-> heap.outputs]
  BY <1>1 DEF MemoryInv, Addressed, CopyOK
<1>3. /\ copy[w].spec.template.labels = Fresh(Copy(w), cached.spec.template.labels)
      /\ copy[w].spec.template.pod = Fresh(Copy(w), cached.spec.template.pod)
  BY <1>2 DEF CopySpec, CopyTrigger, CopyTemplate, CachedOK
<1> DEFINE template == CopyTemplate(Job(w), copy[w].spec.template)
           labels   == IF template.labels = Nil THEN <<Job(w), "labels">> ELSE template.labels
           made     == CopyTexts(heap.texts, Copy(w), Job(w))
           old      == IF template.labels = Nil THEN {} ELSE made[labels]
           more     == Write(made, template.pod, made[template.pod] \cup {"job"})
           new      == Write(more, labels, old \cup {"job"})
<1>4. ASSUME NEW m \in OfCache(heap.texts)
      PROVE  /\ Fresh(Job(w), Fresh(Copy(w), m)) \in PlacesOf(Job(w))
             /\ Fresh(Job(w), Fresh(Copy(w), m)) # Nil
  <2>1. Fresh(Copy(w), m) \in Owners \X Parts
    BY <1>2, AddressParts, OwnersAre DEF AddressesOK, Addressed, OfCache
  <2>2. /\ Fresh(Job(w), Fresh(Copy(w), m)) = <<Job(w), Fresh(Copy(w), m)[2]>>
        /\ Fresh(Job(w), Fresh(Copy(w), m)) # Nil
        /\ Fresh(Copy(w), m)[2] \in Parts
    BY <2>1, AddressParts, OwnersAre
  <2> QED
    BY <2>2 DEF PlacesOf
<1>5. template.pod \in PlacesOf(Job(w))
  BY <1>2, <1>3, <1>4 DEF CopyTemplate, CachedOK
<1>6. labels \in PlacesOf(Job(w))
  <2>1. template.labels = Fresh(Job(w), Fresh(Copy(w), cached.spec.template.labels))
    BY <1>3 DEF CopyTemplate
  <2>2. CASE cached.spec.template.labels = Nil
    BY <2>1, <2>2 DEF Fresh, PlacesOf, Parts
  <2>3. CASE cached.spec.template.labels \in OfCache(heap.texts)
    BY <1>4, <2>1, <2>3
  <2> QED
    BY <1>2, <2>2, <2>3 DEF CachedOK, Pointers
<1>7. Only(heap.texts, made, PlacesOf(Job(w)))
  BY <1>2, ExtendAdds, OwnersAre DEF CopyTexts, Addressed, AddressesOK
<1>8. Only(heap.texts, new, PlacesOf(Job(w)))
  <2>1. /\ Only(made, more, {template.pod}) /\ {template.pod} \subseteq PlacesOf(Job(w))
        /\ Only(more, new, {labels}) /\ {labels} \subseteq PlacesOf(Job(w))
    BY <1>5, <1>6, WriteAdds
  <2> HIDE DEF template, labels, made, more, new
  <2>2. Only(heap.texts, more, PlacesOf(Job(w)))
    BY <1>5, <1>7, <2>1, OnlyTrans
  <2> QED
    BY <1>6, <2>1, <2>2, OnlyTrans
<1>9. heap' = [heap EXCEPT !.texts = new]
  BY DEF BuildTemplate
<1>10. /\ Touches(PlacesOf(Job(w)))
       /\ heap' = [texts |-> heap'.texts, files |-> heap'.files,
                   outputMaps |-> heap'.outputMaps, outputs |-> heap'.outputs]
  <2>1. /\ heap'.texts = new /\ heap'.files = heap.files
        /\ heap'.outputMaps = heap.outputMaps /\ heap'.outputs = heap.outputs
    BY <1>2, <1>9
  <2> QED
    BY <1>2, <1>8, <1>9, <2>1, OnlySame DEF Touches
<1>11. /\ PlacesOf(Job(w)) \cap CopyPlaces(w) = {}
       /\ \A a \in PlacesOf(Job(w)) : a[1] # Cached
  BY OwnersDiffer DEF PlacesOf, CopyPlaces
<1>12. CellsCopied(w)'
  BY <1>2, <1>10, <1>11, CopyKept
<1>13. CopyOK(w)'
  BY <1>1, <1>2, <1>12 DEF CopyOK, Copy, CopySpec, CopyTrigger, CopyTemplate, Fresh
<1>14. copy' = [v \in Holders |-> copy'[v]] /\ \A v \in Holders \ {w} : copy'[v] = copy[v]
  BY <1>1, <1>2
<1> QED
  BY <1>1, <1>10, <1>13, <1>14, StepKeepsMemory

-----------------------------------------------------------------------------
(* The values of a copy.                                                   *)

\* A pointer and its copy are both nil or both the address of a cell.
LEMMA FreshNil ==
  ASSUME NEW cells, AddressesOK(cells), NEW m \in Pointers(cells), NEW w \in Holders
  PROVE  /\ Fresh(Copy(w), Nil) = Nil
         /\ m # Nil => m \in OfCache(cells) /\ Fresh(Copy(w), m) # Nil
                       /\ Fresh(Copy(w), m) \in PlacesOf(Copy(w))
<1>1. Fresh(Copy(w), Nil) = Nil
  BY DEF Fresh
<1>2. ASSUME m # Nil
      PROVE  m \in OfCache(cells) /\ Fresh(Copy(w), m) # Nil
             /\ Fresh(Copy(w), m) \in PlacesOf(Copy(w))
  <2>1. m \in OfCache(cells) /\ m \in Owners \X Parts
    BY <1>2 DEF Pointers, OfCache, AddressesOK
  <2>2. Fresh(Copy(w), m) \in CopyPlaces(w)
    BY <2>1, FreshPlaces
  <2> QED
    BY <2>1, <2>2, AddressParts, OwnersAre DEF CopyPlaces, PlacesOf
<1> QED
  BY <1>1, <1>2

LEMMA TextCopied ==
  ASSUME Addressed, NEW w \in Holders, CellsCopied(w), NEW m \in Pointers(heap.texts)
  PROVE  Text(Fresh(Copy(w), m)) = Text(m)
  BY FreshNil DEF Addressed, CellsCopied, Text

LEMMA FilesCopied ==
  ASSUME Addressed, CachedOK, NEW w \in Holders, CellsCopied(w), NEW m \in Pointers(heap.files)
  PROVE  /\ DOMAIN Files(Fresh(Copy(w), m)) = DOMAIN Files(m)
         /\ \A f \in DOMAIN Files(m) :
              /\ Files(m)[f] \in [labels : Pointers(heap.texts), annotations : Pointers(heap.texts)]
              /\ Files(Fresh(Copy(w), m))[f] = CopyOptions(Copy(w), Files(m)[f])
         /\ FilesValue(Fresh(Copy(w), m)) = FilesValue(m)
<1>1. /\ DOMAIN Files(Fresh(Copy(w), m)) = DOMAIN Files(m)
      /\ \A f \in DOMAIN Files(m) :
           /\ Files(m)[f] \in [labels : Pointers(heap.texts), annotations : Pointers(heap.texts)]
           /\ Files(Fresh(Copy(w), m))[f] = CopyOptions(Copy(w), Files(m)[f])
  <2>1. CASE m = Nil
    BY <2>1 DEF Fresh, Files
  <2>2. CASE m # Nil
    <3>1. m \in OfCache(heap.files) /\ Fresh(Copy(w), m) # Nil
      BY <2>2, FreshNil DEF Addressed
    <3>2. Files(m) = heap.files[m]
          /\ Files(Fresh(Copy(w), m)) = CopyFilesToSecrets(Copy(w), heap.files[m])
      BY <2>2, <3>1 DEF Files, CellsCopied
    <3> QED
      BY <3>1, <3>2 DEF CopyFilesToSecrets, CachedOK
  <2> QED
    BY <2>1, <2>2
<1>2. ASSUME NEW f \in DOMAIN Files(m)
      PROVE  /\ Text(Files(Fresh(Copy(w), m))[f].labels) = Text(Files(m)[f].labels)
             /\ Text(Files(Fresh(Copy(w), m))[f].annotations) = Text(Files(m)[f].annotations)
  <2>1. PICK p \in [labels : Pointers(heap.texts), annotations : Pointers(heap.texts)] :
          Files(m)[f] = p
    BY <1>1
  <2>2. Files(Fresh(Copy(w), m))[f] = [labels |-> Fresh(Copy(w), p.labels),
                                       annotations |-> p.annotations]
    BY <1>1, <2>1 DEF CopyOptions
  <2> QED
    BY <2>1, <2>2, TextCopied
<1> QED
  BY <1>1, <1>2 DEF FilesValue

LEMMA MapCopied ==
  ASSUME Addressed, CachedOK, NEW w \in Holders, CellsCopied(w),
         NEW m \in Pointers(heap.outputMaps)
  PROVE  /\ DOMAIN OutputMap(Fresh(Copy(w), m)) = DOMAIN OutputMap(m)
         /\ \A c \in DOMAIN OutputMap(m) :
              /\ OutputMap(m)[c] \in Pointers(heap.files)
              /\ OutputMap(Fresh(Copy(w), m))[c] = Fresh(Copy(w), OutputMap(m)[c])
<1>1. CASE m = Nil
  BY <1>1 DEF Fresh, OutputMap
<1>2. CASE m # Nil
  <2>1. m \in OfCache(heap.outputMaps) /\ Fresh(Copy(w), m) # Nil
    BY <1>2, FreshNil DEF Addressed
  <2>2. OutputMap(m) = heap.outputMaps[m]
        /\ OutputMap(Fresh(Copy(w), m)) = CopyOutputMap(Copy(w), heap.outputMaps[m])
    BY <1>2, <2>1 DEF OutputMap, CellsCopied
  <2> QED
    BY <2>1, <2>2 DEF CopyOutputMap, CachedOK
<1> QED
  BY <1>1, <1>2

\* What a cell of an output, and its copy, consist of.
LEMMA OutputCopied ==
  ASSUME Addressed, CachedOK, NEW w \in Holders, CellsCopied(w),
         NEW m \in Pointers(heap.outputs), m # Nil
  PROVE  /\ Fresh(Copy(w), m) # Nil
         /\ heap.outputs[m].files \in Pointers(heap.outputMaps)
         /\ heap.outputs[m].labels \in Pointers(heap.texts)
         /\ heap.outputs[Fresh(Copy(w), m)].files = Fresh(Copy(w), heap.outputs[m].files)
         /\ heap.outputs[Fresh(Copy(w), m)].labels = Fresh(Copy(w), heap.outputs[m].labels)
<1>1. m \in OfCache(heap.outputs) /\ Fresh(Copy(w), m) # Nil
  BY FreshNil DEF Addressed
<1>2. heap.outputs[m] \in [files : Pointers(heap.outputMaps), labels : Pointers(heap.texts)]
  BY <1>1 DEF CachedOK
<1>3. heap.outputs[Fresh(Copy(w), m)] = CopyOutput(Copy(w), heap.outputs[m])
  BY <1>1 DEF CellsCopied
<1> QED
  BY <1>1, <1>2, <1>3 DEF CopyOutput

LEMMA OutputValueCopied ==
  ASSUME Addressed, CachedOK, NEW w \in Holders, CellsCopied(w),
         NEW m \in Pointers(heap.outputs)
  PROVE  OutputValue(Fresh(Copy(w), m)) = OutputValue(m)
<1>1. CASE m = Nil
  BY <1>1 DEF Fresh
<1>2. CASE m # Nil
  <2>1. PICK n \in Pointers(heap.outputMaps) : heap.outputs[m].files = n
    BY <1>2, OutputCopied
  <2>2. heap.outputs[Fresh(Copy(w), m)].files = Fresh(Copy(w), n)
    BY <1>2, <2>1, OutputCopied
  <2>3. [c \in DOMAIN OutputMap(Fresh(Copy(w), n)) |-> FilesValue(OutputMap(Fresh(Copy(w), n))[c])]
        = [c \in DOMAIN OutputMap(n) |-> FilesValue(OutputMap(n)[c])]
    <3>1. DOMAIN OutputMap(Fresh(Copy(w), n)) = DOMAIN OutputMap(n)
      BY MapCopied
    <3>2. ASSUME NEW c \in DOMAIN OutputMap(n)
          PROVE  FilesValue(OutputMap(Fresh(Copy(w), n))[c]) = FilesValue(OutputMap(n)[c])
      BY MapCopied, FilesCopied
    <3> QED
      BY <3>1, <3>2
  <2>4. Text(heap.outputs[Fresh(Copy(w), m)].labels) = Text(heap.outputs[m].labels)
    BY <1>2, OutputCopied, TextCopied
  <2>5. Fresh(Copy(w), m) # Nil
    BY <1>2, OutputCopied
  <2> QED
    BY <1>2, <2>1, <2>2, <2>3, <2>4, <2>5 DEF OutputValue
<1> QED
  BY <1>1, <1>2

LEMMA TemplateCopied ==
  ASSUME Addressed, CachedOK, NEW w \in Holders, CellsCopied(w),
         copy[w].spec = CopySpec(Copy(w), cached.spec)
  PROVE  TemplateValue(copy[w].spec.template) = stored
<1>1. /\ copy[w].spec.template.labels = Fresh(Copy(w), cached.spec.template.labels)
      /\ copy[w].spec.template.pod = Fresh(Copy(w), cached.spec.template.pod)
  BY DEF CopySpec, CopyTrigger, CopyTemplate, CachedOK
<1>2. cached.spec.template.labels \in Pointers(heap.texts)
      /\ cached.spec.template.pod \in Pointers(heap.texts)
  BY DEF CachedOK, Pointers
<1> QED
  BY <1>1, <1>2, TextCopied DEF TemplateValue, CachedOK

-----------------------------------------------------------------------------
(* The invariant holds.                                                    *)

\* WriteBack: what is sent is what is stored already.
LEMMA StepWriteBack ==
  ASSUME MemoryInv, NEW w \in Holders, WriteBack(w)
  PROVE  MemoryInv'
<1>1. /\ step' = [step EXCEPT ![w] = "done"] /\ UNCHANGED <<heap, cached>>
      /\ step[w] = "built" /\ step'[w] = "done" /\ copy' = [copy EXCEPT ![w] = Nil]
  BY DEF WriteBack, MemoryInv
<1>2. /\ CellsCopied(w) /\ copy[w].spec = CopySpec(Copy(w), cached.spec)
      /\ Addressed /\ CachedOK /\ copy = [v \in Holders |-> copy[v]]
      /\ heap = [texts |-> heap.texts, files |-> heap.files,
                 outputMaps |-> heap.outputMaps, outputs |-> heap.outputs]
  BY <1>1 DEF MemoryInv, Addressed, CopyOK
<1>3. UNCHANGED stored
  BY <1>2, TemplateCopied DEF WriteBack
<1>4. /\ copy' = [v \in Holders |-> copy'[v]] /\ copy'[w] = Nil
      /\ \A v \in Holders \ {w} : copy'[v] = copy[v]
  BY <1>1, <1>2
<1>5. CopyOK(w)'
  BY <1>1, <1>4 DEF CopyOK
<1>6. Touches({})
  BY <1>1, OnlySame DEF Touches
<1> QED
  BY <1>1, <1>2, <1>3, <1>4, <1>5, <1>6, StepKeepsMemory

LEMMA InitMemory ==
  ASSUME MemoryInit
  PROVE  MemoryInv
<1>1. PICK labels \in Optional("labels"), stamp \in Optional("stamp"),
           output \in Optional("output"), files \in Optional("outputMap"),
           outputLabels \in Optional("outputLabels"), ofC1 \in Optional("files1"),
           ofC2 \in Optional("files2"), optionLabels \in Optional("optionLabels"),
           annotations \in Optional("annotations") :
       /\ heap = [texts |-> [a \in {Cached} \X {"labels", "pod", "stamp", "outputLabels",
                                                 "optionLabels", "annotations"} |-> {"user"}],
                  files |-> [a \in {Cached} \X {"files1", "files2"} |->
                               IF a[2] = "files1"
                               THEN [f1 |-> [labels |-> optionLabels, annotations |-> annotations]]
                               ELSE [f2 |-> [labels |-> Nil, annotations |-> Nil],
                                     f3 |-> [labels |-> Nil, annotations |-> Nil]]],
                  outputMaps |-> [a \in {Cached} \X {"outputMap"} |-> [c1 |-> ofC1, c2 |-> ofC2]],
                  outputs |-> [a \in {Cached} \X {"output"} |->
                                 [files |-> files, labels |-> outputLabels]]]
       /\ cached = [spec |-> [output |-> output, strategy |-> "once",
                              template |-> [labels |-> labels, pod |-> <<Cached, "pod">>]],
                    status |-> [stamp |-> stamp, completed |-> FALSE]]
  BY DEF MemoryInit
<1>2. /\ copy = [w \in Holders |-> Nil] /\ step = [w \in Holders |-> "idle"]
      /\ stored = TemplateValue(cached.spec.template)
  BY DEF MemoryInit
<1>3. /\ OfCache(heap.texts) = {Cached} \X {"labels", "pod", "stamp", "outputLabels",
                                           "optionLabels", "annotations"}
      /\ OfCache(heap.files) = {Cached} \X {"files1", "files2"}
      /\ OfCache(heap.outputMaps) = {Cached} \X {"outputMap"}
      /\ OfCache(heap.outputs) = {Cached} \X {"output"}
  BY <1>1 DEF OfCache
<1>4. ASSUME NEW cells, NEW parts \in SUBSET (Parts \ {"newStamp"}),
             DOMAIN cells = {Cached} \X parts
      PROVE  AddressesOK(cells)
  BY <1>4, OwnersAre, OwnersDiffer DEF AddressesOK
<1>5. AddressesOK(heap.texts)
  BY <1>1, <1>4 DEF Parts
<1>6. AddressesOK(heap.files) /\ AddressesOK(heap.outputMaps) /\ AddressesOK(heap.outputs)
  BY <1>1, <1>4 DEF Parts
<1>7. CachedOK
  <2>1. cached \in [spec : [output : Pointers(heap.outputs), strategy : {"once"},
                            template : [labels : Pointers(heap.texts), pod : OfCache(heap.texts)]],
                    status : [stamp : Pointers(heap.texts), completed : BOOLEAN]]
    BY <1>1, <1>3 DEF Pointers, Optional
  <2>2. \A a \in OfCache(heap.outputs) :
          heap.outputs[a] \in [files : Pointers(heap.outputMaps), labels : Pointers(heap.texts)]
    BY <1>1, <1>3 DEF Pointers, Optional
  <2>3. \A a \in OfCache(heap.outputMaps) : \A c \in DOMAIN heap.outputMaps[a] :
          heap.outputMaps[a][c] \in Pointers(heap.files)
    <3>1. ofC1 \in Pointers(heap.files) /\ ofC2 \in Pointers(heap.files)
      BY <1>3 DEF Pointers, Optional
    <3>2. \A a \in OfCache(heap.outputMaps) : heap.outputMaps[a] = [c1 |-> ofC1, c2 |-> ofC2]
      BY <1>1, <1>3
    <3> QED
      BY <3>1, <3>2
  <2>4. \A a \in OfCache(heap.files) : \A f \in DOMAIN heap.files[a] :
          heap.files[a][f] \in [labels : Pointers(heap.texts), annotations : Pointers(heap.texts)]
    <3>1. /\ Nil \in Pointers(heap.texts) /\ optionLabels \in Pointers(heap.texts)
          /\ annotations \in Pointers(heap.texts)
      BY <1>3 DEF Pointers, Optional
    <3>2. \A a \in OfCache(heap.files) :
            \/ heap.files[a] = [f1 |-> [labels |-> optionLabels, annotations |-> annotations]]
            \/ heap.files[a] = [f2 |-> [labels |-> Nil, annotations |-> Nil],
                                f3 |-> [labels |-> Nil, annotations |-> Nil]]
      BY <1>1, <1>3
    <3> QED
      BY <3>1, <3>2
  <2>5. \A a \in OfCache(heap.texts) : "job" \notin heap.texts[a]
    BY <1>1, <1>3
  <2> QED
    BY <1>2, <2>1, <2>2, <2>3, <2>4, <2>5 DEF CachedOK
<1>8. \A w \in Holders : CopyOK(w)
  BY <1>2 DEF CopyOK
<1> QED
  BY <1>1, <1>2, <1>5, <1>6, <1>7, <1>8 DEF MemoryInv

LEMMA StepMemory ==
  ASSUME MemoryInv, [MemoryNext]_memoryVars
  PROVE  MemoryInv'
<1>1. CASE MemoryNext
  <2>1. PICK w \in Holders : Get(w) \/ SetStamp(w) \/ BuildTemplate(w) \/ WriteBack(w)
    BY <1>1 DEF MemoryNext
  <2> QED
    BY <2>1, StepGet, StepSetStamp, StepBuild, StepWriteBack
<1>2. CASE UNCHANGED memoryVars
  BY <1>2 DEF memoryVars, MemoryInv, AddressesOK, CachedOK, TemplateValue, Text, CopyOK, CellsCopied,
     OfCache, Pointers
<1> QED
  BY <1>1, <1>2

-----------------------------------------------------------------------------
(* Whose cells an object leads to.                                         *)

\* From a copy, to those of its owner; the annotations apart, which are the
\* original's.
LEMMA CopyAddresses ==
  ASSUME Addressed, CachedOK, NEW w \in Holders, CellsCopied(w),
         copy[w].spec = CopySpec(Copy(w), cached.spec),
         copy[w].status.stamp \in {Nil} \cup ({Copy(w)} \X Parts)
  PROVE  /\ Annotations(copy[w]) = Annotations(cached)
         /\ Addresses(copy[w]) \subseteq PlacesOf(Copy(w)) \cup Annotations(cached)
         /\ \A a \in Addresses(cached) : a[1] = Cached
<1>1. /\ copy[w].spec.output = Fresh(Copy(w), cached.spec.output)
      /\ copy[w].spec.template.labels = Fresh(Copy(w), cached.spec.template.labels)
      /\ copy[w].spec.template.pod = Fresh(Copy(w), cached.spec.template.pod)
      /\ cached.spec.output \in Pointers(heap.outputs)
      /\ cached.spec.template.labels \in Pointers(heap.texts)
      /\ cached.spec.template.pod \in Pointers(heap.texts)
      /\ cached.status.stamp \in Pointers(heap.texts)
  BY DEF CopySpec, CopyTrigger, CopyTemplate, CachedOK, Pointers
<1> DEFINE Copies(addresses) == {Fresh(Copy(w), m) : m \in addresses}
<1>2. \/ /\ cached.spec.output = Nil /\ copy[w].spec.output = Nil
      \/ /\ cached.spec.output # Nil /\ copy[w].spec.output # Nil
         /\ heap.outputs[cached.spec.output].files \in Pointers(heap.outputMaps)
         /\ heap.outputs[cached.spec.output].labels \in Pointers(heap.texts)
         /\ heap.outputs[copy[w].spec.output].files
              = Fresh(Copy(w), heap.outputs[cached.spec.output].files)
         /\ heap.outputs[copy[w].spec.output].labels
              = Fresh(Copy(w), heap.outputs[cached.spec.output].labels)
  <2>1. CASE cached.spec.output = Nil
    BY <1>1, <2>1 DEF Fresh
  <2>2. CASE cached.spec.output # Nil
    BY <1>1, <2>2, OutputCopied
  <2> QED
    BY <2>1, <2>2
<1>3. /\ OutputMaps(cached) \subseteq Pointers(heap.outputMaps)
      /\ OutputMaps(copy[w]) = Copies(OutputMaps(cached))
  BY <1>2 DEF OutputMaps
<1>4. /\ FileMaps(cached) \subseteq Pointers(heap.files)
      /\ FileMaps(copy[w]) = Copies(FileMaps(cached))
  <2>1. \A m \in OutputMaps(cached) :
          /\ DOMAIN OutputMap(Fresh(Copy(w), m)) = DOMAIN OutputMap(m)
          /\ \A c \in DOMAIN OutputMap(m) :
               /\ OutputMap(m)[c] \in Pointers(heap.files)
               /\ OutputMap(Fresh(Copy(w), m))[c] = Fresh(Copy(w), OutputMap(m)[c])
    BY <1>3, MapCopied
  <2>2. \A x : x \in FileMaps(cached) <=>
          \E m \in OutputMaps(cached) : \E c \in DOMAIN OutputMap(m) : x = OutputMap(m)[c]
    BY DEF FileMaps
  <2>3. \A x : x \in FileMaps(copy[w]) <=>
          \E m \in OutputMaps(cached) : \E c \in DOMAIN OutputMap(Fresh(Copy(w), m)) :
            x = OutputMap(Fresh(Copy(w), m))[c]
    BY <1>3 DEF FileMaps
  <2>4. \A x : x \in FileMaps(copy[w]) <=> \E y \in FileMaps(cached) : x = Fresh(Copy(w), y)
    BY <2>1, <2>2, <2>3
  <2> QED
    BY <2>1, <2>2, <2>4
<1>5. /\ Options(cached) \subseteq [labels : Pointers(heap.texts), annotations : Pointers(heap.texts)]
      /\ Options(copy[w]) = {CopyOptions(Copy(w), p) : p \in Options(cached)}
  <2>1. \A m \in FileMaps(cached) :
          /\ DOMAIN Files(Fresh(Copy(w), m)) = DOMAIN Files(m)
          /\ \A f \in DOMAIN Files(m) :
               /\ Files(m)[f] \in [labels : Pointers(heap.texts), annotations : Pointers(heap.texts)]
               /\ Files(Fresh(Copy(w), m))[f] = CopyOptions(Copy(w), Files(m)[f])
    BY <1>4, FilesCopied
  <2>2. \A x : x \in Options(cached) <=>
          \E m \in FileMaps(cached) : \E f \in DOMAIN Files(m) : x = Files(m)[f]
    BY DEF Options
  <2>3. \A x : x \in Options(copy[w]) <=>
          \E m \in FileMaps(cached) : \E f \in DOMAIN Files(Fresh(Copy(w), m)) :
            x = Files(Fresh(Copy(w), m))[f]
    BY <1>4 DEF Options
  <2>4. \A x : x \in Options(copy[w]) <=> \E y \in Options(cached) : x = CopyOptions(Copy(w), y)
    BY <2>1, <2>2, <2>3
  <2> QED
    BY <2>1, <2>2, <2>4
<1>6. \A p \in Options(cached) :
        /\ p.labels \in Pointers(heap.texts) /\ p.annotations \in Pointers(heap.texts)
        /\ CopyOptions(Copy(w), p).labels = Fresh(Copy(w), p.labels)
        /\ CopyOptions(Copy(w), p).annotations = p.annotations
  BY <1>5 DEF CopyOptions
<1>7. Annotations(copy[w]) = Annotations(cached)
  BY <1>5, <1>6 DEF Annotations
<1>8. \A m : m \in Pointers(heap.texts) \/ m \in Pointers(heap.files)
             \/ m \in Pointers(heap.outputMaps) \/ m \in Pointers(heap.outputs) =>
        /\ Fresh(Copy(w), m) = Nil \/ Fresh(Copy(w), m) \in PlacesOf(Copy(w))
        /\ m = Nil \/ m[1] = Cached
  BY FreshNil DEF Addressed, OfCache
<1>9. Addresses(copy[w]) \subseteq PlacesOf(Copy(w)) \cup Annotations(cached)
  <2>1. {copy[w].spec.output, copy[w].status.stamp, copy[w].spec.template.labels,
         copy[w].spec.template.pod} \subseteq PlacesOf(Copy(w)) \cup {Nil}
    BY <1>1, <1>8 DEF PlacesOf
  <2>2. copy[w].spec.output # Nil =>
          heap.outputs[copy[w].spec.output].labels \in PlacesOf(Copy(w)) \cup {Nil}
    BY <1>2, <1>8
  <2>3. OutputMaps(copy[w]) \cup FileMaps(copy[w]) \subseteq PlacesOf(Copy(w)) \cup {Nil}
    BY <1>3, <1>4, <1>8
  <2>4. {p.labels : p \in Options(copy[w])} \subseteq PlacesOf(Copy(w)) \cup {Nil}
    BY <1>5, <1>6, <1>8
  <2> QED
    BY <1>7, <2>1, <2>2, <2>3, <2>4 DEF Addresses
<1>10. \A a \in Addresses(cached) : a[1] = Cached
  <2>1. \A p \in Options(cached) : /\ p.labels = Nil \/ p.labels[1] = Cached
                                   /\ p.annotations = Nil \/ p.annotations[1] = Cached
    BY <1>6, <1>8
  <2>2. \A a \in OutputMaps(cached) \cup FileMaps(cached) : a = Nil \/ a[1] = Cached
    BY <1>3, <1>4, <1>8
  <2> QED
    BY <1>1, <1>2, <1>8, <2>1, <2>2 DEF Addresses, Annotations
<1> QED
  BY <1>7, <1>9, <1>10

\* What the invariant says of a worker that has a copy.
LEMMA WithCopy ==
  ASSUME MemoryInv, NEW w \in Holders, copy[w] # Nil
  PROVE  /\ Addressed /\ CachedOK /\ CellsCopied(w)
         /\ copy[w].spec = CopySpec(Copy(w), cached.spec)
         /\ copy[w].status.stamp \in {Nil} \cup ({Copy(w)} \X Parts)
  BY DEF MemoryInv, Addressed, CopyOK

LEMMA InvEqual ==
  ASSUME MemoryInv
  PROVE  CopyEqualsOriginal
<1> SUFFICES ASSUME NEW w \in Holders, step[w] = "read"
             PROVE  Value(copy[w]) = Value(cached)
  BY DEF CopyEqualsOriginal
<1>1. /\ Addressed /\ CachedOK /\ CellsCopied(w) /\ copy[w] = CopyQuarksJob(Copy(w), cached)
      /\ copy[w].spec = CopySpec(Copy(w), cached.spec)
  BY DEF MemoryInv, Addressed, CopyOK
<1>2. /\ cached.spec.output \in Pointers(heap.outputs)
      /\ cached.status.stamp \in Pointers(heap.texts)
  BY <1>1 DEF CachedOK
<1>3. /\ copy[w].spec.output = Fresh(Copy(w), cached.spec.output)
      /\ copy[w].spec.strategy = cached.spec.strategy
      /\ copy[w].status.stamp = Fresh(Copy(w), cached.status.stamp)
      /\ copy[w].status.completed = cached.status.completed
  <2>1. cached \in [spec : [output : Pointers(heap.outputs), strategy : {"once"},
                            template : [labels : Pointers(heap.texts), pod : OfCache(heap.texts)]],
                    status : [stamp : Pointers(heap.texts), completed : BOOLEAN]]
    BY <1>1 DEF CachedOK
  <2>2. copy[w].spec = CopySpec(Copy(w), cached.spec) /\ copy[w].status = CopyStatus(Copy(w), cached.status)
    BY <1>1 DEF CopyQuarksJob
  <2>3. cached.spec \in [output : Pointers(heap.outputs), strategy : {"once"},
                         template : [labels : Pointers(heap.texts), pod : OfCache(heap.texts)]]
        /\ cached.status \in [stamp : Pointers(heap.texts), completed : BOOLEAN]
    BY <2>1
  <2> QED
    BY <2>2, <2>3 DEF CopySpec, CopyTrigger, CopyStatus
<1>4. TemplateValue(copy[w].spec.template) = TemplateValue(cached.spec.template)
  BY <1>1, TemplateCopied DEF CachedOK
<1>5. OutputValue(copy[w].spec.output) = OutputValue(cached.spec.output)
  BY <1>1, <1>2, <1>3, OutputValueCopied
<1>6. Text(copy[w].status.stamp) = Text(cached.status.stamp)
  BY <1>1, <1>2, <1>3, TextCopied
<1> QED
  BY <1>3, <1>4, <1>5, <1>6 DEF Value

LEMMA InvTemplate ==
  ASSUME MemoryInv
  PROVE  TemplateIsTheUsers
<1>1. Addressed /\ CachedOK
  BY DEF MemoryInv, Addressed
<1>2. TemplateValue(cached.spec.template) = stored
  BY <1>1 DEF CachedOK
<1>3. \A w \in Holders : copy[w] # Nil => TemplateValue(copy[w].spec.template) = stored
  BY WithCopy, TemplateCopied
<1>4. /\ cached.spec.template.labels \in Pointers(heap.texts)
      /\ cached.spec.template.pod \in OfCache(heap.texts)
      /\ \A a \in OfCache(heap.texts) : "job" \notin heap.texts[a]
  BY <1>1 DEF CachedOK
<1>5. cached.spec.template.pod # Nil
  BY <1>1, <1>4, AddressParts DEF Addressed, AddressesOK, OfCache
<1>6. "job" \notin stored.pod /\ (stored.labels # Nil => "job" \notin stored.labels)
  BY <1>2, <1>4, <1>5 DEF TemplateValue, Text, Pointers
<1> QED
  BY <1>2, <1>3, <1>6 DEF TemplateIsTheUsers, Objects

LEMMA InvShared ==
  ASSUME MemoryInv
  PROVE  OnlyAnnotationsShared
<1> SUFFICES ASSUME NEW w \in Holders, NEW o \in Objects, copy[w] # Nil, copy[w] # o
             PROVE  Addresses(copy[w]) \cap Addresses(o) \subseteq Annotations(o)
  BY DEF OnlyAnnotationsShared
<1>1. /\ Annotations(copy[w]) = Annotations(cached)
      /\ Addresses(copy[w]) \subseteq PlacesOf(Copy(w)) \cup Annotations(cached)
      /\ \A a \in Addresses(cached) : a[1] = Cached
  BY WithCopy, CopyAddresses
<1>2. Annotations(cached) \subseteq Addresses(cached)
  BY DEF Addresses, Annotations
<1>3. \A a \in PlacesOf(Copy(w)) : a[1] = Copy(w)
  BY DEF PlacesOf
<1>4. CASE o = cached
  BY <1>1, <1>3, <1>4, OwnersDiffer
<1>5. ASSUME NEW v \in Holders, copy[v] # Nil, o = copy[v]
      PROVE  Addresses(copy[w]) \cap Addresses(o) \subseteq Annotations(o)
  <2>1. /\ Annotations(copy[v]) = Annotations(cached)
        /\ Addresses(copy[v]) \subseteq PlacesOf(Copy(v)) \cup Annotations(cached)
    BY <1>5, WithCopy, CopyAddresses
  <2>2. Copy(v) # Copy(w)
    BY <1>5, OwnersDiffer
  <2>3. PlacesOf(Copy(v)) \cap PlacesOf(Copy(w)) = {}
    BY <2>2 DEF PlacesOf
  <2> QED
    BY <1>1, <1>5, <2>1, <2>3
<1> QED
  BY <1>4, <1>5 DEF Objects

-----------------------------------------------------------------------------
(* Theorems.                                                               *)

\* In every reachable state the cells of the cached QuarksJob are as they were
\* decoded, and those of a worker's copy, but for the stamp, are copies of them:
\* nobody writes through a pointer that another object holds
\* (zz_generated.deepcopy.go:16-252, job_creator.go:61-120).
THEOREM MemoryInvCorrect == MemorySpec => []MemoryInv
<1>1. MemoryInit => MemoryInv
  BY InitMemory
<1>2. MemoryInv /\ [MemoryNext]_memoryVars => MemoryInv'
  BY StepMemory
<1> QED
  BY <1>1, <1>2, PTL DEF MemorySpec

\* The generated functions copy a QuarksJob to one of the same value, whichever
\* optional maps, slices and pointers it lacks, and keep doing so while others
\* work with copies of their own (zz_generated.deepcopy.go:16-252).
THEOREM CopyEqualsOriginalCorrect == MemorySpec => []CopyEqualsOriginal
<1>1. MemoryInv => CopyEqualsOriginal
  BY InvEqual
<1> QED
  BY <1>1, MemoryInvCorrect, PTL

\* The volumes, the container and the label that the job creator adds to a Job's
\* template are in no QuarksJob in memory and are never stored with one
\* (job_creator.go:61, 73-120).
THEOREM TemplateIsTheUsersCorrect == MemorySpec => []TemplateIsTheUsers
<1>1. MemoryInv => TemplateIsTheUsers
  BY InvTemplate
<1> QED
  BY <1>1, MemoryInvCorrect, PTL

\* The annotations of the output's Secrets are all that two objects in memory
\* share, a worker's copy and the cache or two workers' copies: however many
\* workers there are, a write anywhere else shows in one object alone
\* (zz_generated.deepcopy.go:16-252, types.go:90).
THEOREM OnlyAnnotationsSharedCorrect == MemorySpec => []OnlyAnnotationsShared
<1>1. MemoryInv => OnlyAnnotationsShared
  BY InvShared
<1> QED
  BY <1>1, MemoryInvCorrect, PTL
=============================================================================
