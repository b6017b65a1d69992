--------------------------- MODULE PersistorProofs ---------------------------
(***************************************************************************)
(* Proofs about the output persistor, for any containers, output map and   *)
(* names of Secrets, and any number of mishaps.                            *)
(***************************************************************************)
EXTENDS OutputPersistor, FiniteSetTheorems, TLAPS

-----------------------------------------------------------------------------
(* The pieces of output.                                                   *)

\* The pieces of a file are output of its container and name the file.
LEMMA ItemFacts ==
  ASSUME NEW c \in Mapped, NEW f \in PrefixedPaths(c)
  PROVE  /\ f \in Files
         /\ ItemsOf(c, f) \subseteq Output(c) /\ ItemsOf(c, f) \subseteq Items
         /\ \A item \in ItemsOf(c, f) : item[1] = f /\ item # None
<1>1. f \in Files
  BY PersistorAssumption DEF PrefixedPaths
<1>2. ItemsOf(c, f) \subseteq Output(c)
  BY DEF Output
<1>3. \A item \in ItemsOf(c, f) : item[1] = f /\ item # None
  BY DEF ItemsOf, None
<1> QED
  BY <1>1, <1>2, <1>3 DEF Items

\* Every piece of output belongs to a file of the container and is one of
\* Items.
LEMMA OutputFacts ==
  ASSUME NEW c \in Mapped, NEW item \in Output(c)
  PROVE  /\ item[1] \in PrefixedPaths(c) /\ item \in Items /\ item # None
         /\ item \in ItemsOf(c, item[1])
<1>1. PICK f \in PrefixedPaths(c) : item \in ItemsOf(c, f)
  BY DEF Output
<1>2. item[1] = f /\ item # None
  BY <1>1, ItemFacts
<1> QED
  BY <1>1, <1>2 DEF Items

\* What a goroutine reads of a file has the type of its data.
LEMMA ReadType ==
  ASSUME NEW c \in Mapped, NEW f \in PrefixedPaths(c)
  PROVE  /\ \A wrong : ReadAs(c, f, wrong) \in [Items -> Values]
         /\ NothingRead(c, f) \in [Items -> Values]
  BY DEF ReadAs, NothingRead, Values

-----------------------------------------------------------------------------
(* Types.                                                                  *)

LEMMA InitType == PersistorInit => PersistorTypeOK
<1> SUFFICES ASSUME PersistorInit PROVE PersistorTypeOK
  OBVIOUS
<1>1. Cardinality(Containers) \in Nat
  BY PersistorAssumption, FS_CardinalityType
<1>2. secrets \in [Secrets -> Values]
  BY DEF PersistorInit, Values
<1>3. data \in [Mapped -> [Items -> Values]]
  BY DEF PersistorInit, NoData, Values
<1> QED
  BY <1>1, <1>2, <1>3, PersistorAssumption DEF PersistorInit, PersistorTypeOK, Contents, PCs

\* A mishap keeps the type of the bound.
LEMMA MishapType ==
  ASSUME mishaps \in 0 .. Mishaps, Mishap
  PROVE  mishaps' \in 0 .. Mishaps
  BY PersistorAssumption DEF Mishap

LEMMA ContainerType ==
  ASSUME PersistorTypeOK, NEW c \in Containers, Container(c)
  PROVE  PersistorTypeOK'
<1>1. ASSUME NEW f \in PrefixedPaths(c), CreateFile(c, f)
      PROVE  PersistorTypeOK'
  <2>1. c \in Mapped
    BY DEF PrefixedPaths
  <2>2. f \in Files
    BY <2>1, ItemFacts
  <2>3. events' \in [Mapped -> SUBSET Files]
    BY <1>1, <2>1, <2>2 DEF PersistorTypeOK, CreateFile
  <2>4. file' \in [Files -> Contents]
    BY <1>1 DEF PersistorTypeOK, CreateFile, Contents
  <2>5. missed' \subseteq Files
    BY <1>1, <2>2 DEF PersistorTypeOK, CreateFile
  <2> QED
    BY <1>1, <2>3, <2>4, <2>5 DEF PersistorTypeOK, CreateFile, mainVars
<1>2. ASSUME NEW f \in PrefixedPaths(c), WriteFile(c, f)
      PROVE  PersistorTypeOK'
  <2>1. file' \in [Files -> Contents]
    BY <1>2 DEF PersistorTypeOK, WriteFile, Contents
  <2>2. mishaps' \in 0 .. Mishaps
    BY <1>2, MishapType DEF PersistorTypeOK, WriteFile
  <2> QED
    BY <1>2, <2>1, <2>2 DEF PersistorTypeOK, WriteFile, mainVars, goVars
<1>3. CASE ExitContainer(c)
  <2>1. exit' \in [Containers -> Codes \cup {Running}]
    BY <1>3 DEF PersistorTypeOK, ExitContainer
  <2>2. mishaps' \in 0 .. Mishaps
    BY <1>3, MishapType DEF PersistorTypeOK, ExitContainer
  <2> QED
    BY <1>3, <2>1, <2>2 DEF PersistorTypeOK, ExitContainer, mainVars, goVars
<1> QED
  BY <1>1, <1>2, <1>3 DEF Container

LEMMA GoroutineType ==
  ASSUME PersistorTypeOK, NEW c \in Mapped, Goroutine(c)
  PROVE  PersistorTypeOK'
<1> USE DEF PersistorTypeOK, podVars, mainVars, Goto, Send, PCs
<1>1. CASE Checked(c)
  BY <1>1 DEF Checked
<1>2. CASE AddWatch(c)
  BY <1>2, MishapType DEF AddWatch
<1>3. CASE WatchError(c)
  BY <1>3, MishapType DEF WatchError
<1>4. CASE Poll(c)
  <2>1. PrefixedPaths(c) \subseteq Files
    BY ItemFacts
  <2>2. mishaps' \in 0 .. Mishaps
    BY <1>4, MishapType DEF Poll
  <2>3. pc' \in [Mapped -> PCs] /\ out' \in [Mapped -> {"none", "nil", "error"}]
    BY <1>4 DEF Poll
  <2>4. todo' \in [Mapped -> SUBSET Files]
    BY <1>4, <2>1 DEF Poll
  <2> QED
    BY <1>4, <2>2, <2>3, <2>4 DEF Poll
<1>5. CASE Finish(c)
  BY <1>5 DEF Finish
<1>6. ASSUME NEW f \in PrefixedPaths(c), CheckFile(c, f)
      PROVE  PersistorTypeOK'
  <2>1. f \in Files
    BY ItemFacts
  <2>2. todo' \in [Mapped -> SUBSET Files] /\ seen' \in [Mapped -> SUBSET Files]
    BY <1>6, <2>1 DEF CheckFile
  <2> QED
    BY <1>6, <2>2 DEF CheckFile
<1>7. ASSUME NEW f \in PrefixedPaths(c), Notice(c, f)
      PROVE  PersistorTypeOK'
  <2>1. f \in Files
    BY ItemFacts
  <2>2. events' \in [Mapped -> SUBSET Files] /\ seen' \in [Mapped -> SUBSET Files]
    BY <1>7, <2>1 DEF Notice
  <2>3. pc' \in [Mapped -> PCs]
    BY <1>7 DEF Notice
  <2> QED
    BY <1>7, <2>2, <2>3 DEF Notice
<1>8. ASSUME NEW f \in PrefixedPaths(c), ReadFile(c, f)
      PROVE  PersistorTypeOK'
  <2>1. PICK read \in [Items -> Values] : Took(c, f, read)
    BY <1>8, ReadType DEF ReadFile
  <2>2. todo' \in [Mapped -> SUBSET Files] /\ data' \in [Mapped -> [Items -> Values]]
    BY <2>1 DEF Took
  <2>3. /\ out' \in [Mapped -> {"none", "nil", "error"}] /\ pc' \in [Mapped -> PCs]
        /\ mishaps' \in 0 .. Mishaps
    BY <1>8, MishapType DEF ReadFile
  <2> QED
    BY <1>8, <2>2, <2>3 DEF ReadFile
<1>9. ASSUME NEW item \in Pending(c), UnmarshalValue(c, item)
      PROVE  PersistorTypeOK'
  <2>1. item \in Items
    BY DEF Pending
  <2>2. data' \in [Mapped -> [Items -> Values]]
    BY <1>9, <2>1 DEF UnmarshalValue, Values
  <2>3. /\ hand' \in [Mapped -> Items \cup {None}] /\ mishaps' \in 0 .. Mishaps
        /\ out' \in [Mapped -> {"none", "nil", "error"}]
    BY <1>9, <2>1, MishapType DEF UnmarshalValue
  <2> QED
    BY <1>9, <2>2, <2>3 DEF UnmarshalValue
<1>10. ASSUME NEW item \in Pending(c), StoreSecret(c, item)
       PROVE  PersistorTypeOK'
  <2>1. item \in Items /\ None \in Values
    BY DEF Pending, Values
  <2>2. secrets' \in [Secrets -> Values]
    BY <1>10, <2>1 DEF StoreSecret
  <2>3. data' \in [Mapped -> [Items -> Values]]
    BY <1>10, <2>1 DEF StoreSecret
  <2>4. /\ hand' \in [Mapped -> Items \cup {None}] /\ mishaps' \in 0 .. Mishaps
        /\ out' \in [Mapped -> {"none", "nil", "error"}]
    BY <1>10, MishapType DEF StoreSecret
  <2> QED
    BY <1>10, <2>2, <2>3, <2>4 DEF StoreSecret
<1>11. CASE UnmarshalNothing(c)
  BY <1>11 DEF UnmarshalNothing
<1> QED
  BY <1>1, <1>2, <1>3, <1>4, <1>5, <1>6, <1>7, <1>8, <1>9, <1>10, <1>11 DEF Goroutine

LEMMA PersistType ==
  ASSUME PersistorTypeOK,
         \/ AuthenticateInCluster \/ FetchPod \/ Begin \/ Return \/ End
         \/ \E c \in Mapped : Receive(c)
  PROVE  PersistorTypeOK'
<1> USE DEF PersistorTypeOK, podVars, mainVars, goVars
<1>0. Cardinality(Containers) \in Nat
  BY PersistorAssumption, FS_CardinalityType
<1>1. CASE AuthenticateInCluster
  BY <1>1, MishapType DEF AuthenticateInCluster, NewForConfig, QuarksjobV1alpha1
<1>2. CASE FetchPod
  BY <1>2, MishapType DEF FetchPod
<1>3. CASE Begin
  <2>1. \A c \in Mapped : PrefixedPaths(c) \subseteq Files
    BY ItemFacts
  <2>2. mishaps' \in 0 .. Mishaps
    BY <1>3, MishapType DEF Begin, GetQJob
  <2>3. main' \in {"start", "pod", "qjob", "waiting", "ok", "error"}
    BY <1>3 DEF Begin
  <2>4. pc' \in [Mapped -> PCs] /\ todo' \in [Mapped -> SUBSET Files]
    BY <1>3, <2>1 DEF Begin, PCs
  <2> QED
    BY <1>3, <2>2, <2>3, <2>4 DEF Begin
<1>4. CASE Return
  BY <1>4 DEF Return
<1>5. CASE End
  BY <1>5, MishapType DEF End
<1>6. ASSUME NEW c \in Mapped, Receive(c)
      PROVE  PersistorTypeOK'
  BY <1>0, <1>6 DEF Receive, Expected
<1> QED
  BY <1>1, <1>2, <1>3, <1>4, <1>5, <1>6

\* Every variable keeps its type.
THEOREM PersistorTypeCorrect == PersistorSafety => []PersistorTypeOK
<1>1. PersistorTypeOK /\ [PersistorNext]_persistorVars => PersistorTypeOK'
  <2> SUFFICES ASSUME PersistorTypeOK, [PersistorNext]_persistorVars
               PROVE  PersistorTypeOK'
    OBVIOUS
  <2>1. CASE UNCHANGED persistorVars
    BY <2>1 DEF PersistorTypeOK, persistorVars, podVars, mainVars, goVars
  <2> QED
    BY <2>1, ContainerType, GoroutineType, PersistType DEF PersistorNext
<1> QED
  BY <1>1, InitType, PTL DEF PersistorSafety

-----------------------------------------------------------------------------
(* What a goroutine knows of its container.                                *)

\* Before Persist starts its goroutines there are none.
BeforeBegin ==
  main \in {"start", "pod", "qjob"} =>
    received = 0 /\ \A c \in Mapped : pc[c] = "none" /\ out[c] = "none"

LEMMA StepBeforeBegin ==
  ASSUME PersistorTypeOK, BeforeBegin, [PersistorNext]_persistorVars
  PROVE  BeforeBegin'
<1> USE DEF BeforeBegin, podVars, mainVars, goVars
<1>1. CASE UNCHANGED persistorVars
  BY <1>1 DEF persistorVars
<1>2. CASE \E c \in Containers : Container(c)
  BY <1>2 DEF Container, CreateFile, WriteFile, ExitContainer
<1>3. ASSUME NEW c \in Mapped, Goroutine(c)
      PROVE  BeforeBegin'
  <2>1. UNCHANGED main
    BY <1>3 DEF Goroutine, Checked, AddWatch, WatchError, Poll, Finish, CheckFile, Notice,
                ReadFile, UnmarshalNothing, UnmarshalValue, StoreSecret
  <2>2. pc[c] # "none"
    BY <1>3 DEF Goroutine, Checked, AddWatch, WatchError, Poll, Finish, CheckFile, Notice,
                ReadFile, Took, UnmarshalNothing, UnmarshalValue, StoreSecret, At
  <2> QED
    BY <2>1, <2>2
<1>4. CASE \E c \in Mapped : Receive(c)
  BY <1>4 DEF Receive
<1>5. CASE AuthenticateInCluster \/ FetchPod \/ Begin \/ Return \/ End
  BY <1>5 DEF AuthenticateInCluster, FetchPod, Begin, Return, End
<1> QED
  BY <1>1, <1>2, <1>3, <1>4, <1>5 DEF PersistorNext

\* A goroutine's step is its own, made when it is not blocked and not gone; it
\* ends with a message.
LEMMA GoroutineFrame ==
  ASSUME PersistorTypeOK, NEW c \in Mapped, Goroutine(c)
  PROVE  /\ UNCHANGED <<mainVars, alive, podVars>>
         /\ out[c] = "none" /\ pc[c] \notin {"none", "gone"}
         /\ \A d \in Mapped \ {c} : pc'[d] = pc[d] /\ out'[d] = out[d] /\ todo'[d] = todo[d]
                                    /\ data'[d] = data[d]
         /\ pc'[c] = "gone" => out'[c] # "none"
         /\ out'[c] = "nil" => pc'[c] = "gone"
         /\ pc'[c] \in PCs /\ out'[c] \in {"none", "nil", "error"}
<1> USE DEF PersistorTypeOK, At, Runs, Goto, Send, PCs
<1>1. CASE Checked(c)
  BY <1>1 DEF Checked
<1>2. CASE AddWatch(c)
  BY <1>2 DEF AddWatch
<1>3. CASE WatchError(c)
  BY <1>3 DEF WatchError
<1>4. CASE Poll(c)
  BY <1>4 DEF Poll
<1>5. CASE Finish(c)
  BY <1>5 DEF Finish
<1>6. CASE \E f \in PrefixedPaths(c) : CheckFile(c, f)
  BY <1>6 DEF CheckFile
<1>7. CASE \E f \in PrefixedPaths(c) : Notice(c, f)
  BY <1>7 DEF Notice
<1>8. CASE \E f \in PrefixedPaths(c) : ReadFile(c, f)
  BY <1>8 DEF ReadFile, Took
<1>9. CASE \E item \in Pending(c) : UnmarshalValue(c, item)
  BY <1>9 DEF UnmarshalValue
<1>10. CASE \E item \in Pending(c) : StoreSecret(c, item)
  BY <1>10 DEF StoreSecret
<1>11. CASE UnmarshalNothing(c)
  BY <1>11 DEF UnmarshalNothing
<1> QED
  BY <1>1, <1>2, <1>3, <1>4, <1>5, <1>6, <1>7, <1>8, <1>9, <1>10, <1>11 DEF Goroutine

\* Everything a goroutine has read is from a good file, as it is there.
Sound(c) == \A item \in Pending(c) : data[c][item] = item /\ file[item[1]] = "good"

\* A goroutine stores output only of a container that has ended as required;
\* what it has read is output of its container, and if it is not as the
\* container meant it, Persist knows or is the next to know.
Holds(c) ==
  /\ pc[c] \in {"persist", "unread"} => exit[c] # Running /\ IsPersisted(exit[c])
  /\ Pending(c) # {} => pc[c] \in {"persist", "unread"}
  /\ Pending(c) \subseteq Output(c)
  /\ \A item \in Items : data[c][item] \in {None, item, Empty, Incomplete}
  /\ main = "error" \/ out[c] = "error" \/ Sound(c)

StoringInv == \A c \in Mapped : Holds(c)

LEMMA ContainerStoring ==
  ASSUME PersistorTypeOK, StoringInv, NEW d \in Containers, Container(d)
  PROVE  StoringInv'
<1> SUFFICES ASSUME NEW c \in Mapped PROVE Holds(c)'
  BY DEF StoringInv
<1>1. UNCHANGED <<pc, out, data, main>>
  BY DEF Container, CreateFile, WriteFile, ExitContainer, goVars, mainVars
<1>2. exit[c] # Running => exit'[c] = exit[c]
  <2>1. c \in Containers
    BY PersistorAssumption
  <2>2. CASE ExitContainer(d)
    <3>1. PICK code \in Codes : exit' = [exit EXCEPT ![d] = code]
      BY <2>2 DEF ExitContainer
    <3> QED
      BY <2>1, <2>2, <3>1 DEF ExitContainer, PersistorTypeOK
  <2>3. CASE UNCHANGED exit
    BY <2>3
  <2> QED
    BY <2>2, <2>3 DEF Container, CreateFile, WriteFile
<1>3. \A f \in Files : file[f] = "good" => file'[f] = "good"
  BY DEF Container, CreateFile, WriteFile, ExitContainer, PersistorTypeOK
<1>4. Holds(c)
  BY DEF StoringInv
<1>5. Pending(c)' = Pending(c)
  BY <1>1 DEF Pending
<1>6. Sound(c) => Sound(c)'
  <2>1. \A item \in Pending(c) : item[1] \in Files
    BY <1>4, OutputFacts, ItemFacts DEF Holds
  <2> QED
    BY <1>1, <1>3, <1>5, <2>1 DEF Sound
<1> QED
  BY <1>1, <1>2, <1>4, <1>5, <1>6 DEF Holds

\* What the goroutine that makes the step holds after it.
LEMMA ReadHolds ==
  ASSUME PersistorTypeOK, NEW c \in Mapped, Holds(c),
         NEW f \in PrefixedPaths(c), ReadFile(c, f)
  PROVE  Holds(c)'
<1> USE DEF PersistorTypeOK, podVars, mainVars, Goto, Send
<1>1. PICK read \in [Items -> Values] :
        /\ Took(c, f, read)
        /\ \/ read = NothingRead(c, f)
           \/ \E wrong \in SUBSET ItemsOf(c, f) : read = ReadAs(c, f, wrong)
        /\ out'[c] = "error" \/ (file[f] = "good" /\ read = ReadAs(c, f, {}))
  BY ReadType DEF ReadFile
<1>2. /\ pc[c] = "persist" /\ pc'[c] \in {"persist", "unread"}
      /\ data'[c] = read /\ UNCHANGED <<exit, file, main>>
  BY <1>1 DEF ReadFile, Took, At
<1>3. \A item \in Items :
        /\ read[item] \in {None, item, Empty, Incomplete}
        /\ item \notin ItemsOf(c, f) => read[item] = None
  BY <1>1 DEF ReadAs, NothingRead
<1>4. ASSUME NEW item \in Pending(c)' PROVE item \in ItemsOf(c, f)
  <2>1. data'[c] = read
    BY <1>2
  <2>2. item \in Items /\ data'[c][item] # None
    BY <1>4 DEF Pending
  <2>3. item \in Items /\ read[item] # None
    BY <2>1, <2>2, Zenon
  <2> QED
    BY <1>3, <2>3, Zenon
<1>5. ASSUME read = ReadAs(c, f, {}), file[f] = "good" PROVE Sound(c)'
  BY <1>2, <1>4, <1>5, ItemFacts DEF Sound, ReadAs
<1>6. pc'[c] \in {"persist", "unread"} => exit'[c] # Running /\ IsPersisted(exit'[c])
  BY <1>2 DEF Holds
<1>7. Pending(c)' \subseteq Output(c)
  BY <1>4, ItemFacts, Zenon
<1>8. \A item \in Items : data'[c][item] \in {None, item, Empty, Incomplete}
  BY <1>2, <1>3, Zenon
<1>9. main' = "error" \/ out'[c] = "error" \/ Sound(c)'
  BY <1>1, <1>5, Zenon
<1> QED
  BY <1>2, <1>6, <1>7, <1>8, <1>9 DEF Holds

LEMMA UnmarshalHolds ==
  ASSUME PersistorTypeOK, NEW c \in Mapped, Holds(c),
         NEW item \in Pending(c), UnmarshalValue(c, item)
  PROVE  Holds(c)'
<1> USE DEF PersistorTypeOK, podVars, mainVars, Send
<1>1. item \in Items /\ data[c][item] # None
  BY DEF Pending
<1>2. UNCHANGED <<pc, exit, file, main>>
  BY DEF UnmarshalValue
<1>3. CASE UNCHANGED <<data, out>>
  BY <1>2, <1>3 DEF Holds, Pending, Sound
<1>4. CASE out'[c] = "error"
  <2>1. /\ \A i \in Items \ {item} : data'[c][i] = data[c][i]
        /\ data'[c][item] \in {item, Empty, Incomplete}
    BY <1>1 DEF UnmarshalValue
  <2>2. Pending(c)' \subseteq Pending(c) \cup {item}
    BY <2>1 DEF Pending
  <2> QED
    BY <1>2, <1>4, <2>1, <2>2 DEF Holds
<1> QED
  BY <1>3, <1>4 DEF UnmarshalValue

LEMMA StoreHolds ==
  ASSUME PersistorTypeOK, NEW c \in Mapped, Holds(c),
         NEW item \in Pending(c), StoreSecret(c, item)
  PROVE  Holds(c)'
<1> USE DEF PersistorTypeOK, podVars, mainVars, Send
<1>1. item \in Items
  BY DEF Pending
<1>2. UNCHANGED <<pc, exit, file, main>> /\ out'[c] \in {out[c], "error"}
  BY DEF StoreSecret
<1>3. /\ \A i \in Items \ {item} : data'[c][i] = data[c][i]
      /\ data'[c][item] = None
  BY <1>1 DEF StoreSecret
<1>4. Pending(c)' = Pending(c) \ {item}
  BY <1>3 DEF Pending
<1>5. Sound(c) => Sound(c)'
  BY <1>2, <1>3, <1>4 DEF Sound, Pending
<1> QED
  BY <1>2, <1>3, <1>4, <1>5 DEF Holds

LEMMA GoroutineStoring ==
  ASSUME PersistorTypeOK, StoringInv, NEW d \in Mapped, Goroutine(d)
  PROVE  StoringInv'
<1> SUFFICES ASSUME NEW c \in Mapped PROVE Holds(c)'
  BY DEF StoringInv
<1>1. Holds(c) /\ Holds(d)
  BY DEF StoringInv
<1>2. CASE c # d
  <2>1. /\ UNCHANGED <<main, exit, file>>
        /\ pc'[c] = pc[c] /\ out'[c] = out[c] /\ data'[c] = data[c]
    BY <1>2, GoroutineFrame DEF podVars, mainVars
  <2> QED
    BY <1>1, <2>1 DEF Holds, Pending, Sound
<1>3. CASE c = d
  <2> USE DEF PersistorTypeOK, podVars, mainVars, At, Runs, Goto, Send
  <2>1. ASSUME UNCHANGED <<data, exit, file, main>>, pc[c] \notin {"persist", "unread"},
               pc'[c] \in {"persist", "unread"} => exit[c] # Running /\ IsPersisted(exit[c])
        PROVE  Holds(c)'
    BY <1>1, <2>1 DEF Holds, Pending, Sound
  <2>2. CASE Checked(c) \/ AddWatch(c) \/ WatchError(c) \/ Poll(c)
    BY <2>1, <2>2 DEF Checked, AddWatch, WatchError, Poll
  <2>3. CASE \E f \in PrefixedPaths(c) : CheckFile(c, f) \/ Notice(c, f)
    BY <2>1, <2>3 DEF CheckFile, Notice
  <2>4. CASE Finish(c)
    <3>1. UNCHANGED <<data, exit, file, main>> /\ pc'[c] = "gone" /\ Pending(c) = {}
      BY <1>1, <2>4 DEF Finish, Holds
    <3>2. Pending(c)' = {}
      BY <3>1 DEF Pending
    <3> QED
      BY <1>1, <3>1, <3>2 DEF Holds, Sound
  <2>5. CASE UnmarshalNothing(c)
    <3>1. /\ UNCHANGED <<data, exit, file, main>> /\ out'[c] = "error"
          /\ pc[c] = "unread" /\ pc'[c] = "persist"
      BY <2>5 DEF UnmarshalNothing
    <3> QED
      BY <1>1, <3>1 DEF Holds, Pending
  <2>6. CASE \E f \in PrefixedPaths(c) : ReadFile(c, f)
    BY <1>1, <2>6, ReadHolds
  <2>7. CASE \E item \in Pending(c) : UnmarshalValue(c, item) \/ StoreSecret(c, item)
    BY <1>1, <2>7, UnmarshalHolds, StoreHolds
  <2> QED
    BY <1>3, <2>2, <2>3, <2>4, <2>5, <2>6, <2>7 DEF Goroutine
<1> QED
  BY <1>2, <1>3

LEMMA PersistStoring ==
  ASSUME PersistorTypeOK, BeforeBegin, StoringInv,
         \/ AuthenticateInCluster \/ FetchPod \/ Begin \/ Return \/ End
         \/ \E c \in Mapped : Receive(c)
  PROVE  StoringInv'
<1> SUFFICES ASSUME NEW c \in Mapped PROVE Holds(c)'
  BY DEF StoringInv
<1>1. UNCHANGED <<exit, file, data>> /\ Holds(c)
  BY DEF AuthenticateInCluster, FetchPod, Begin, Return, End, Receive, podVars, goVars, StoringInv
<1>2. main = "error" => main' = "error"
  BY DEF AuthenticateInCluster, FetchPod, Begin, Return, End, Receive, mainVars
<1>3. out[c] = "error" => out'[c] = "error" \/ main' = "error"
  BY DEF AuthenticateInCluster, FetchPod, Begin, Return, End, Receive, goVars, PersistorTypeOK
<1>4. \/ pc'[c] = pc[c]
      \/ pc[c] = "none" /\ pc'[c] = "look"
  BY DEF AuthenticateInCluster, FetchPod, Begin, Return, End, Receive, goVars, BeforeBegin
<1>5. Pending(c)' = Pending(c) /\ Sound(c)' = Sound(c)
  BY <1>1 DEF Pending, Sound
<1> QED
  BY <1>1, <1>2, <1>3, <1>4, <1>5 DEF Holds

\* The invariants of the goroutines hold.
THEOREM StoringCorrect == PersistorSafety => [](BeforeBegin /\ StoringInv)
<1>1. PersistorInit => BeforeBegin /\ StoringInv
  BY DEF PersistorInit, BeforeBegin, StoringInv, Holds, Pending, Sound, NoData
<1>2. /\ PersistorTypeOK /\ BeforeBegin /\ StoringInv /\ [PersistorNext]_persistorVars
      => (BeforeBegin /\ StoringInv)'
  <2> SUFFICES ASSUME PersistorTypeOK, BeforeBegin, StoringInv, [PersistorNext]_persistorVars
               PROVE  BeforeBegin' /\ StoringInv'
    OBVIOUS
  <2>1. CASE UNCHANGED persistorVars
    BY <2>1 DEF BeforeBegin, StoringInv, Holds, Pending, Sound, persistorVars, podVars, mainVars,
                goVars
  <2> QED
    BY <2>1, StepBeforeBegin, ContainerStoring, GoroutineStoring, PersistStoring
    DEF PersistorNext
<1> QED
  BY <1>1, <1>2, PersistorTypeCorrect, PTL DEF PersistorSafety

\* A Secret is written only after a container that has output of its name has
\* ended as required, and with anything but a whole piece of a good file only when
\* Persist has received an error (output_persistor.go:122-180, 189-202).
THEOREM StoredAfterExitCorrect == PersistorSafety => StoredAfterExit
<1>1. PersistorTypeOK /\ StoringInv /\ [PersistorNext]_persistorVars
      => [\A s \in Secrets : secrets'[s] # secrets[s] =>
            \E c \in Mapped : \E item \in Output(c) :
              /\ SecretOf(c, item) = s
              /\ exit[c] # Running /\ IsPersisted(exit[c])
              /\ secrets'[s] \in {item, Empty, Incomplete}
              /\ main # "error" => secrets'[s] = item /\ file[item[1]] = "good"]_persistorVars
  <2> SUFFICES ASSUME PersistorTypeOK, StoringInv, [PersistorNext]_persistorVars,
                      NEW s \in Secrets, secrets'[s] # secrets[s]
               PROVE  \E c \in Mapped : \E item \in Output(c) :
                        /\ SecretOf(c, item) = s
                        /\ exit[c] # Running /\ IsPersisted(exit[c])
                        /\ secrets'[s] \in {item, Empty, Incomplete}
                        /\ main # "error" => secrets'[s] = item /\ file[item[1]] = "good"
    OBVIOUS
  <2>1. PICK c \in Mapped : \E item \in Pending(c) : StoreSecret(c, item)
    BY DEF persistorVars, PersistorNext, Container, CreateFile, WriteFile, ExitContainer,
           Goroutine, Checked, AddWatch, WatchError, Poll, Finish, CheckFile, Notice, ReadFile,
           UnmarshalNothing, UnmarshalValue,
           Receive, AuthenticateInCluster, FetchPod, Begin, Return, End
  <2>2. PICK item \in Pending(c) : StoreSecret(c, item)
    BY <2>1
  <2>3. Holds(c) /\ pc[c] = "persist" /\ out[c] = "none"
    BY <2>2 DEF StoringInv, StoreSecret, At, Runs
  <2>4. SecretOf(c, item) = s /\ secrets'[s] = data[c][item]
    BY <2>2 DEF StoreSecret, PersistorTypeOK
  <2>5. item \in Output(c) /\ exit[c] # Running /\ IsPersisted(exit[c])
    BY <2>3 DEF Holds
  <2>6. data[c][item] \in {item, Empty, Incomplete}
    BY <2>3 DEF Holds, Pending
  <2>7. main # "error" => data[c][item] = item /\ file[item[1]] = "good"
    BY <2>3 DEF Holds, Sound
  <2> QED
    BY <2>4, <2>5, <2>6, <2>7
<1> QED
  BY <1>1, PersistorTypeCorrect, StoringCorrect, PTL DEF PersistorSafety, StoredAfterExit

-----------------------------------------------------------------------------
(* What Persist knows of the goroutines.                                   *)

\* Persist counts messages, or has returned having counted them.
Counting == main = "waiting" \/ (main = "ok" /\ wanted)

\* Goroutines whose last message has been received.
Finished == {c \in Mapped : pc[c] = "gone" /\ out[c] = "none"}

\* A message without an error is a goroutine's last one, and as long as none
\* with an error has been received, each received message is one of these.
CountInv ==
  /\ \A c \in Mapped : out[c] = "nil" => pc[c] = "gone"
  /\ Counting => received = Cardinality(Finished)
  /\ Counting /\ main = "ok" => received = Expected

LEMMA FinishedFinite ==
  IsFiniteSet(Mapped) /\ IsFiniteSet(Finished) /\ Cardinality(Finished) \in Nat
<1>1. IsFiniteSet(Mapped)
  BY PersistorAssumption, FS_Subset
<1>2. Finished \subseteq Mapped
  BY DEF Finished
<1>3. IsFiniteSet(Finished)
  BY <1>1, <1>2, FS_Subset
<1> QED
  BY <1>1, <1>3, FS_CardinalityType

LEMMA StepCount ==
  ASSUME PersistorTypeOK, BeforeBegin, CountInv, [PersistorNext]_persistorVars
  PROVE  CountInv'
<1>1. CASE UNCHANGED <<pc, out, mainVars>>
  <2>1. Finished' = Finished
    BY <1>1 DEF Finished
  <2> QED
    BY <1>1, <2>1 DEF CountInv, Counting, Expected, mainVars
<1>2. ASSUME NEW c \in Mapped, Goroutine(c)
      PROVE  CountInv'
  <2>1. Finished' = Finished
    BY <1>2, GoroutineFrame DEF Finished
  <2>2. \A d \in Mapped : out'[d] = "nil" => pc'[d] = "gone"
    BY <1>2, GoroutineFrame DEF CountInv
  <2>3. UNCHANGED <<main, wanted, received>>
    BY <1>2, GoroutineFrame DEF mainVars
  <2> QED
    BY <2>1, <2>2, <2>3 DEF CountInv, Counting, Expected
<1>3. ASSUME NEW c \in Mapped, Receive(c)
      PROVE  CountInv'
  <2>1. \A d \in Mapped : pc'[d] = pc[d] /\ out'[d] = IF d = c THEN "none" ELSE out[d]
    BY <1>3 DEF Receive, PersistorTypeOK
  <2>2. CASE out[c] = "error"
    BY <1>3, <2>1, <2>2 DEF Receive, CountInv, Counting
  <2>3. CASE out[c] = "nil"
    <3>1. pc[c] = "gone" /\ c \notin Finished
      BY <2>3 DEF CountInv, Finished
    <3>2. Finished' = Finished \cup {c}
      BY <2>1, <3>1 DEF Finished
    <3>3. Cardinality(Finished') = Cardinality(Finished) + 1
      BY <3>1, <3>2, FinishedFinite, FS_AddElement
    <3>4. received' = received + 1 /\ main' = "waiting" /\ main = "waiting"
      BY <1>3, <2>3 DEF Receive
    <3> QED
      BY <2>1, <3>3, <3>4 DEF CountInv, Counting
  <2> QED
    BY <1>3, <2>2, <2>3 DEF Receive, PersistorTypeOK
<1>4. CASE Begin
  <2>1. CASE main' = "waiting"
    <3>1. \A c \in Mapped : pc'[c] = "look" /\ out'[c] = "none"
      BY <1>4, <2>1 DEF Begin, BeforeBegin
    <3>2. Finished' = {}
      BY <3>1 DEF Finished
    <3>3. received' = 0
      BY <1>4 DEF Begin, BeforeBegin
    <3> QED
      BY <2>1, <3>1, <3>2, <3>3, FS_EmptySet DEF CountInv, Counting
  <2>2. CASE main' # "waiting"
    <3>1. ~Counting'
      BY <1>4, <2>2 DEF Begin, Counting
    <3>2. UNCHANGED <<pc, out>>
      BY <1>4, <2>2 DEF Begin
    <3> QED
      BY <3>1, <3>2 DEF CountInv
  <2> QED
    BY <2>1, <2>2
<1>5. CASE Return
  <2>1. Finished' = Finished
    BY <1>5 DEF Return, Finished, goVars
  <2> QED
    BY <1>5, <2>1 DEF Return, CountInv, Counting, Expected, goVars
<1>6. CASE AuthenticateInCluster \/ FetchPod
  BY <1>6 DEF AuthenticateInCluster, FetchPod, CountInv, Counting, goVars
<1>7. CASE (\E c \in Containers : Container(c)) \/ End \/ UNCHANGED persistorVars
  <2>1. UNCHANGED <<pc, out, mainVars>>
    BY <1>7 DEF Container, CreateFile, WriteFile, ExitContainer, End, persistorVars, goVars
  <2> QED
    BY <1>1, <2>1
<1> QED
  BY <1>2, <1>3, <1>4, <1>5, <1>6, <1>7 DEF PersistorNext

-----------------------------------------------------------------------------
(* Success.                                                                *)

\* No goroutine waits to report an error.
Clean == \A c \in Mapped : out[c] # "error"

\* The Secret of this piece of output holds one of its name.
IsStored(c, item) == secrets[SecretOf(c, item)] \in Named(SecretOf(c, item))

\* As long as no error has been reported or is about to be, a goroutine has
\* done all that its place in the code says.
HasWorked(c) ==
  /\ pc[c] \notin {"failed", "unread"}
  /\ pc[c] = "persist" =>
       \A item \in Output(c) : item[1] \in todo[c] \/ item \in Pending(c) \/ IsStored(c, item)
  /\ pc[c] = "done" => exit[c] # Running /\ ~IsPersisted(exit[c])
  /\ pc[c] = "gone" =>
       /\ exit[c] # Running
       /\ IsPersisted(exit[c]) => \A item \in Output(c) : IsStored(c, item)

WorkInv == Counting /\ Clean => \A c \in Mapped : HasWorked(c)

\* Nobody replaces a piece of output by anything but one of the same name.
LEMMA StoredStays ==
  ASSUME PersistorTypeOK, StoringInv, NEW d \in Mapped, Goroutine(d), main # "error",
         NEW c \in Mapped, NEW item \in Output(c), IsStored(c, item)
  PROVE  IsStored(c, item)'
<1>1. CASE UNCHANGED secrets
  BY <1>1 DEF IsStored
<1>2. ASSUME NEW i \in Pending(d), StoreSecret(d, i), ~UNCHANGED secrets
      PROVE  IsStored(c, item)'
  <2>1. i \in Output(d) /\ data[d][i] = i
    BY <1>2 DEF StoringInv, Holds, Sound, StoreSecret, At, Runs
  <2>2. secrets' = [secrets EXCEPT ![SecretOf(d, i)] = i]
    BY <1>2, <2>1 DEF StoreSecret
  <2>3. i \in Named(SecretOf(d, i))
    BY <2>1 DEF Named
  <2>4. SecretOf(c, item) \in Secrets /\ SecretOf(d, i) \in Secrets
    BY <2>1, PersistorAssumption
  <2>5. secrets'[SecretOf(c, item)] = IF SecretOf(c, item) = SecretOf(d, i) THEN i
                                      ELSE secrets[SecretOf(c, item)]
    BY <2>2, <2>4 DEF PersistorTypeOK
  <2> QED
    BY <2>3, <2>5 DEF IsStored
<1> QED
  BY <1>1, <1>2 DEF Goroutine, Checked, AddWatch, WatchError, Poll, Finish, CheckFile, Notice,
                    ReadFile, UnmarshalNothing, UnmarshalValue

\* The goroutine that makes the step.
LEMMA OwnWork ==
  ASSUME PersistorTypeOK, StoringInv, NEW c \in Mapped, Goroutine(c),
         HasWorked(c), main # "error", out'[c] # "error"
  PROVE  HasWorked(c)'
<1> USE DEF PersistorTypeOK, At, Runs, Goto, Send, podVars, mainVars
<1>1. \A item \in Output(c) : IsStored(c, item) => IsStored(c, item)'
  BY StoredStays
<1>2. CASE Checked(c)
  BY <1>2 DEF Checked, HasWorked
<1>3. CASE AddWatch(c)
  BY <1>3 DEF AddWatch, HasWorked
<1>4. CASE WatchError(c)
  BY <1>4 DEF WatchError
<1>5. CASE Poll(c)
  <2>1. /\ exit'[c] = exit[c] /\ exit[c] # Running
        /\ pc'[c] = IF IsPersisted(exit[c]) THEN "persist" ELSE "done"
        /\ todo'[c] = PrefixedPaths(c)
    BY <1>5 DEF Poll
  <2>3. \A item \in Output(c) : item[1] \in PrefixedPaths(c)
    BY OutputFacts
  <2> QED
    BY <2>1, <2>3 DEF HasWorked
<1>6. CASE Finish(c)
  <2>1. pc'[c] = "gone" /\ UNCHANGED <<exit, secrets>>
    BY <1>6 DEF Finish
  <2>2. CASE pc[c] = "persist"
    <3>1. todo[c] = {} /\ Pending(c) = {} /\ exit[c] # Running
      BY <1>6, <2>2 DEF Finish, StoringInv, Holds
    <3>2. \A item \in Output(c) : IsStored(c, item)
      BY <2>2, <3>1 DEF HasWorked
    <3> QED
      BY <1>1, <2>1, <3>1, <3>2 DEF HasWorked
  <2>3. CASE pc[c] = "done"
    BY <2>1, <2>3 DEF HasWorked
  <2> QED
    BY <1>6, <2>2, <2>3 DEF Finish, HasWorked
<1>7. ASSUME NEW f \in PrefixedPaths(c), CheckFile(c, f)
      PROVE  HasWorked(c)'
  BY <1>7 DEF CheckFile, HasWorked
<1>8. ASSUME NEW f \in PrefixedPaths(c), Notice(c, f)
      PROVE  HasWorked(c)'
  BY <1>8 DEF Notice, HasWorked
<1>9. ASSUME NEW f \in PrefixedPaths(c), ReadFile(c, f)
      PROVE  HasWorked(c)'
  <2>1. /\ pc[c] = "persist" /\ pc'[c] = "persist" /\ Pending(c) = {}
        /\ data'[c] = ReadAs(c, f, {}) /\ todo'[c] = todo[c] \ {f}
    BY <1>9 DEF ReadFile, Took
  <2>2. \A item \in ItemsOf(c, f) : item \in Pending(c)'
    BY <2>1, ItemFacts DEF ReadAs, Pending
  <2>3. ASSUME NEW item \in Output(c)
        PROVE  item[1] \in todo'[c] \/ item \in Pending(c)' \/ IsStored(c, item)'
    <3>1. item \in ItemsOf(c, item[1])
      BY OutputFacts
    <3>2. item[1] \in todo[c] \/ IsStored(c, item)
      BY <2>1 DEF HasWorked
    <3> QED
      BY <1>1, <2>1, <2>2, <3>1, <3>2
  <2> QED
    BY <2>1, <2>3 DEF HasWorked
<1>10. ASSUME NEW i \in Pending(c), UnmarshalValue(c, i)
       PROVE  HasWorked(c)'
  <2>1. UNCHANGED <<pc, data, todo, exit, secrets>>
    BY <1>10 DEF UnmarshalValue
  <2> QED
    BY <2>1 DEF HasWorked, IsStored, Pending
<1>11. ASSUME NEW i \in Pending(c), StoreSecret(c, i)
       PROVE  HasWorked(c)'
  <2>1. /\ pc[c] = "persist" /\ pc'[c] = "persist" /\ todo'[c] = todo[c]
        /\ Pending(c) \ {i} \subseteq Pending(c)'
    BY <1>11 DEF StoreSecret, Pending
  <2>2. i \in Output(c) /\ data[c][i] = i
    BY <1>11 DEF StoringInv, Holds, Sound, StoreSecret
  <2>3. IsStored(c, i)'
    <3>1. secrets' = [secrets EXCEPT ![SecretOf(c, i)] = i]
      BY <1>11, <2>2 DEF StoreSecret
    <3>2. SecretOf(c, i) \in Secrets /\ i \in Named(SecretOf(c, i))
      BY <2>2, PersistorAssumption DEF Named
    <3>3. secrets'[SecretOf(c, i)] = i
      BY <3>1, <3>2
    <3> QED
      BY <3>2, <3>3 DEF IsStored
  <2>4. ASSUME NEW item \in Output(c)
        PROVE  item[1] \in todo'[c] \/ item \in Pending(c)' \/ IsStored(c, item)'
    BY <1>1, <2>1, <2>3 DEF HasWorked
  <2> QED
    BY <2>1, <2>4 DEF HasWorked
<1>12. CASE UnmarshalNothing(c)
  BY <1>12 DEF UnmarshalNothing, HasWorked
<1> QED
  BY <1>2, <1>3, <1>4, <1>5, <1>6, <1>7, <1>8, <1>9, <1>10, <1>11, <1>12 DEF Goroutine

\* The other goroutines.
LEMMA OthersWork ==
  ASSUME PersistorTypeOK, StoringInv, NEW d \in Mapped, Goroutine(d),
         main # "error", NEW c \in Mapped, c # d, HasWorked(c)
  PROVE  HasWorked(c)'
<1>1. \A item \in Output(c) : IsStored(c, item) => IsStored(c, item)'
  BY StoredStays
<1>2. /\ pc'[c] = pc[c] /\ data'[c] = data[c]
      /\ todo'[c] = todo[c] /\ exit' = exit
  BY GoroutineFrame DEF podVars
<1> QED
  BY <1>1, <1>2 DEF HasWorked, Pending

LEMMA StepWork ==
  ASSUME PersistorTypeOK, BeforeBegin, StoringInv, WorkInv, [PersistorNext]_persistorVars
  PROVE  WorkInv'
<1> SUFFICES ASSUME Counting', Clean', NEW c \in Mapped
             PROVE  HasWorked(c)'
  BY DEF WorkInv
<1>1. CASE UNCHANGED <<pc, data, todo, exit, secrets>> /\ Counting /\ Clean
  BY <1>1 DEF WorkInv, HasWorked, IsStored, Pending
<1>2. ASSUME NEW d \in Mapped, Goroutine(d)
      PROVE  HasWorked(c)'
  <2>1. Clean
    BY <1>2, GoroutineFrame DEF Clean
  <2>2. Counting
    BY <1>2, GoroutineFrame DEF Counting, mainVars
  <2>3. HasWorked(c) /\ HasWorked(d) /\ out'[d] # "error" /\ main # "error"
    BY <2>1, <2>2 DEF WorkInv, Clean, Counting
  <2> QED
    BY <1>2, <2>3, OwnWork, OthersWork
<1>3. ASSUME NEW d \in Mapped, Receive(d)
      PROVE  HasWorked(c)'
  <2>1. main = "waiting" /\ out[d] # "error"
    BY <1>3 DEF Receive, Counting
  <2>2. \A e \in Mapped \ {d} : out'[e] = out[e]
    BY <1>3 DEF Receive, PersistorTypeOK
  <2>3. Counting /\ Clean
    BY <2>1, <2>2 DEF Counting, Clean
  <2> QED
    BY <1>1, <1>3, <2>3 DEF Receive, podVars
<1>4. ASSUME NEW d \in Containers, Container(d)
      PROVE  HasWorked(c)'
  <2>1. UNCHANGED <<pc, data, todo, secrets, out, main, wanted>>
    BY <1>4 DEF Container, CreateFile, WriteFile, ExitContainer, mainVars, goVars
  <2>2. exit[c] # Running => exit'[c] = exit[c]
    <3>1. CASE ExitContainer(d)
      <4>1. PICK code \in Codes : exit' = [exit EXCEPT ![d] = code]
        BY <3>1 DEF ExitContainer
      <4> QED
        BY <3>1, <4>1, PersistorAssumption DEF ExitContainer, PersistorTypeOK
    <3>2. CASE UNCHANGED exit
      BY <3>2
    <3> QED
      BY <1>4, <3>1, <3>2 DEF Container, CreateFile, WriteFile
  <2>3. HasWorked(c)
    BY <2>1 DEF WorkInv, Counting, Clean
  <2> QED
    BY <2>1, <2>2, <2>3 DEF HasWorked, IsStored, Pending
<1>5. CASE Begin
  <2>1. pc'[c] = "look"
    BY <1>5 DEF Begin, Counting
  <2> QED
    BY <2>1 DEF HasWorked
<1>6. CASE AuthenticateInCluster \/ FetchPod
  BY <1>6 DEF AuthenticateInCluster, FetchPod, Counting
<1>7. CASE Return \/ End \/ UNCHANGED persistorVars
  <2>1. UNCHANGED <<pc, data, todo, exit, secrets, out, wanted>>
    BY <1>7 DEF Return, End, persistorVars, podVars, mainVars, goVars
  <2>2. Counting
    BY <1>7 DEF Return, End, Counting, persistorVars, mainVars
  <2> QED
    BY <1>1, <2>1, <2>2 DEF Clean
<1> QED
  BY <1>2, <1>3, <1>4, <1>5, <1>6, <1>7 DEF PersistorNext

\* The invariants that relate Persist to its goroutines hold.
THEOREM CountCorrect == PersistorSafety => [](CountInv /\ WorkInv)
<1>1. PersistorInit => CountInv /\ WorkInv
  BY DEF PersistorInit, CountInv, WorkInv, Counting
<1>2. /\ PersistorTypeOK /\ BeforeBegin /\ StoringInv /\ CountInv /\ WorkInv
      /\ [PersistorNext]_persistorVars
      => (CountInv /\ WorkInv)'
  BY StepCount, StepWork
<1> QED
  BY <1>1, <1>2, PersistorTypeCorrect, StoringCorrect, PTL DEF PersistorSafety

\* When Persist returns without an error, every container of the output map
\* has ended, and if it did so as required all of its output is stored
\* (output_persistor.go:95-101, 116-185).
THEOREM SuccessCorrect == PersistorSafety => []SuccessMeansStored
<1>1. PersistorTypeOK /\ CountInv /\ WorkInv => SuccessMeansStored
  <2> SUFFICES ASSUME PersistorTypeOK, CountInv, WorkInv, main = "ok", wanted,
                      NEW c \in Mapped
               PROVE  /\ exit[c] # Running
                      /\ IsPersisted(exit[c]) => \A item \in Output(c) : IsStored(c, item)
    BY DEF SuccessMeansStored, IsStored
  <2>1. Cardinality(Finished) = Cardinality(Containers)
    BY DEF CountInv, Counting, Expected
  <2>2. Finished \subseteq Containers
    BY PersistorAssumption DEF Finished
  <2>3. Finished = Containers
    BY <2>1, <2>2, PersistorAssumption, FS_Subset
  <2>4. \A d \in Mapped : pc[d] = "gone" /\ out[d] = "none"
    BY <2>3, PersistorAssumption DEF Finished
  <2>5. HasWorked(c)
    BY <2>4 DEF WorkInv, Counting, Clean
  <2> QED
    BY <2>4, <2>5 DEF HasWorked
<1> QED
  BY <1>1, PersistorTypeCorrect, CountCorrect, PTL
=============================================================================
