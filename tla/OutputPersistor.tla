--------------------------- MODULE OutputPersistor ---------------------------
(***************************************************************************)
(* The output-persist container of a QuarksJob's pod: it turns the files   *)
(* the pod's other containers write into Secrets.                          *)
(*                                                                         *)
(* Persist starts one goroutine per container that has an entry in the     *)
(* output map and then waits for messages on an unbuffered channel.  A     *)
(* goroutine looks for the container's files, watches its directory for    *)
(* those that are not there, polls for the container's end, and stores the *)
(* files.  The containers run beside it.  A goroutine whose message has    *)
(* not been received is blocked.                                           *)
(***************************************************************************)
EXTENDS FiniteSets, Integers, Sequences

CONSTANTS Containers,      \* of the pod, output-persist aside
          Files,           \* the output files of all of them
          Names,           \* names of Secrets, and their prefixes, in the output map
          Keys,            \* the keys a file's JSON has
          OutputMap,       \* Output.OutputMap: options by container and file
          Secrets,         \* names of Secrets
          SecretName,      \* names.SanitizeSubdomain
          WriteOnFailure,  \* Output.WriteOnFailure
          Mishaps          \* bound: faults, broken files and careless containers

Methods == {"one-to-one", "fan-out"}

\* The options of the Secret, or of the Secrets, that a file becomes.
SecretOptions == [name : Names, method : Methods]

NewFileToSecret(f, name) == [g \in {f} |-> [name |-> name, method |-> "one-to-one"]]

NewFileToSecrets(f, name) == [g \in {f} |-> [name |-> name, method |-> "fan-out"]]

\* Containers with an entry in the output map.
Mapped == DOMAIN OutputMap

\* The files a container is to write, each in the container's directory.
PrefixedPaths(c) == IF c \in Mapped THEN DOMAIN OutputMap[c] ELSE {}

FanOutName(options, key) == <<options.name, key>>

\* A piece of output: a file, or the value of one of its keys.
ItemsOf(c, f) ==
  IF OutputMap[c][f].method = "fan-out" THEN {<<f, k>> : k \in Keys[f]} ELSE {<<f>>}

\* The Secret it is stored in.
SecretOf(c, item) ==
  LET options == OutputMap[c][item[1]]
  IN  SecretName[IF Len(item) = 2 THEN FanOutName(options, item[2]) ELSE <<options.name>>]

Output(c) == UNION {ItemsOf(c, f) : f \in PrefixedPaths(c)}

ASSUME PersistorAssumption ==
  /\ IsFiniteSet(Containers) /\ Mapped \subseteq Containers
  /\ \A c \in Mapped : \E files \in SUBSET Files : OutputMap[c] \in [files -> SecretOptions]
  /\ \A c, d \in Containers : PrefixedPaths(c) \cap PrefixedPaths(d) # {} => c = d
  /\ \A c \in Mapped : \A item \in Output(c) : SecretOf(c, item) \in Secrets
  /\ WriteOnFailure \in BOOLEAN
  /\ Mishaps \in Nat

VARIABLES file,     \* what each file holds
          exit,     \* exit code of each container, or running
          wanted,   \* does the QuarksJob ask for output at all?
          main,     \* where Persist is, and what it returned
          alive,    \* the process runs
          received, \* messages received from the channel
          pc,       \* where each goroutine is
          out,      \* the message each goroutine wants to send
          todo,     \* files it has not come to yet
          seen,     \* files it has seen
          events,   \* the watcher's events
          data,     \* what it has read of each piece of output that is not stored yet
          hand,     \* the piece it has taken from there, if it is to fan out
          secrets,  \* what each Secret holds
          missed,   \* history: files that appeared between the look and the watch
          mishaps   \* what is left of the bound

podVars == <<file, exit, missed>>
goVars == <<pc, out, todo, seen, events, data, hand>>
mainVars == <<wanted, main, received>>
persistorVars == <<podVars, mainVars, alive, goVars, secrets, mishaps>>

Running == -1
Codes == {0, 1, 2}

\* A file is created before it is written.  In a "mistyped" one the JSON object
\* has a value that is no string, "broken" is no such object at all.
Contents == {"absent", "partial", "good", "mistyped", "broken"}

PCs == {"none", "look", "arm", "wait", "poll", "persist", "unread", "done", "failed", "gone"}

\* A Secret holds a piece of output, what an earlier run has left, no data, or a
\* piece of which values are missing.
None == <<>>
Old == <<"old", "old", "old">>
Empty == <<"empty", "empty", "empty">>
Incomplete == <<"incomplete", "incomplete", "incomplete">>
Items == UNION {Output(c) : c \in Mapped}
Values == {None, Old, Empty, Incomplete} \cup Items

PersistorTypeOK ==
  /\ file \in [Files -> Contents]
  /\ exit \in [Containers -> Codes \cup {Running}]
  /\ wanted \in BOOLEAN /\ alive \in BOOLEAN
  /\ main \in {"start", "pod", "qjob", "waiting", "ok", "error"}
  /\ received \in 0 .. Cardinality(Containers)
  /\ pc \in [Mapped -> PCs]
  /\ out \in [Mapped -> {"none", "nil", "error"}]
  /\ todo \in [Mapped -> SUBSET Files]
  /\ seen \in [Mapped -> SUBSET Files]
  /\ events \in [Mapped -> SUBSET Files]
  /\ data \in [Mapped -> [Items -> Values]]
  /\ hand \in [Mapped -> Items \cup {None}]
  /\ secrets \in [Secrets -> Values]
  /\ missed \subseteq Files
  /\ mishaps \in 0 .. Mishaps

NoData == [item \in Items |-> None]

PersistorInit ==
  /\ file = [f \in Files |-> "absent"]
  /\ exit = [c \in Containers |-> Running]
  /\ wanted \in BOOLEAN
  /\ main = "start"
  /\ alive = TRUE
  /\ received = 0
  /\ pc = [c \in Mapped |-> "none"]
  /\ out = [c \in Mapped |-> "none"]
  /\ todo = [c \in Mapped |-> {}]
  /\ seen = [c \in Mapped |-> {}]
  /\ events = [c \in Mapped |-> {}]
  /\ data = [c \in Mapped |-> NoData]
  /\ hand = [c \in Mapped |-> None]
  /\ \E old \in {None, Old} : secrets = [s \in Secrets |-> old]
  /\ missed = {}
  /\ mishaps = Mishaps

Mishap == mishaps > 0 /\ mishaps' = mishaps - 1

-----------------------------------------------------------------------------
(* The containers.                                                         *)

\* The inotify event of a new file reaches a watcher that is in place; one
\* that appears between the look and the watch gives no event.
Unwatched(c, f) == pc[c] = "arm" \/ (pc[c] = "look" /\ f \notin todo[c])

CreateFile(c, f) ==
  /\ exit[c] = Running
  /\ f \in PrefixedPaths(c) /\ file[f] = "absent"
  /\ file' = [file EXCEPT ![f] = "partial"]
  /\ events' = [events EXCEPT ![c] = IF pc[c] = "wait" THEN @ \cup {f} ELSE @]
  /\ missed' = IF Unwatched(c, f) THEN missed \cup {f} ELSE missed
  /\ UNCHANGED <<exit, mainVars, alive, pc, out, todo, seen, data, hand, secrets, mishaps>>

WriteFile(c, f) ==
  /\ exit[c] = Running
  /\ f \in PrefixedPaths(c) /\ file[f] = "partial"
  /\ \/ file' = [file EXCEPT ![f] = "good"] /\ UNCHANGED mishaps
     \/ file' = [file EXCEPT ![f] = "broken"] /\ Mishap
     \/ ItemsOf(c, f) # {} /\ file' = [file EXCEPT ![f] = "mistyped"] /\ Mishap
  /\ UNCHANGED <<exit, missed, mainVars, alive, goVars, secrets>>

\* A container that ends before its files are written is a mishap.
ExitContainer(c) ==
  /\ exit[c] = Running
  /\ exit' \in {[exit EXCEPT ![c] = code] : code \in Codes}
  /\ IF \A f \in PrefixedPaths(c) : file[f] \notin {"absent", "partial"}
     THEN UNCHANGED mishaps
     ELSE Mishap
  /\ UNCHANGED <<file, missed, mainVars, alive, goVars, secrets>>

-----------------------------------------------------------------------------
(* The goroutine of a container.                                           *)

\* It runs unless it is blocked in a send.  It goes on after Persist has
\* returned an error, until the process ends.
Runs(c) == alive /\ out[c] = "none"

At(c, label) == pc[c] = label /\ Runs(c)

Goto(c, label) == pc' = [pc EXCEPT ![c] = label]

Send(c, message) == out' = [out EXCEPT ![c] = message]

\* newSeen, checkAll: one stat per file.
CheckFile(c, f) ==
  /\ At(c, "look") /\ f \in todo[c]
  /\ todo' = [todo EXCEPT ![c] = @ \ {f}]
  /\ seen' = [seen EXCEPT ![c] = IF file[f] = "absent" THEN @ ELSE @ \cup {f}]
  /\ UNCHANGED <<podVars, mainVars, alive, pc, out, events, data, hand, secrets, mishaps>>

Complete(c, files) == PrefixedPaths(c) \subseteq files

Checked(c) ==
  /\ At(c, "look") /\ todo[c] = {}
  /\ Goto(c, IF Complete(c, seen[c]) THEN "poll" ELSE "arm")
  /\ UNCHANGED <<podVars, mainVars, alive, out, todo, seen, events, data, hand, secrets, mishaps>>

\* Mutant of AddWatch: the wait forgets what the look has seen.
AddWatchAnew(c) ==
  /\ At(c, "arm")
  /\ Goto(c, "wait")
  /\ seen' = [seen EXCEPT ![c] = {}]
  /\ UNCHANGED <<podVars, mainVars, alive, out, todo, events, data, hand, secrets, mishaps>>

\* watcher.Add.  Its failure is sent, and sent again at the end.
AddWatch(c) ==
  /\ At(c, "arm")
  /\ \/ Goto(c, "wait") /\ UNCHANGED <<out, mishaps>>
     \/ Goto(c, "failed") /\ Send(c, "error") /\ Mishap
  /\ UNCHANGED <<podVars, mainVars, alive, todo, seen, events, data, hand, secrets>>

\* The watcher's goroutine.
Notice(c, f) ==
  /\ At(c, "wait") /\ f \in events[c]
  /\ events' = [events EXCEPT ![c] = @ \ {f}]
  /\ seen' = [seen EXCEPT ![c] = @ \cup {f}]
  /\ IF Complete(c, seen[c] \cup {f}) THEN Goto(c, "poll") ELSE UNCHANGED pc
  /\ UNCHANGED <<podVars, mainVars, alive, out, todo, data, hand, secrets, mishaps>>

WatchError(c) ==
  /\ At(c, "wait")
  /\ Mishap
  /\ Goto(c, "failed") /\ Send(c, "error")
  /\ UNCHANGED <<podVars, mainVars, alive, todo, seen, events, data, hand, secrets>>

IsPersisted(code) == code = 0 \/ (code = 1 /\ WriteOnFailure)

\* getContainerExitCode polls until the container has ended.
Poll(c) ==
  /\ At(c, "poll")
  /\ \/ /\ exit[c] # Running
        /\ Goto(c, IF IsPersisted(exit[c]) THEN "persist" ELSE "done")
        /\ todo' = [todo EXCEPT ![c] = PrefixedPaths(c)]
        /\ UNCHANGED <<out, mishaps>>
     \/ /\ Goto(c, "done") /\ Send(c, "error")
        /\ Mishap
        /\ UNCHANGED todo
  /\ UNCHANGED <<podVars, mainVars, alive, seen, events, data, hand, secrets>>

Pending(c) == {item \in Items : data[c][item] # None}

\* The file as Unmarshal leaves it when the values of these pieces are of a wrong
\* type: the object without them one to one, and no text to fan out.
ReadAs(c, f, wrong) ==
  [item \in Items |-> IF item \notin ItemsOf(c, f) THEN None
                     ELSE IF item \notin wrong THEN item
                     ELSE IF Len(item) = 2 THEN Empty ELSE Incomplete]

\* Without an object there is nothing to fan out, but one Secret one to one.
NothingRead(c, f) ==
  [item \in Items |-> IF item \in ItemsOf(c, f) /\ Len(item) = 1 THEN Empty ELSE None]

Took(c, f, read) == /\ At(c, "persist") /\ Pending(c) = {} /\ f \in todo[c]
                    /\ todo' = [todo EXCEPT ![c] = @ \ {f}]
                    /\ data' = [data EXCEPT ![c] = read]

\* Mutant of ReadFile: the text is stored without being parsed.
ReadFileRaw(c, f) ==
  /\ Took(c, f, [item \in Items |-> IF item \in ItemsOf(c, f) THEN <<file[f]>> ELSE None])
  /\ UNCHANGED <<podVars, mainVars, alive, pc, out, seen, events, hand, secrets, mishaps>>

\* Mutant of ReadFile: what Unmarshal returns is not looked at.
ReadFileUnchecked(c, f) ==
  /\ \E wrong \in SUBSET ItemsOf(c, f) :
       /\ wrong = {} <=> file[f] # "mistyped"
       /\ Took(c, f, IF file[f] \in {"good", "mistyped"} THEN ReadAs(c, f, wrong)
                     ELSE NothingRead(c, f))
  /\ UNCHANGED <<podVars, mainVars, alive, pc, out, seen, events, hand, secrets, mishaps>>

\* ReadFile and Unmarshal.  An error is reported, and the goroutine goes on with
\* the data there is.
ReadFile(c, f) ==
  /\ \/ /\ file[f] = "good"
        /\ Took(c, f, ReadAs(c, f, {}))
        /\ UNCHANGED <<pc, out, mishaps>>
     \/ /\ file[f] = "mistyped"
        /\ \E wrong \in SUBSET ItemsOf(c, f) : wrong # {} /\ Took(c, f, ReadAs(c, f, wrong))
        /\ Send(c, "error")
        /\ UNCHANGED <<pc, mishaps>>
     \/ /\ file[f] \in {"partial", "broken"}
        /\ Took(c, f, NothingRead(c, f))
        /\ Send(c, "error")
        /\ UNCHANGED <<pc, mishaps>>
     \/ /\ Took(c, f, NothingRead(c, f))
        /\ Goto(c, "unread") /\ Send(c, "error") /\ Mishap
  /\ UNCHANGED <<podVars, mainVars, alive, seen, events, hand, secrets>>

\* The text that could not be read is no JSON either: a second error.
UnmarshalNothing(c) ==
  /\ At(c, "unread")
  /\ Goto(c, "persist") /\ Send(c, "error")
  /\ UNCHANGED <<podVars, mainVars, alive, todo, seen, events, data, hand, secrets, mishaps>>

\* The value of a key to fan out is JSON again.  If it is not, or has a value of
\* a wrong type, this is reported before the Secret is stored.
UnmarshalValue(c, item) ==
  /\ At(c, "persist") /\ hand[c] = None
  /\ item \in Pending(c) /\ Len(item) = 2
  /\ hand' = [hand EXCEPT ![c] = item]
  /\ \/ data[c][item] = item /\ UNCHANGED <<data, out, mishaps>>
     \/ data[c][item] = Empty /\ Send(c, "error") /\ UNCHANGED <<data, mishaps>>
     \/ /\ data[c][item] = item
        /\ \E v \in {Empty, Incomplete} : data' = [data EXCEPT ![c][item] = v]
        /\ Send(c, "error") /\ Mishap
  /\ UNCHANGED <<podVars, mainVars, alive, pc, todo, seen, events, secrets>>

\* createSecret, createVersionedSecret: create, or bring up to date.
StoreSecret(c, item) ==
  LET store == secrets' = [secrets EXCEPT ![SecretOf(c, item)] = data[c][item]] IN
  /\ At(c, "persist") /\ item \in Pending(c)
  /\ hand[c] = IF Len(item) = 2 THEN item ELSE None
  /\ data' = [data EXCEPT ![c][item] = None]
  /\ hand' = [hand EXCEPT ![c] = None]
  /\ \/ store /\ UNCHANGED <<out, mishaps>>
     \/ store /\ Send(c, "error") /\ Mishap
     \/ UNCHANGED secrets /\ Send(c, "error") /\ Mishap
  /\ UNCHANGED <<podVars, mainVars, alive, pc, todo, seen, events>>

\* Mutant of Finish: a container without output sends nothing.
FinishSilently(c) ==
  /\ \/ At(c, "persist") /\ todo[c] = {} /\ Pending(c) = {} /\ Send(c, "nil")
     \/ At(c, "done") /\ UNCHANGED out
     \/ At(c, "failed") /\ Send(c, "error")
  /\ Goto(c, "gone")
  /\ UNCHANGED <<podVars, mainVars, alive, todo, seen, events, data, hand, secrets, mishaps>>

\* The last message is the error of checkForOutputFiles, if there was one.
Finish(c) ==
  /\ \/ At(c, "persist") /\ todo[c] = {} /\ Pending(c) = {} /\ Send(c, "nil")
     \/ At(c, "done") /\ Send(c, "nil")
     \/ At(c, "failed") /\ Send(c, "error")
  /\ Goto(c, "gone")
  /\ UNCHANGED <<podVars, mainVars, alive, todo, seen, events, data, hand, secrets, mishaps>>

-----------------------------------------------------------------------------
(* Persist.                                                                *)

\* A client for QuarksJobs, or an error: its configuration is refused.
QuarksjobV1alpha1(made) == IF made THEN UNCHANGED mishaps ELSE Mishap

\* The clientset is made of it and of a client for discovery, which has the same
\* configuration.
NewForConfig(made) == QuarksjobV1alpha1(made)

\* Its request for the QuarksJob, which may be gone.
GetQJob(found) == IF found THEN UNCHANGED mishaps ELSE Mishap

\* The clients, without which the process ends.
AuthenticateInCluster ==
  /\ alive /\ main = "start"
  /\ \E made \in BOOLEAN : NewForConfig(made) /\ main' = IF made THEN "pod" ELSE "error"
  /\ UNCHANGED <<podVars, wanted, alive, received, goVars, secrets>>

FetchPod ==
  /\ alive /\ main = "pod"
  /\ \/ main' = "qjob" /\ UNCHANGED mishaps
     \/ main' = "error" /\ Mishap
  /\ UNCHANGED <<podVars, wanted, alive, received, goVars, secrets>>

\* The QuarksJob is fetched and, if it asks for output, a goroutine is started
\* for each container in its output map.
Begin ==
  /\ alive /\ main = "qjob"
  /\ \E found \in BOOLEAN :
       /\ GetQJob(found)
       /\ main' = IF ~found THEN "error" ELSE IF wanted THEN "waiting" ELSE "ok"
       /\ IF found /\ wanted
          THEN /\ pc' = [c \in Mapped |-> "look"]
               /\ todo' = [c \in Mapped |-> PrefixedPaths(c)]
          ELSE UNCHANGED <<pc, todo>>
  /\ UNCHANGED <<podVars, wanted, alive, received, out, seen, events, data, hand, secrets>>

\* Mutant of Expected: off by one.
ExpectedFewer == Cardinality(Containers) - 1

\* One message for each container of the pod but output-persist.
Expected == Cardinality(Containers)

Receive(c) ==
  /\ alive /\ main = "waiting" /\ received < Expected
  /\ out[c] # "none"
  /\ out' = [out EXCEPT ![c] = "none"]
  /\ received' = received + 1
  /\ main' = IF out[c] = "error" THEN "error" ELSE main
  /\ UNCHANGED <<podVars, wanted, alive, pc, todo, seen, events, data, hand, secrets, mishaps>>

Return ==
  /\ alive /\ main = "waiting" /\ received = Expected
  /\ main' = "ok"
  /\ UNCHANGED <<podVars, wanted, received, alive, goVars, secrets, mishaps>>

\* The process ends when Persist has returned, or is killed.
End ==
  /\ alive
  /\ \/ main \in {"ok", "error"} /\ UNCHANGED mishaps
     \/ main \in {"start", "pod", "qjob", "waiting"} /\ Mishap
  /\ alive' = FALSE
  /\ UNCHANGED <<podVars, mainVars, goVars, secrets>>

-----------------------------------------------------------------------------
(* Specification.                                                          *)

Goroutine(c) ==
  \/ Checked(c) \/ AddWatch(c) \/ WatchError(c) \/ Poll(c) \/ UnmarshalNothing(c) \/ Finish(c)
  \/ \E f \in PrefixedPaths(c) : CheckFile(c, f) \/ Notice(c, f) \/ ReadFile(c, f)
  \/ \E item \in Pending(c) : UnmarshalValue(c, item) \/ StoreSecret(c, item)

Container(c) ==
  \/ \E f \in PrefixedPaths(c) : CreateFile(c, f) \/ WriteFile(c, f)
  \/ ExitContainer(c)

PersistorNext ==
  \/ \E c \in Containers : Container(c)
  \/ \E c \in Mapped : Goroutine(c) \/ Receive(c)
  \/ AuthenticateInCluster \/ FetchPod \/ Begin \/ Return \/ End

PersistorSafety == PersistorInit /\ [][PersistorNext]_persistorVars

\* The scheduler runs every goroutine that is not blocked, the containers get
\* on with their work, and the process ends when Persist has returned.
PersistorFairness ==
  /\ \A c \in Containers : WF_persistorVars(Container(c))
  /\ \A c \in Mapped : WF_persistorVars(Goroutine(c)) /\ WF_persistorVars(Receive(c))
  /\ WF_persistorVars(AuthenticateInCluster) /\ WF_persistorVars(FetchPod)
  /\ WF_persistorVars(Begin) /\ WF_persistorVars(Return)

PersistorSpec == PersistorSafety /\ PersistorFairness

-----------------------------------------------------------------------------
(* Properties.                                                             *)

\* The pieces of output that go by the name s, whoever writes them.
Named(s) == UNION {{item \in Output(c) : SecretOf(c, item) = s} : c \in Mapped}

\* When Persist returns without an error, every container with an entry in
\* the output map has ended, and if it did so with success all of its output is
\* in the Secrets, unless another piece of the same name has replaced it: no
\* message is counted twice and no error is lost among the messages
\* (output_persistor.go:95-101, 116-185).
SuccessMeansStored ==
  (main = "ok" /\ wanted) =>
    \A c \in Mapped :
      /\ exit[c] # Running
      /\ IsPersisted(exit[c]) =>
           \A item \in Output(c) : secrets[SecretOf(c, item)] \in Named(SecretOf(c, item))

\* A Secret is written only after a container that has output of its name has
\* ended well, or with the one failure that WriteOnFailure covers; so a failed run
\* leaves the Secrets of an earlier one alone.  What is written is a whole piece
\* of a good file, as long as Persist has received no error: a Secret without
\* data, or without some, is only written by a run that is going to fail
\* (output_persistor.go:122-180, 189-202).
StoredAfterExit ==
  [][\A s \in Secrets : secrets'[s] # secrets[s] =>
       \E c \in Mapped : \E item \in Output(c) :
         /\ SecretOf(c, item) = s
         /\ exit[c] # Running /\ IsPersisted(exit[c])
         /\ secrets'[s] \in {item, Empty, Incomplete}
         /\ main # "error" => secrets'[s] = item /\ file[item[1]] = "good"]_persistorVars

WaitsForFiles(c) == pc[c] \in {"look", "arm", "wait"}

\* The wait for the output files ends once they are there, however their
\* appearance and the look, the watch and its events interleave, and whichever of
\* them found which file, unless one is missed (output_persistor.go:204-258).
FilesEndWait ==
  \A c \in Mapped :
    (WaitsForFiles(c) /\ \A f \in PrefixedPaths(c) : file[f] # "absent")
      ~> (~WaitsForFiles(c) \/ ~alive \/ missed \cap PrefixedPaths(c) # {})

\* Persist returns if the containers write their files and none is missed
\* (output_persistor.go:95-101).
PersistReturns ==
  ([](missed = {}) /\ \A c \in Mapped : \A f \in PrefixedPaths(c) : <>(file[f] # "absent"))
    => ((main = "waiting") ~> (main # "waiting" \/ ~alive))
=============================================================================
