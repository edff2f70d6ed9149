----------------------------- MODULE RawRequest -----------------------------
(***************************************************************************)
(* The requests of namespace uv::raw and the owned filesystem operations:  *)
(* an object that pairs a native request with the callables of the         *)
(* submission in flight.  Five families differ in when the callables are   *)
(* published and who owns the request:                                     *)
(*   "stream"  write, shutdown, connect and udp send requests;             *)
(*   "pool"    random, getaddrinfo and getnameinfo, which can be cancelled;*)
(*   "work"    work_request, whose callable a worker thread takes;         *)
(*   "fs"      raw filesystem operations on a request of the user;         *)
(*   "owned"   filesystem operations whose heap state owns the request.    *)
(*                                                                         *)
(* The loop thread submits, cancels and delivers; a worker of the thread   *)
(* pool executes, and may start before the submitting call returns.  A     *)
(* submission that is refused with UV_EBUSY or UV_EINVAL before the native *)
(* call changes nothing and is not a step.                                 *)
(***************************************************************************)
EXTENDS Naturals, FsOperations

CONSTANTS
  Families,     \* the families to explore
  MaxSubmits    \* bound: submissions

AllFamilies == {"stream", "pool", "work", "fs", "owned"}

ASSUME RequestAssumption ==
  /\ Families \subseteq AllFamilies
  /\ MaxSubmits \in Nat

VARIABLES
  family,
  number,   \* submissions so far; a callable is told apart by its submission
  call,     \* the submission whose submit call is in progress, or 0
  flight,   \* where the native request is
  op,       \* the operation submitted last
  busy,     \* pending_
  work,     \* work_: the submission whose callable waits for a worker, or 0
  after,    \* callback_, after_, or the compile-time callback of the submission
  memory,   \* the object with the request: "none", "live", "deleted"
  held,     \* what the native request holds until its cleanup
  dir,      \* an open directory: "none", "user", "request"
  frame,    \* the completion callback that runs: its submission and its result
  ran,      \* the submission whose work_ a worker took last
  called    \* how often each submission was completed

slots == <<busy, work, after>>
records == <<ran, called>>
rVars == <<family, number, call, flight, op, slots, memory, held, dir, frame, records>>

NoFrame == [n |-> 0, result |-> "number"]

RInit(f) ==
  /\ family = f
  /\ number = 0 /\ call = 0 /\ flight = "idle" /\ op = "none"
  /\ busy = FALSE /\ work = 0 /\ after = 0
  /\ memory = IF f = "owned" THEN "none" ELSE "live"
  /\ held = "number" /\ dir = "none"
  /\ frame = NoFrame
  /\ ran = 0 /\ called = [n \in 1..MaxSubmits |-> 0]

\* The loop thread is not inside a submission.
LoopFree == call = 0

Filesystem == family \in {"fs", "owned"}
StreamOperations == {"write", "write_with_handle", "shutdown", "tcp_connect", "pipe_connect", "send"}
PoolOperations == {"random", "getaddrinfo", "getnameinfo"}
Operations ==
  StreamOperations \cup PoolOperations \cup {"work"} \cup RawOperations \cup OwnedOperations

-----------------------------------------------------------------------------
(* Submission: publish, the native call, commit.                           *)

\* The guard of submit.  A raw filesystem request has no pending flag: its user
\* submits again only after the completion and its cleanup.
CanSubmit_Unchecked == flight # "entering"
CanSubmit ==
  CASE family = "fs" -> flight = "idle" /\ held = "number"
    [] family = "owned" -> flight = "idle"
    [] OTHER -> ~busy

\* The callables in place before the native call: a worker of work_request may
\* take one at once, a filesystem request is completed by what set_callback left.
PublishesFirst_Late == Filesystem
PublishesFirst == Filesystem \/ family = "work"

\* A submission up to its native call.  Forms with a callable and with a
\* compile-time callback differ in where that is kept, which is not told apart.
Submit(o) ==
  /\ LoopFree /\ CanSubmit /\ number < MaxSubmits
  /\ number' = number + 1
  /\ call' = number'
  /\ flight' = "entering"
  /\ op' = o
  /\ memory' = "live"
  /\ IF PublishesFirst
       THEN /\ after' = number'
            /\ work' = IF family = "work" THEN number' ELSE 0
            /\ busy' = (family = "work")
       ELSE UNCHANGED slots
  /\ UNCHANGED <<family, held, dir, frame, records>>

\* Stream and udp requests.
SubmitStream(o) == family = "stream" /\ memory = "live" /\ Submit(o)
Write == SubmitStream("write")
WriteWithHandle == SubmitStream("write_with_handle")
Shutdown == SubmitStream("shutdown")
TcpConnect == SubmitStream("tcp_connect")
PipeConnect == SubmitStream("pipe_connect")
Send == SubmitStream("send")

\* Requests that the thread pool executes.
SubmitPool(o) == family = "pool" /\ memory = "live" /\ Submit(o)
SubmitRandom == SubmitPool("random")
SubmitGetaddrinfo == SubmitPool("getaddrinfo")
SubmitGetnameinfo == SubmitPool("getnameinfo")
SubmitWork == family = "work" /\ memory = "live" /\ Submit("work")

\* A raw filesystem operation on a request of the user; one directory is followed.
SubmitRaw(o) ==
  /\ family = "fs" /\ memory = "live" /\ o \in RawOperations
  /\ o \in {"readdir", "closedir"} => dir = "user"
  /\ o = "opendir" => dir = "none"
  /\ Submit(o)

\* submit_owned: the heap state is made first.
SubmitOwned(o) == family = "owned" /\ o \in OwnedOperations /\ Submit(o)

\* The native call accepts: the request is queued before the call returns.
NativeAccepts ==
  /\ flight = "entering"
  /\ flight' = "queued"
  /\ UNCHANGED <<family, number, call, op, slots, memory, held, dir, frame, records>>

DirectoryAfter(accepted) == IF op = "closedir" /\ accepted THEN "request" ELSE dir

\* The native call refuses: what was published is withdrawn; an owned operation
\* also cleans the request up, deletes its state and throws.
NativeRefuses ==
  /\ flight = "entering"
  /\ flight' = "idle" /\ call' = 0
  /\ IF PublishesFirst THEN busy' = FALSE /\ work' = 0 /\ after' = 0 ELSE UNCHANGED slots
  /\ memory' = IF family = "owned" THEN "deleted" ELSE memory
  /\ dir' = DirectoryAfter(FALSE)
  /\ op' = "none"
  /\ UNCHANGED <<family, number, held, frame, records>>

\* The submitting call returns after acceptance: the families that publish late
\* commit their callback now, and closedir releases the directory.
SubmitReturns ==
  /\ call # 0 /\ flight # "entering"
  /\ call' = 0
  /\ IF PublishesFirst
       THEN UNCHANGED slots
       ELSE after' = call /\ busy' = TRUE /\ UNCHANGED work
  /\ dir' = DirectoryAfter(TRUE)
  /\ UNCHANGED <<family, number, flight, op, memory, held, frame, records>>

\* cancel: only what no worker has started can be cancelled.
Cancel ==
  /\ LoopFree /\ family \in {"pool", "work"} /\ busy /\ memory = "live"
  /\ flight = "queued"
  /\ flight' = "cancelled"
  /\ UNCHANGED <<family, number, call, op, slots, memory, held, dir, frame, records>>

-----------------------------------------------------------------------------
(* Execution and delivery.                                                 *)

\* A worker starts; that of work_request moves the callable out of the request.
WorkerStarts ==
  /\ flight = "queued"
  /\ flight' = "working"
  /\ IF family = "work" THEN ran' = work /\ work' = 0 ELSE UNCHANGED <<ran, work>>
  /\ UNCHANGED <<family, number, call, op, busy, after, memory, held, dir, frame, called>>

\* It ends; a filesystem request then holds its result, or an error.
WorkerEnds(ok) ==
  /\ flight = "working"
  /\ flight' = "worked"
  /\ held' = IF Filesystem /\ ok THEN ResultOf[RawOf(op)] ELSE held
  /\ UNCHANGED <<family, number, call, op, slots, memory, dir, frame, records>>

\* Where the open directory is after the completion.
DirectoryDelivered ==
  CASE op = "closedir" -> "none" [] held = "directory" -> "user" [] OTHER -> dir

\* A completion up to its callback: the callables and the pending flag leave the
\* request first.
Deliverable == LoopFree /\ frame = NoFrame /\ flight \in {"worked", "cancelled"}

Hand(result) ==
  /\ Deliverable
  /\ flight' = "idle" /\ op' = "none"
  /\ frame' = [n |-> after, result |-> result]
  /\ called' = IF after = 0 THEN called ELSE [called EXCEPT ![after] = @ + 1]
  /\ busy' = FALSE /\ work' = 0 /\ after' = 0
  /\ UNCHANGED <<family, number, call, ran>>

\* stream_request::trampoline, and complete of the pool's requests.
StreamCompletes == family = "stream" /\ Hand("number") /\ UNCHANGED <<memory, held, dir>>
PoolCompletes(o) == family = "pool" /\ op = o /\ Hand("number") /\ UNCHANGED <<memory, held, dir>>
RandomCompletes == PoolCompletes("random")
GetaddrinfoCompletes == PoolCompletes("getaddrinfo")
GetnameinfoCompletes == PoolCompletes("getnameinfo")

\* work_request::complete: a cancelled one still has its work callable.
WorkCompletes == family = "work" /\ Hand("number") /\ UNCHANGED <<memory, held, dir>>

\* request::invoke: the result reads the request, an opened directory is handed over.
RawCompletes ==
  /\ family = "fs" /\ Hand(held)
  /\ dir' = DirectoryDelivered
  /\ held' = IF held = "directory" THEN "number" ELSE held
  /\ UNCHANGED memory

\* finish_status and its siblings copy the result, clean the request up and delete the
\* state before they call back.
OwnedCompletes ==
  /\ family = "owned" /\ Hand(Copied(held))
  /\ memory' = "deleted" /\ held' = "number"
  /\ UNCHANGED dir

Complete ==
  \/ StreamCompletes \/ RandomCompletes \/ GetaddrinfoCompletes \/ GetnameinfoCompletes
  \/ WorkCompletes \/ RawCompletes \/ OwnedCompletes

\* Nothing of the request is touched after the callback, which may have submitted
\* it again or destroyed it.
DeliveryReturns ==
  /\ LoopFree /\ frame # NoFrame
  /\ frame' = NoFrame
  /\ UNCHANGED <<family, number, call, flight, op, slots, memory, held, dir, records>>

\* request::cleanup, by the user of a raw filesystem request; in the callback the
\* result is given up with it.
Cleanup ==
  /\ LoopFree /\ family = "fs" /\ memory = "live" /\ flight = "idle"
  /\ held # "number"
  /\ held' = "number"
  /\ frame' = [frame EXCEPT !.result = "number"]
  /\ UNCHANGED <<family, number, call, flight, op, slots, memory, dir, records>>

\* The user destroys a request that is not in flight and holds nothing.
Destroy ==
  /\ LoopFree /\ family # "owned" /\ memory = "live"
  /\ flight = "idle" /\ ~busy /\ held = "number" /\ dir = "none"
  /\ memory' = "deleted"
  /\ UNCHANGED <<family, number, call, flight, op, slots, held, dir, frame, records>>

RNext ==
  \/ Write \/ WriteWithHandle \/ Shutdown \/ TcpConnect \/ PipeConnect \/ Send
  \/ SubmitRandom \/ SubmitGetaddrinfo \/ SubmitGetnameinfo \/ SubmitWork
  \/ \E o \in RawOperations : SubmitRaw(o)
  \/ \E o \in OwnedOperations : SubmitOwned(o)
  \/ NativeAccepts \/ NativeRefuses \/ SubmitReturns \/ Cancel
  \/ WorkerStarts \/ \E b \in BOOLEAN : WorkerEnds(b)
  \/ Complete \/ DeliveryReturns \/ Cleanup \/ Destroy

-----------------------------------------------------------------------------
(* Properties.                                                             *)

RequestTypeOK ==
  /\ family \in AllFamilies /\ number \in 0..MaxSubmits
  /\ call \in 0..MaxSubmits
  /\ flight \in {"idle", "entering", "queued", "working", "worked", "cancelled"}
  /\ op \in Operations \cup {"none"}
  /\ busy \in BOOLEAN /\ {work, after} \subseteq 0..MaxSubmits
  /\ memory \in {"none", "live", "deleted"}
  /\ dir \in {"none", "user", "request"}
  /\ frame.n \in 0..MaxSubmits

\* The request object and libuv agree at every point where user code or another
\* thread can look: a submission in flight is marked pending and holds its own
\* callback in a live object, a worker takes the callable of the submission it
\* executes, an object at rest keeps none, and nothing completes twice.
CallableMatchesFlight ==
  /\ RequestTypeOK
  /\ flight \notin {"idle", "entering"} /\ LoopFree =>
       after = number /\ busy = ~Filesystem /\ memory = "live"
  /\ flight = "idle" => ~busy /\ work = 0 /\ after = 0
  /\ flight = "working" /\ family = "work" => ran = number
  /\ \A n \in 1..MaxSubmits : called[n] <= 1

\* What an operation hands over has one owner.  A result that reads the request is
\* read while the request exists and was not cleaned up, and the callback of an
\* owned operation, which runs after both, gets no such result; a directory is its
\* user's until a closedir was accepted for it.
ResultsOwned ==
  /\ frame # NoFrame /\ ReadsRequest(frame.result) =>
       memory = "live" /\ held = frame.result
  /\ dir = "request" => op = "closedir"
  /\ memory = "deleted" => held = "number"

\* Every accepted submission calls back, once the pool has executed it and the loop
\* runs, however it was cancelled and whatever was submitted in between.
SubmissionsComplete ==
  \A n \in 1..MaxSubmits : (number = n /\ flight = "queued") ~> (called[n] = 1)

\* A submitting call and a callback return, libuv executes what is queued and its
\* loop runs until nothing is left.
RFairness ==
  /\ WF_rVars(NativeAccepts \/ NativeRefuses) /\ WF_rVars(SubmitReturns)
  /\ WF_rVars(WorkerStarts) /\ WF_rVars(\E b \in BOOLEAN : WorkerEnds(b))
  /\ WF_rVars(Complete) /\ WF_rVars(DeliveryReturns)

=============================================================================
