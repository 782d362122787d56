------------------------------- MODULE FileWatch -------------------------------
(****************************************************************************)
(* The file watch of Fast DDS as robotpkg builds it                         *)
(* (middleware/fastdds/patches/patch-thirdparty_filewatch_FileWatch.hpp):   *)
(* inotify(7) on Linux, kqueue(2) on NetBSD.  A watch has a descriptor for  *)
(* events, `folder', one for what it watches, `watch' (on Linux a number    *)
(* inotify gives, not a descriptor), a thread that reads events and one     *)
(* that calls the user back.  The owner constructs and destroys it.  Both   *)
(* systems are given the same path to watch: the directory of the file.     *)
(*                                                                          *)
(* Of the kernel and of the parts of the class the patch leaves as they     *)
(* are, the module has what the patched lines use: `pending', the events    *)
(* the kernel has for `folder'; the promise and the start of the threads;   *)
(* and the callback thread, which ends when it is told so and has finished  *)
(* the call it is in.  The file is asked for its status between the read    *)
(* and the parsing; no patched line uses the answer, and it is left out.    *)
(****************************************************************************)
EXTENDS Naturals, Sequences

CONSTANTS
    Platforms,  \* subset of {"linux", "netbsd"}
    MaxChanges  \* how many times the watched file changes: bounds the run

ASSUME FileWatchAssumption ==
    /\ Platforms \subseteq {"linux", "netbsd"}
    /\ MaxChanges \in Nat

VARIABLES
    platform,
    folder, watch,  \* "none", "open" or "closed"
    owner,          \* where the constructor, then destroy(), has got to
    running,        \* the promise the constructor waits for is fulfilled
    destory,        \* _destory
    watcher,        \* where the thread of monitor_directory() is
    pending,        \* Linux: the queue of events; NetBSD: <<>> or one event,
                    \* the set of the notes since the last read (EV_CLEAR)
    parsed,         \* parsed_information
    queue,          \* _callback_information
    caller,         \* the callback thread: "none", "wait", "call" or "end"
    exists,         \* the file is there
    directory,      \* its directory is there
    changes,        \* how many times the file or another one has changed
    unseen,         \* auxiliary: the file has changed, in a way its system
                    \* tells of, since the last callback began
    told            \* auxiliary: the event of that callback

vars == <<platform, folder, watch, owner, running, destory, watcher, pending,
          parsed, queue, caller, exists, directory, changes, unseen, told>>

descriptors == <<folder, watch>>
file == <<exists, directory, changes>>
callback == <<queue, caller, told>>

Linux == platform = "linux"
NetBSD == platform = "netbsd"

\* An event is the set of its flags.  An inotify event has one; it is about
\* the file, about another one of its directory ("other"), or says that the
\* watch is removed ("ignored").
Notes == SUBSET {"delete", "write", "extend"}
Events == {{e} : e \in {"create", "delete", "modify", "other", "ignored"}}
Reports == {"added", "removed", "modified"}

TypeOK ==
    /\ platform \in Platforms
    /\ folder \in {"none", "open", "closed"}
    /\ watch \in {"none", "open", "closed"}
    /\ owner \in {"folder", "watch", "start", "wait", "use", "threw", "wake",
                  "notify", "join", "joincall", "close", "gone"}
    /\ running \in BOOLEAN /\ destory \in BOOLEAN
    /\ watcher \in {"none", "start", "test", "read", "dispatch", "end"}
    /\ pending \in Seq(IF Linux THEN Events ELSE Notes)
    /\ parsed \in Seq(Reports) /\ (parsed # <<>> => watcher = "dispatch")
    /\ queue \in Seq(Reports)
    /\ caller \in {"none", "wait", "call", "end"}
    /\ exists \in BOOLEAN /\ directory \in BOOLEAN /\ changes \in Nat
    /\ unseen \in BOOLEAN
    /\ told \in Reports \cup {"nothing"}

Init ==
    /\ platform \in Platforms
    /\ folder = "none" /\ watch = "none"
    /\ owner = "folder" /\ running = FALSE /\ destory = FALSE
    /\ watcher = "none" /\ caller = "none"
    /\ pending = <<>> /\ parsed = <<>> /\ queue = <<>>
    /\ exists = TRUE /\ directory = TRUE /\ changes = 0
    /\ unseen = FALSE /\ told = "nothing"

-----------------------------------------------------------------------------
(* The constructor: get_directory(), then init().                           *)

\* inotify_init() or kqueue().
OpenFolder ==
    /\ owner = "folder"
    /\ \/ folder' = "open" /\ owner' = "watch"
       \/ UNCHANGED folder /\ owner' = "threw"
    /\ UNCHANGED <<platform, watch, running, destory, watcher, pending, parsed,
                   callback, file, unseen>>

\* inotify_add_watch(), or open() and the registration by kevent().
AddWatch ==
    /\ owner = "watch"
    /\ watch' = "open" /\ owner' = "start"
    /\ UNCHANGED <<platform, folder, running, destory, watcher, pending, parsed,
                   callback, file, unseen>>

\* Variant: the file opened before a failed registration is not closed.
AddWatchFailsOpen ==
    /\ owner = "watch"
    /\ watch' \in IF NetBSD THEN {"none", "open"} ELSE {"none"}
    /\ owner' = "threw"
    /\ UNCHANGED <<platform, folder, running, destory, watcher, pending, parsed,
                   callback, file, unseen>>

\* open() fails, or the registration does and the file is closed.  What is
\* thrown leaves `folder' open: no destructor runs.
AddWatchFails ==
    /\ owner = "watch"
    /\ watch' \in IF NetBSD THEN {"none", "closed"} ELSE {"none"}
    /\ owner' = "threw"
    /\ UNCHANGED <<platform, folder, running, destory, watcher, pending, parsed,
                   callback, file, unseen>>

StartThreads ==
    /\ owner = "start"
    /\ watcher' = "start" /\ caller' = "wait" /\ owner' = "wait"
    /\ UNCHANGED <<platform, descriptors, running, destory, pending, parsed,
                   queue, told, file, unseen>>

\* The constructor returns when the watch thread is up.
Constructed ==
    /\ owner = "wait" /\ running
    /\ owner' = "use"
    /\ UNCHANGED <<platform, descriptors, running, destory, watcher, pending,
                   parsed, callback, file, unseen>>

-----------------------------------------------------------------------------
(* destroy().                                                               *)

\* The flag is set, and the promise replaced by one nobody waits for.
Destroy ==
    /\ owner = "use"
    /\ destory' = TRUE /\ owner' = "wake"
    /\ UNCHANGED <<platform, descriptors, running, watcher, pending, parsed,
                   callback, file, unseen>>

\* Variant: the watch is removed but nobody is woken, as on NetBSD.
RemoveWatchQuietly ==
    /\ owner = "wake"
    /\ watch' = IF Linux THEN "closed" ELSE watch
    /\ owner' = "notify"
    /\ UNCHANGED <<platform, folder, running, destory, watcher, pending, parsed,
                   callback, file, unseen>>

\* inotify_rm_watch() queues a last event, if there is still a watch; on
\* NetBSD nothing is done.
RemoveWatch ==
    /\ owner = "wake"
    /\ IF Linux /\ watch = "open"
       THEN watch' = "closed" /\ pending' = Append(pending, {"ignored"})
       ELSE UNCHANGED <<watch, pending>>
    /\ owner' = "notify"
    /\ UNCHANGED <<platform, folder, running, destory, watcher, parsed, callback,
                   file, unseen>>

\* _cv.notify_all(): the callback thread will see the flag.
Notify ==
    /\ owner = "notify"
    /\ owner' = "join"
    /\ UNCHANGED <<platform, descriptors, running, destory, watcher, pending,
                   parsed, callback, file, unseen>>

\* Variant: the watch thread is left to end by itself.
JoinWatchForgotten ==
    /\ owner = "join"
    /\ owner' = "joincall"
    /\ UNCHANGED <<platform, descriptors, running, destory, watcher, pending,
                   parsed, callback, file, unseen>>

JoinWatch ==
    /\ owner = "join" /\ watcher = "end"
    /\ owner' = "joincall"
    /\ UNCHANGED <<platform, descriptors, running, destory, watcher, pending,
                   parsed, callback, file, unseen>>

JoinCallback ==
    /\ owner = "joincall" /\ caller = "end"
    /\ owner' = "close"
    /\ UNCHANGED <<platform, descriptors, running, destory, watcher, pending,
                   parsed, callback, file, unseen>>

\* close(folder) on Linux, close(watch) on NetBSD: its kqueue stays open.
CloseDescriptors ==
    /\ owner = "close"
    /\ IF Linux THEN folder' = "closed" /\ UNCHANGED watch
                ELSE watch' = "closed" /\ UNCHANGED folder
    /\ owner' = "gone"
    /\ UNCHANGED <<platform, running, destory, watcher, pending, parsed,
                   callback, file, unseen>>

Owner == \/ OpenFolder \/ AddWatch \/ AddWatchFails \/ StartThreads
         \/ Constructed \/ RemoveWatch \/ Notify \/ JoinWatch \/ JoinCallback
         \/ CloseDescriptors

-----------------------------------------------------------------------------
(* monitor_directory(), in the watch thread.                                *)

SetRunning ==
    /\ watcher = "start"
    /\ running' = TRUE /\ watcher' = "test"
    /\ UNCHANGED <<platform, descriptors, owner, destory, pending, parsed,
                   callback, file, unseen>>

TestDestory ==
    /\ watcher = "test"
    /\ watcher' = IF destory THEN "end" ELSE "read"
    /\ UNCHANGED <<platform, descriptors, owner, running, destory, pending,
                   parsed, callback, file, unseen>>

\* Variant: a failure ends the loop.
ReadFailsEnds ==
    /\ watcher = "read"
    /\ watcher' = "end"
    /\ UNCHANGED <<platform, descriptors, owner, running, destory, pending,
                   parsed, callback, file, unseen>>

\* read() or kevent() fails, when interrupted: the loop goes on.
ReadFails ==
    /\ watcher = "read"
    /\ watcher' = "test"
    /\ UNCHANGED <<platform, descriptors, owner, running, destory, pending,
                   parsed, callback, file, unseen>>

\* What the loop makes of an inotify event, seen a modification or not.
ReportsOfEvent(e, seen) ==
    CASE e = {"create"}            -> <<"added">>
      [] e = {"delete"}            -> <<"removed">>
      [] e = {"modify"} /\ ~seen   -> <<"modified">>
      [] OTHER                     -> <<>>

\* Variant: a modification is looked for before a removal.
ReportsOfWrittenNotes(notes) ==
    IF notes \cap {"write", "extend"} # {} THEN <<"modified">>
    ELSE IF "delete" \in notes THEN <<"removed">> ELSE <<>>

\* Variant: the flags are compared, not masked.
ReportsOfNotesAlone(notes) ==
    IF notes = {"delete"} THEN <<"removed">>
    ELSE IF notes \in {{"write"}, {"extend"}} THEN <<"modified">> ELSE <<>>

\* ... and of a kevent: its only one, the watch has one filter.
ReportsOfNotes(notes) ==
    IF "delete" \in notes THEN <<"removed">>
    ELSE IF notes \cap {"write", "extend"} # {} THEN <<"modified">> ELSE <<>>

\* Modifications after the first one of a batch are not reported.
ReportsOfBatch[batch \in Seq(Events)] ==
    IF batch = <<>> THEN <<>>
    ELSE LET before == SubSeq(batch, 1, Len(batch) - 1)
             seen == \E i \in DOMAIN before : before[i] = {"modify"}
         IN  ReportsOfBatch[before] \o ReportsOfEvent(batch[Len(batch)], seen)

\* The read blocks until there is something, then takes it all.
Read ==
    /\ watcher = "read" /\ pending # <<>>
    /\ parsed' = IF Linux THEN ReportsOfBatch[pending]
                          ELSE ReportsOfNotes(pending[1])
    /\ pending' = <<>>
    /\ watcher' = "dispatch"
    /\ UNCHANGED <<platform, descriptors, owner, running, destory, callback,
                   file, unseen>>

\* Variant: what is parsed stays for the next round.
DispatchKeeping ==
    /\ watcher = "dispatch"
    /\ queue' = queue \o parsed
    /\ watcher' = "test"
    /\ UNCHANGED <<platform, descriptors, owner, running, destory, pending,
                   parsed, caller, told, file, unseen>>

\* Under _callback_mutex.
Dispatch ==
    /\ watcher = "dispatch"
    /\ queue' = queue \o parsed
    /\ parsed' = <<>> /\ watcher' = "test"
    /\ UNCHANGED <<platform, descriptors, owner, running, destory, pending,
                   caller, told, file, unseen>>

Watcher == SetRunning \/ TestDestory \/ ReadFails \/ Read \/ Dispatch

-----------------------------------------------------------------------------
(* The callback thread.                                                     *)

Call ==
    /\ caller = "wait" /\ queue # <<>>
    /\ told' = Head(queue) /\ queue' = Tail(queue)
    /\ unseen' = FALSE
    /\ caller' = "call"
    /\ UNCHANGED <<platform, descriptors, owner, running, destory, watcher,
                   pending, parsed, file>>

CallReturns ==
    /\ caller = "call"
    /\ caller' = "wait"
    /\ UNCHANGED <<platform, descriptors, owner, running, destory, watcher,
                   pending, parsed, queue, told, file, unseen>>

CallbackEnds ==
    /\ caller = "wait" /\ destory /\ owner \notin {"use", "wake", "notify"}
    /\ caller' = "end"
    /\ UNCHANGED <<platform, descriptors, owner, running, destory, watcher,
                   pending, parsed, queue, told, file, unseen>>

Callback == Call \/ CallReturns \/ CallbackEnds

-----------------------------------------------------------------------------
(* The file, its directory and the kernel's events for them.                *)

Watched ==
    watch = "open" /\ directory /\ owner \notin {"folder", "watch", "threw", "gone"}

KernelNotes(notes) ==
    pending' = IF pending = <<>> THEN <<notes>> ELSE <<pending[1] \cup notes>>

\* A file of the directory is created, deleted or modified.  inotify has an
\* event for each; a kqueue notes that the directory is written, whichever file
\* comes or goes, and nothing when the contents of one change.
Change ==
    /\ Watched /\ changes < MaxChanges
    /\ \E e \in {"create", "delete", "modify", "other"} :
          /\ e = "create" => ~exists
          /\ e \in {"delete", "modify"} => exists
          /\ exists' = (e = "create" \/ (exists /\ e # "delete"))
          /\ \/ Linux /\ pending' = Append(pending, {e})
             \/ /\ NetBSD /\ e # "modify"
                /\ \E notes \in {{"write"}, {"write", "extend"}} : KernelNotes(notes)
             \/ NetBSD /\ e = "modify" /\ UNCHANGED pending
          /\ unseen' = (unseen \/ e = "create" \/ e = "delete"
                               \/ (Linux /\ e = "modify"))
    /\ changes' = changes + 1
    /\ UNCHANGED <<platform, descriptors, owner, running, destory, watcher,
                   parsed, callback, directory>>

\* The empty directory is removed: inotify removes its watch by itself.
RemoveDirectory ==
    /\ Watched /\ ~exists
    /\ directory' = FALSE
    /\ IF Linux THEN watch' = "closed" /\ pending' = Append(pending, {"ignored"})
                ELSE KernelNotes({"delete"}) /\ UNCHANGED watch
    /\ UNCHANGED <<platform, folder, owner, running, destory, watcher, parsed,
                   callback, exists, changes, unseen>>

-----------------------------------------------------------------------------
Next == Owner \/ Destroy \/ Watcher \/ Callback \/ Change \/ RemoveDirectory

Spec == Init /\ [][Next]_vars

\* The threads are scheduled, a callback returns, and a read that has
\* something to return is not interrupted for ever.  A read that has nothing
\* to return need never be interrupted: ReadFails is under no obligation.
FairSpec == /\ Spec
            /\ WF_vars(Owner)
            /\ WF_vars(SetRunning \/ TestDestory \/ Dispatch) /\ SF_vars(Read)
            /\ WF_vars(Callback)

-----------------------------------------------------------------------------
\* A descriptor is open whenever a thread uses it: destroy() closes `folder'
\* only when the thread that reads it is known to have ended, and nothing but
\* the removal of the directory removes the watch before destroy() does.
DescriptorInUse ==
    /\ watcher = "read" => folder = "open"
    /\ owner = "wake" => watch = "open" \/ ~directory

\* A watch that was not constructed, or is destroyed, keeps no file open:
\* also when the registration of an opened file fails.
NoFileLeft == owner \in {"threw", "gone"} => watch # "open"

OnItsWay ==
    \/ \E i \in DOMAIN pending : pending[i] \cap {"other", "ignored"} = {}
    \/ parsed # <<>> \/ queue # <<>>

\* When the file was created or deleted, or on Linux modified, and no callback
\* has begun since, a report is somewhere between the kernel and the callback
\* thread: merging the notes of a kqueue and dropping repeated modifications
\* loses none.  On NetBSD a modification of the contents is never reported.
NoChangeLost == unseen => OnItsWay

\* What a report of a removal denies: the file on Linux; on NetBSD, where the
\* file's own removal is reported as a modification, the directory.
There == IF Linux THEN exists ELSE directory

\* Once everything has been reported, the last report was of a removal if what
\* it denies is gone, and only then: events keep their order, and a removal
\* wins in a merged note.
LastReportTrue == ~OnItsWay => (told = "removed" <=> ~There)

\* Every change the system tells of is followed by a callback, or by the end of
\* the watch.
ChangeReported == unseen ~> ~unseen \/ destory

\* destroy() ends; where it does not wake the watch thread, on NetBSD and when
\* the directory is gone, if there is something for that thread to read.
DestroyEnds ==
    owner = "join" /\ ((Linux /\ directory) \/ pending # <<>>) ~> owner = "gone"
=============================================================================
