--------------------------- MODULE Notifications ---------------------------
(***************************************************************************)
(* pkg/notifications.  The event goroutine turns events into notifications *)
(* and puts them in a bounded queue, workers deliver them through the      *)
(* handler of their channel, the retry processor puts back what is due,    *)
(* and API callers retry, cancel and change settings.  A notification is   *)
(* shared twice: as an object, by its creator, who still saves it, and the *)
(* worker that already has it; and as rows of the store, which everybody   *)
(* reads and writes without a lock.                                        *)
(*                                                                         *)
(* Delivery history, statistics and the index by setting are written and   *)
(* never read by the service; they are left out.                           *)
(***************************************************************************)
EXTENDS Integers, Sequences, FiniteSets

CONSTANTS
    Settings,      \* identifiers of notification settings
    Channel,       \* the NotificationType of each
    Filter,        \* its event types, addresses, minimum value and topics
    Handlers,      \* channels with a registered handler
    BusEvents,        \* what the bus may deliver: [type, addrs, value, topics]
    Workers, ApiUsers,
    BufferSize,    \* config.Queue.BufferSize
    MaxAttempts,   \* config.Retry.MaxAttempts
    MaxReceived,     \* bound: events received
    MaxObjects,    \* bound: notification objects
    MaxCalls,      \* bound: calls of the API
    MaxRestarts    \* bound: restarts of the process

ASSUME AttemptsAssumption == MaxAttempts \in Int /\ MaxObjects \in Nat

VARIABLES
    settings, stored,  \* each setting in memory and in the store
    received,          \* events received
    obj,               \* notification objects, in order of creation
    deliveryQueue,             \* positions of objects
    rows,              \* the stored notifications by identifier
    byStatus, pendingIndex, \* index entries <<status, id>> and <<next retry, id>>
    local,             \* where each goroutine is, and its local variables
    calls,             \* calls of the API so far
    stopped, restarts,
    delivered, failures, \* history: outcomes of deliveries by identifier
    overlap              \* history: identifiers two goroutines handled at once

index == <<rows, byStatus, pendingIndex>>
outcome == <<delivered, failures>>
process == <<calls, stopped, restarts>>
notificationVars == <<settings, stored, received, obj, deliveryQueue, index, local, process, outcome, overlap>>

Procs == {"events", "retry"} \cup Workers \cup ApiUsers
ObjectIds == 1..MaxObjects
Unsent == {"pending", "retrying"}
Statuses == Unsent \cup {"sent", "failed", "cancelled"}

\* o: the object in hand; list: notifications still to be put in the queue;
\* copy: what was read or marshalled; to: the status to write; back: where
\* the caller goes on.
Idle == [at |-> "idle", o |-> 0, id |-> 0, list |-> {}, copy |-> {}, to |-> "", back |-> ""]

NotificationsInit ==
    /\ stored \in [Settings -> {"absent", "enabled"}] /\ settings = stored
    /\ received = 0 /\ obj = <<>> /\ deliveryQueue = <<>>
    /\ rows = <<>> /\ byStatus = {} /\ pendingIndex = {}
    /\ local = [p \in Procs |-> Idle]
    /\ calls = 0 /\ stopped = FALSE /\ restarts = 0
    /\ delivered = [i \in ObjectIds |-> 0] /\ failures = [i \in ObjectIds |-> 0]
    /\ overlap = {}

At(p) == local[p].at
Here(p) == local[p].o
Go(p, l) == local' = [local EXCEPT ![p] = l]
Goto(p, l) == Go(p, [local[p] EXCEPT !.at = l])

\* A call of the API by an idle client.
Called(c) == At(c) = "idle" /\ calls < MaxCalls /\ calls' = calls + 1

\* p begins to handle id; somebody else may be handling it.
Begin(p, id) ==
    overlap' = IF \E q \in Procs \ {p} : local[q].id = id THEN overlap \cup {id} ELSE overlap

-----------------------------------------------------------------------------
(* Matching.                                                               *)

matchesTopics(f, t) == \A i \in DOMAIN f : f[i] # {} => i <= Len(t) /\ t[i] \in f[i]

matchesFilter(f, e) ==
    /\ f.addrs # {} => e.addrs \cap f.addrs # {}
    /\ e.type = "transaction" => e.value >= f.min
    /\ e.type = "log" => matchesTopics(f.topics, e.topics)

shouldNotify(s, e) == e.type \in Filter[s].types /\ matchesFilter(Filter[s], e)

-----------------------------------------------------------------------------
(* SaveNotification and UpdateNotificationStatus, write by write.          *)

Row(x) == [setting |-> x.setting, status |-> x.status, retries |-> x.retries, next |-> x.next]
Set(f, k, v) == [x \in DOMAIN f \cup {k} |-> IF x = k THEN v ELSE f[x]]

Marshal(p) ==
    /\ At(p) = "marshal"
    /\ Go(p, [local[p] EXCEPT !.at = "row", !.copy = Row(obj[Here(p)])])
    /\ UNCHANGED <<settings, stored, received, obj, deliveryQueue, index, process, outcome, overlap>>

SaveRow(p) ==
    /\ At(p) = "row"
    /\ rows' = Set(rows, local[p].id, local[p].copy)
    /\ Goto(p, "status")
    /\ UNCHANGED <<settings, stored, received, obj, deliveryQueue, byStatus, pendingIndex, process, outcome, overlap>>

\* The keys of the entries are built from the object as it is now.
SaveStatusIndex(p) ==
    /\ At(p) = "status"
    /\ byStatus' = byStatus \cup {<<obj[Here(p)].status, local[p].id>>}
    /\ Goto(p, "pending")
    /\ UNCHANGED <<settings, stored, received, obj, deliveryQueue, rows, pendingIndex, process, outcome, overlap>>

\* What the caller does next: the next notification of its list, or rest.
Continue(p) == IF local[p].list = {} THEN Idle ELSE [Idle EXCEPT !.at = "enqueue", !.list = local[p].list]

SavePendingIndex(p) ==
    /\ At(p) = "pending"
    /\ pendingIndex' = IF obj[Here(p)].status \in Unsent
                  THEN pendingIndex \cup {<<obj[Here(p)].next, local[p].id>>} ELSE pendingIndex
    /\ Go(p, Continue(p))
    /\ UNCHANGED <<settings, stored, received, obj, deliveryQueue, rows, byStatus, process, outcome, overlap>>

\* Where the update returns to.
After(p) == IF local[p].back = "idle" THEN Idle ELSE [local[p] EXCEPT !.at = local[p].back]

\* A notification that is not stored is an error, which is logged.
UpdateNotificationStatus(p) ==
    /\ At(p) = "update"
    /\ IF local[p].id \in DOMAIN rows
       THEN Go(p, [local[p] EXCEPT !.at = "rewrite", !.copy = rows[local[p].id]])
       ELSE Go(p, After(p))
    /\ UNCHANGED <<settings, stored, received, obj, deliveryQueue, index, process, outcome, overlap>>

RewriteRow(p) ==
    /\ At(p) = "rewrite"
    /\ rows' = [rows EXCEPT ![local[p].id] = [local[p].copy EXCEPT !.status = local[p].to]]
    /\ Goto(p, "unlist")
    /\ UNCHANGED <<settings, stored, received, obj, deliveryQueue, byStatus, pendingIndex, process, outcome, overlap>>

DeleteOldStatus(p) ==
    /\ At(p) = "unlist"
    /\ byStatus' = byStatus \ {<<local[p].copy.status, local[p].id>>}
    /\ Goto(p, "relist")
    /\ UNCHANGED <<settings, stored, received, obj, deliveryQueue, rows, pendingIndex, process, outcome, overlap>>

PutNewStatus(p) ==
    /\ At(p) = "relist"
    /\ byStatus' = byStatus \cup {<<local[p].to, local[p].id>>}
    /\ Goto(p, "settle")
    /\ UNCHANGED <<settings, stored, received, obj, deliveryQueue, rows, pendingIndex, process, outcome, overlap>>

\* Mutant: the entry of a notification that is settled stays.
KeepPending(p) ==
    /\ At(p) = "settle"
    /\ Go(p, After(p))
    /\ UNCHANGED <<settings, stored, received, obj, deliveryQueue, index, process, outcome, overlap>>

DeletePending(p) ==
    /\ At(p) = "settle"
    /\ pendingIndex' = IF local[p].to \in Unsent THEN pendingIndex
                  ELSE pendingIndex \ {<<local[p].copy.next, local[p].id>>}
    /\ Go(p, After(p))
    /\ UNCHANGED <<settings, stored, received, obj, deliveryQueue, rows, byStatus, process, outcome, overlap>>

Storing(p) ==
    \/ Marshal(p) \/ SaveRow(p) \/ SaveStatusIndex(p) \/ SavePendingIndex(p)
    \/ UpdateNotificationStatus(p) \/ RewriteRow(p) \/ DeleteOldStatus(p)
    \/ PutNewStatus(p) \/ DeletePending(p)

-----------------------------------------------------------------------------
(* Creating and putting back.                                              *)

\* createNotification; the identifier is assigned with the object.
Fresh(s) == [id |-> 0, setting |-> s, status |-> "pending", retries |-> 0, next |-> 0]

handleEvent ==
    /\ At("events") = "idle" /\ ~stopped /\ received < MaxReceived
    /\ received' = received + 1
    /\ \E e \in BusEvents :
          LET list == {Fresh(s) : s \in {x \in Settings : settings[x] = "enabled" /\ shouldNotify(x, e)}}
          IN  Go("events", IF list = {} THEN Idle ELSE [Idle EXCEPT !.at = "enqueue", !.list = list])
    /\ UNCHANGED <<settings, stored, obj, deliveryQueue, index, process, outcome, overlap>>

\* A full queue drops the notification; otherwise it is saved once it is in
\* the queue, where a worker may take it first.
enqueueNotification(p) ==
    /\ At(p) = "enqueue" /\ Len(obj) < MaxObjects
    /\ \E x \in local[p].list :
          LET id == IF x.id = 0 THEN Len(obj) + 1 ELSE x.id
              rest == [Idle EXCEPT !.list = local[p].list \ {x}]
          IN  IF Len(deliveryQueue) < BufferSize
              THEN /\ obj' = Append(obj, [x EXCEPT !.id = id])
                   /\ deliveryQueue' = Append(deliveryQueue, Len(obj) + 1)
                   /\ Go(p, [rest EXCEPT !.at = "marshal", !.o = Len(obj) + 1, !.id = id])
                   /\ Begin(p, id)
              ELSE /\ Go(p, IF rest.list = {} THEN Idle ELSE [rest EXCEPT !.at = "enqueue"])
                   /\ UNCHANGED <<obj, deliveryQueue, overlap>>
    /\ UNCHANGED <<settings, stored, received, index, process, outcome>>

Loaded(id) == [id |-> id, setting |-> rows[id].setting, status |-> rows[id].status,
               retries |-> rows[id].retries, next |-> rows[id].next]

\* GetPendingNotifications follows the entries of the pending index, whatever
\* the status; only a stored retry time that has passed puts one back.
processRetries ==
    /\ At("retry") = "idle" /\ ~stopped
    /\ \E due \in SUBSET {k \in pendingIndex : k[2] \in DOMAIN rows /\ rows[k[2]].next # 0} \ {{}} :
          Go("retry", [Idle EXCEPT !.at = "enqueue", !.list = {Loaded(k[2]) : k \in due}])
    /\ UNCHANGED <<settings, stored, received, obj, deliveryQueue, index, process, outcome, overlap>>

RetryNotification(c, id) ==
    /\ Called(c) /\ id \in DOMAIN rows
    /\ Go(c, [Idle EXCEPT !.at = "enqueue",
                 !.list = {[Loaded(id) EXCEPT !.retries = 0, !.status = "pending", !.next = 0]}])
    /\ UNCHANGED <<settings, stored, received, obj, deliveryQueue, index, stopped, restarts, outcome, overlap>>

Update(p, o, id, to, back) ==
    Go(p, [Idle EXCEPT !.at = "update", !.o = o, !.id = id, !.to = to, !.back = back])

CancelNotification(c, id) ==
    /\ Called(c) /\ id \in DOMAIN rows
    /\ Update(c, 0, id, "cancelled", "idle")
    /\ Begin(c, id)
    /\ UNCHANGED <<settings, stored, received, obj, deliveryQueue, index, stopped, restarts, outcome>>

-----------------------------------------------------------------------------
(* Settings: the store first, then memory.  A setting the handler of its   *)
(* channel does not accept changes nothing.                                *)

CreateSetting(c, s) ==
    /\ Called(c) /\ stored[s] = "absent" /\ Channel[s] \in Handlers
    /\ stored' = [stored EXCEPT ![s] = "enabled"]
    /\ Go(c, [Idle EXCEPT !.at = "remember", !.copy = s, !.to = "enabled"])
    /\ UNCHANGED <<settings, received, obj, deliveryQueue, index, stopped, restarts, outcome, overlap>>

UpdateSetting(c, s) ==
    /\ Called(c) /\ stored[s] # "absent" /\ Channel[s] \in Handlers
    /\ \E to \in {"enabled", "disabled"} : Go(c, [Idle EXCEPT !.at = "replace", !.copy = s, !.to = to])
    /\ UNCHANGED <<settings, stored, received, obj, deliveryQueue, index, stopped, restarts, outcome, overlap>>

SaveSetting(c) ==
    /\ At(c) = "replace"
    /\ stored' = [stored EXCEPT ![local[c].copy] = local[c].to]
    /\ Goto(c, "remember")
    /\ UNCHANGED <<settings, received, obj, deliveryQueue, index, process, outcome, overlap>>

DeleteSetting(c, s) ==
    /\ Called(c)
    /\ stored' = [stored EXCEPT ![s] = "absent"]
    /\ Go(c, [Idle EXCEPT !.at = "remember", !.copy = s, !.to = "absent"])
    /\ UNCHANGED <<settings, received, obj, deliveryQueue, index, stopped, restarts, outcome, overlap>>

RememberSetting(c) ==
    /\ At(c) = "remember"
    /\ settings' = [settings EXCEPT ![local[c].copy] = local[c].to]
    /\ Go(c, Idle)
    /\ UNCHANGED <<stored, received, obj, deliveryQueue, index, process, outcome, overlap>>

-----------------------------------------------------------------------------
(* Workers.                                                                *)

\* A notification whose setting is gone, or whose channel has no handler, is
\* left as it is.
processNotification(w) ==
    /\ At(w) = "idle" /\ deliveryQueue # <<>>
    /\ LET o == Head(deliveryQueue)
       IN  IF settings[obj[o].setting] = "absent" \/ Channel[obj[o].setting] \notin Handlers
           THEN UNCHANGED <<obj, local, overlap>>
           ELSE /\ obj' = [obj EXCEPT ![o].status = "retrying"]
                /\ Update(w, o, obj[o].id, "retrying", "deliver")
                /\ Begin(w, obj[o].id)
    /\ deliveryQueue' = Tail(deliveryQueue)
    /\ UNCHANGED <<settings, stored, received, index, process, outcome>>

\* What the receiver makes of it: success is a status of 2xx, for Slack also
\* the body "ok", for mail the acceptance by the server.  A rate limit, a
\* message that cannot be built and a context that is done are failures.
DeliverNotification(w) ==
    /\ At(w) = "deliver"
    /\ \/ /\ delivered' = [delivered EXCEPT ![local[w].id] = @ + 1]
          /\ Goto(w, "success") /\ UNCHANGED failures
       \/ /\ failures' = [failures EXCEPT ![local[w].id] = @ + 1]
          /\ Goto(w, "failure") /\ UNCHANGED delivered
    /\ UNCHANGED <<settings, stored, received, obj, deliveryQueue, index, process, overlap>>

handleDeliverySuccess(w) ==
    /\ At(w) = "success"
    /\ obj' = [obj EXCEPT ![Here(w)].status = "sent"]
    /\ Update(w, Here(w), local[w].id, "sent", "idle")
    /\ UNCHANGED <<settings, stored, received, deliveryQueue, index, process, outcome, overlap>>

\* The retry time and the number of attempts are kept in the object; the
\* update of the stored notification writes the status only.
handleDeliveryFailure(w) ==
    /\ At(w) = "failure"
    /\ LET n == obj[Here(w)].retries + 1
           to == IF n >= MaxAttempts THEN "failed" ELSE "retrying"
       IN  /\ obj' = [obj EXCEPT ![Here(w)].retries = n, ![Here(w)].status = to,
                                 ![Here(w)].next = IF to = "failed" THEN @ ELSE n]
           /\ Update(w, Here(w), local[w].id, to, "idle")
    /\ UNCHANGED <<settings, stored, received, deliveryQueue, index, process, outcome, overlap>>

-----------------------------------------------------------------------------
\* Workers and goroutines that rest find the context done; the others finish.
StopService ==
    /\ ~stopped
    /\ stopped' = TRUE
    /\ UNCHANGED <<settings, stored, received, obj, deliveryQueue, index, local, calls, restarts, outcome, overlap>>

\* The process ends at any point and starts again.
Restart ==
    /\ restarts < MaxRestarts
    /\ restarts' = restarts + 1 /\ stopped' = FALSE
    /\ settings' = stored
    /\ deliveryQueue' = <<>> /\ local' = [p \in Procs |-> Idle]
    /\ overlap' = overlap \cup {local[p].id : p \in Procs}
    /\ UNCHANGED <<stored, received, obj, index, calls, outcome>>

Working(w) == processNotification(w) \/ DeliverNotification(w) \/ handleDeliverySuccess(w) \/ handleDeliveryFailure(w)

NotificationsNext ==
    \/ handleEvent \/ processRetries \/ StopService \/ Restart
    \/ \E p \in Procs : enqueueNotification(p) \/ Storing(p)
    \/ \E w \in Workers : Working(w)
    \/ \E c \in ApiUsers :
          \/ SaveSetting(c) \/ RememberSetting(c)
          \/ \E id \in ObjectIds : RetryNotification(c, id) \/ CancelNotification(c, id)
          \/ \E s \in Settings : CreateSetting(c, s) \/ UpdateSetting(c, s) \/ DeleteSetting(c, s)

NotificationsSpec == NotificationsInit /\ [][NotificationsNext]_notificationVars

WorkersFair == \A w \in Workers : WF_notificationVars(Working(w) \/ Storing(w))

-----------------------------------------------------------------------------
\* A notification is stored as sent only when its receiver has accepted it,
\* and as failed only after MaxAttempts deliveries have failed, whatever
\* retries, cancellations and restarts came in between.
StatusIsEarned ==
    \A id \in DOMAIN rows :
        /\ rows[id].status = "sent" => delivered[id] > 0
        /\ rows[id].status = "failed" => failures[id] >= MaxAttempts

\* Listing by status finds every stored notification, and the pending index
\* names none that is sent, failed or cancelled, unless two goroutines worked
\* on it at once or the process ended meanwhile.
FoundByStatus ==
    \A id \in DOMAIN rows \ overlap :
        (\A p \in Procs : local[p].id # id) =>
            /\ <<rows[id].status, id>> \in byStatus
            /\ (\E k \in pendingIndex : k[2] = id) => rows[id].status \in Unsent

\* The record of a notification says what became of it and is found where its
\* status says (storage.go: the row, the status index and the pending index are
\* written one after the other).
NotificationsOnRecord == StatusIsEarned /\ FoundByStatus

\* Documented ("Schedule retry"): a failed delivery is tried again.
FailedIsRetried ==
    \A id \in ObjectIds : failures[id] = 1 /\ delivered[id] = 0 /\ ~stopped /\ MaxAttempts > 1
        ~> failures[id] > 1 \/ delivered[id] > 0 \/ stopped

\* Documented ("CancelNotification cancels a pending notification").
CancelledIsNotDelivered ==
    [][\A id \in DOMAIN rows : rows[id].status = "cancelled" => delivered'[id] = delivered[id]]_notificationVars
=============================================================================
