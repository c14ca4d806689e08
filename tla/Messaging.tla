-------------------------------- MODULE Messaging --------------------------------
(***************************************************************************)
(* The chat of two users, the requests to delete its history, the notices   *)
(* of a user and the pushes to his devices: services/communication.py,      *)
(* services/push.py, web/communication_routes.py, the push pages of         *)
(* web/routes.py and CheckScheduler._send_notification.                      *)
(*                                                                         *)
(* Time is a counter: what is stamped later has a greater number.  A new    *)
(* message is stamped when it is flushed and seen when it is committed; a   *)
(* decision about a deletion request reads the request and writes it later; *)
(* a push reads the subscriptions, is delivered without a transaction, and  *)
(* then forgets the devices that refused it for good.  All else is one step.*)
(***************************************************************************)
EXTENDS Accounts

CONSTANTS Messages, Deletions,   \* slots for messages and for deletion requests
          Endpoints,             \* devices that can subscribe to pushes
          Events,                \* incidents that open
          Device,                \* stands for the notice that a device has to be connected again
          First                  \* a message of the history, from First.from to First.to,
                                 \* and the request to delete it that he may have made

ASSUME FirstAssumption == /\ First.is \in Messages /\ First.asks \in Deletions
                          /\ {First.from, First.to} \subseteq Administrators \cup Viewers
                          /\ First.from # First.to
ASSUME DeviceAssumption == Device \notin Events

MaxClock == Cardinality(Messages) + Cardinality(Deletions)
Times == 0 .. MaxClock
Somebody == Users \cup {NoUser}
Categories == {"chat", "incident_opened"}
Notices == Events \cup {Device}
Notice == {"none", "unread", "read"}
Message == [state: {"none", "flushed", "stored", "gone"},
            from: Somebody, to: Somebody, at: Times, read: BOOLEAN]
Deletion == [state: {"none", "pending", "confirmed", "rejected", "restored", "gone"},
             by: Somebody, peer: Somebody, cutoff: Times]

VARIABLES message, deletion, clock,
          requestNotice,   \* the notice of a deletion request to the peer
          notice,          \* the notices of a user's list
          deciding,        \* decisions that have read their request
          owner,           \* of the subscription of an endpoint
          wants,           \* push categories that a user left on
          external,        \* notifications_enabled
          event,           \* notices and pushes of an event: what is still to do
          outbox,          \* pushes about to read the subscriptions: to whom, and of what
          delivery,        \* pushes on their way, and to which devices
          late             \* history: unread messages that a race of two handlers hid: the
                           \* message was being sent when its recipient hid the history, or
                           \* a decision overtook the requester who restored it

chatVars == <<message, deletion, clock, requestNotice, deciding, late>>
pushVars == <<notice, owner, wants, external, event, outbox, delivery>>
-----------------------------------------------------------------------------
MaxOf(S) == CHOOSE x \in S : \A y \in S : y <= x

Active(u) == user[u].active
InConversation(m, u, p) == {message[m].from, message[m].to} = {u, p}
StoredBetween(u, p) == {m \in Messages : message[m].state = "stored" /\ InConversation(m, u, p)}

Hides(d, u, p) ==
    deletion[d].state \in {"pending", "rejected"} /\ deletion[d].by = u /\ deletion[d].peer = p
Cutoff(u, p) == MaxOf({0} \cup {deletion[d].cutoff : d \in {x \in Deletions : Hides(x, u, p)}})

\* _peer(..., allow_deleted_conversation=True)
MayOpen(u, p) == /\ p # u
                 /\ Active(p) \/ (user[p].deleted /\ StoredBetween(u, p) # {})

\* The user of a request who asks for his own page.
Asks(r, u) == Handles(r) /\ request[r].by = u /\ Answer(r)
AccountsStay == UNCHANGED <<user, session, rest>>

Seen(f, S) == [x \in DOMAIN f |-> IF x \in S /\ f[x] = "unread" THEN "read" ELSE f[x]]
Without(f, S) == [x \in DOMAIN f |-> IF x \in S THEN "none" ELSE f[x]]
ReadBy(S) == [m \in Messages |-> [message[m] EXCEPT !.read = @ \/ m \in S]]
Erased(S) == [m \in Messages |-> IF m \in S THEN [message[m] EXCEPT !.state = "gone"]
                                           ELSE message[m]]

-----------------------------------------------------------------------------
(* The chat. *)

UnreadFrom(u, p) == {m \in StoredBetween(u, p) : message[m].to = u /\ ~message[m].read}

\* chat_page of one conversation.
OpenChat(r, u, p) ==
    /\ Asks(r, u)
    /\ MayOpen(u, p)
    /\ message' = ReadBy({m \in UnreadFrom(u, p) : message[m].at > Cutoff(u, p)})
    /\ requestNotice' = Seen(requestNotice,
                             {d \in Deletions : deletion[d].by = p /\ deletion[d].peer = u})
    /\ AccountsStay
    /\ UNCHANGED <<deletion, clock, deciding, late, pushVars>>

SendMessage(r, u, p, m) ==
    /\ Asks(r, u)
    /\ p # u /\ Active(p)
    /\ message[m].state = "none"
    /\ clock' = clock + 1
    /\ message' = [message EXCEPT ![m] = [state |-> "flushed", from |-> u, to |-> p,
                                          at |-> clock', read |-> FALSE]]
    /\ AccountsStay
    /\ UNCHANGED <<deletion, requestNotice, deciding, late, pushVars>>

CommitMessage(m) ==
    LET to == message[m].to IN
    /\ message[m].state = "flushed"
    /\ message' = [message EXCEPT ![m].state = "stored"]
    /\ late' = IF message[m].at <= Cutoff(to, message[m].from) THEN late \cup {m} ELSE late
    /\ outbox' = outbox \cup {[to |-> to, of |-> "chat"]}
    /\ AccountsStay
    /\ UNCHANGED <<request, deletion, clock, requestNotice, deciding,
                   notice, owner, wants, external, event, delivery>>

\* Requests of the pair, in either direction.
RequestsBetween(u, p) == {d \in Deletions : {deletion[d].by, deletion[d].peer} = {u, p}}
Dropped(S) == [d \in Deletions |-> IF d \in S /\ deletion[d].state # "none"
                                   THEN [deletion[d] EXCEPT !.state = "gone"] ELSE deletion[d]]

\* delete_conversation_immediately: the other side is deleted.
DeleteConversation(r, u, p) ==
    /\ Asks(r, u)
    /\ MayOpen(u, p) /\ user[p].deleted
    /\ message' = Erased(StoredBetween(u, p))
    /\ deletion' = Dropped(RequestsBetween(u, p))
    /\ requestNotice' = Without(requestNotice, RequestsBetween(u, p))
    /\ AccountsStay
    /\ UNCHANGED <<clock, deciding, late, pushVars>>

\* Mutant: the hidden messages stay unread.
HiddenNone(u, p) == {}

\* "Hidden history must not keep an unread badge for the requester."
Hidden(u, p) == UnreadFrom(u, p)

RequestDeletion(r, u, p, d) ==
    /\ Asks(r, u)
    /\ p # u /\ Active(p)
    /\ deletion[d].state = "none"
    /\ clock' = clock + 1
    /\ deletion' = [deletion EXCEPT ![d] = [state |-> "pending", by |-> u, peer |-> p,
                                            cutoff |-> clock']]
    /\ message' = ReadBy(Hidden(u, p))
    /\ requestNotice' = [requestNotice EXCEPT ![d] = "unread"]
    /\ outbox' = outbox \cup {[to |-> p, of |-> "chat"]}
    /\ AccountsStay
    /\ UNCHANGED <<deciding, late, notice, owner, wants, external,
                   event, delivery>>

RestoreHistory(r, u, p) ==
    LET rows == {d \in Deletions : Hides(d, u, p)} IN
    /\ Asks(r, u)
    /\ MayOpen(u, p)
    /\ rows # {}
    /\ deletion' = [d \in Deletions |-> IF d \in rows THEN [deletion[d] EXCEPT !.state = "restored"]
                                                      ELSE deletion[d]]
    /\ requestNotice' = Seen(requestNotice, rows)
    /\ AccountsStay
    /\ UNCHANGED <<message, clock, deciding, late, pushVars>>

DecideRead(r, u, d, confirm) ==
    /\ Asks(r, u)
    /\ deletion[d].state = "pending" /\ deletion[d].peer = u
    /\ deciding' = deciding \cup {[on |-> d, confirm |-> confirm]}
    /\ AccountsStay
    /\ UNCHANGED <<message, deletion, clock, requestNotice, late, pushVars>>

\* Mutant: the confirmation takes the whole conversation.
AgreedAll(d) == StoredBetween(deletion[d].by, deletion[d].peer)

\* What a confirmation deletes.
Agreed(d) == {m \in StoredBetween(deletion[d].by, deletion[d].peer) :
                 message[m].at <= deletion[d].cutoff}

\* The rest of chat_delete_decision; a request that is gone meanwhile ends it with an error.
DecideWrite(x) ==
    /\ x \in deciding
    /\ deciding' = deciding \ {x}
    /\ IF deletion[x.on].state = "gone"
       THEN UNCHANGED <<deletion, message, requestNotice, late>>
       ELSE /\ deletion' = [deletion EXCEPT ![x.on].state = IF x.confirm THEN "confirmed"
                                                                        ELSE "rejected"]
            /\ message' = IF x.confirm THEN Erased(Agreed(x.on)) ELSE message
            /\ requestNotice' = Seen(requestNotice, {x.on})
            /\ late' = IF deletion[x.on].state = "pending" THEN late
                       ELSE late \cup {m \in Agreed(x.on) : m \in UnreadFrom(deletion[x.on].by, deletion[x.on].peer)}
    /\ AccountsStay
    /\ UNCHANGED <<request, clock, pushVars>>

-----------------------------------------------------------------------------
(* The notices.  A list shows the notices of incidents and devices only. *)

\* The lists after u read, or deleted, his notices in S.
ReadIn(u, S) == [n \in Notices |-> IF n \in S THEN Seen(notice[n], {u}) ELSE notice[n]]
DeletedIn(u, S) == [n \in Notices |-> IF n \in S THEN Without(notice[n], {u}) ELSE notice[n]]

NoticeRead(r, u, n) ==
    /\ Asks(r, u)
    /\ notice[n][u] # "none"
    /\ notice' = ReadIn(u, {n})
    /\ AccountsStay
    /\ UNCHANGED <<chatVars, owner, wants, external, event, outbox, delivery>>

NoticeDelete(r, u, n) ==
    /\ Asks(r, u)
    /\ notice[n][u] # "none"
    /\ notice' = DeletedIn(u, {n})
    /\ AccountsStay
    /\ UNCHANGED <<chatVars, owner, wants, external, event, outbox, delivery>>

NoticesReadAll(r, u) ==
    /\ Asks(r, u)
    /\ notice' = ReadIn(u, Notices)
    /\ AccountsStay
    /\ UNCHANGED <<chatVars, owner, wants, external, event, outbox, delivery>>

NoticesDeleteRead(r, u) ==
    /\ Asks(r, u)
    /\ notice' = DeletedIn(u, {n \in Notices : notice[n][u] = "read"})
    /\ AccountsStay
    /\ UNCHANGED <<chatVars, owner, wants, external, event, outbox, delivery>>

NoticesDeleteAll(r, u) ==
    /\ Asks(r, u)
    /\ notice' = DeletedIn(u, Notices)
    /\ AccountsStay
    /\ UNCHANGED <<chatVars, owner, wants, external, event, outbox, delivery>>

Preferences(r, u, categories) ==
    /\ Asks(r, u)
    /\ wants' = [wants EXCEPT ![u] = categories]
    /\ AccountsStay
    /\ UNCHANGED <<chatVars, notice, owner, external, event,
                   outbox, delivery>>

-----------------------------------------------------------------------------
(* Devices and pushes. *)

\* save_subscription: a device that somebody else had subscribed changes hands.
Subscribe(r, u, x) ==
    /\ Asks(r, u)
    /\ owner' = [owner EXCEPT ![x] = u]
    /\ AccountsStay
    /\ UNCHANGED <<chatVars, notice, wants, external, event,
                   outbox, delivery>>

\* push_unsubscribe by the owner, push_subscription_delete by an administrator.
Unsubscribe(r, x) ==
    /\ Handles(r)
    /\ owner[x] # NoUser
    /\ owner[x] = request[r].by \/ request[r].admin
    /\ owner' = [owner EXCEPT ![x] = NoUser]
    /\ Answer(r)
    /\ AccountsStay
    /\ UNCHANGED <<chatVars, notice, wants, external, event,
                   outbox, delivery>>

\* settings_notifications_update
ToggleExternal(r) ==
    /\ AdminHandles(r)
    /\ external' = ~external
    /\ Answer(r)
    /\ AccountsStay
    /\ UNCHANGED <<chatVars, notice, owner, wants, event,
                   outbox, delivery>>

\* push_subscription_test reads the one subscription, whatever is switched off.
PushTest(r, x) ==
    /\ AdminHandles(r)
    /\ owner[x] # NoUser
    /\ delivery' = delivery \cup {[to |-> owner[x], of |-> "test", endpoints |-> {x}]}
    /\ Answer(r)
    /\ AccountsStay
    /\ UNCHANGED <<chatVars, notice, owner, wants, external, event, outbox>>

\* create_incident_notifications; the pushes follow one by one.
CreateNotices(e) ==
    /\ event[e].pc = "due"
    /\ LET users == {u \in Users : Active(u)} IN
         /\ notice' = [notice EXCEPT ![e] = [u \in Users |-> IF u \in users THEN "unread" ELSE @[u]]]
         /\ event' = [event EXCEPT ![e] = [pc |-> "pushing", left |-> users]]
    /\ AccountsStay
    /\ UNCHANGED <<request, chatVars, owner, wants, external, outbox, delivery>>

NextPush(e) ==
    /\ event[e].pc = "pushing"
    /\ \E u \in event[e].left :
         /\ event' = [event EXCEPT ![e].pc = "waiting", ![e].left = @ \ {u}]
         /\ outbox' = outbox \cup {[to |-> u, of |-> e]}
    /\ AccountsStay
    /\ UNCHANGED <<request, chatVars, notice, owner, wants, external,
                   delivery>>

Devices(u) == {x \in Endpoints : owner[x] = u}
Category(push) == IF push.of \in Events THEN "incident_opened" ELSE push.of
Sends(push) == /\ external
               /\ Active(push.to)
               /\ Category(push) \in wants[push.to]
               /\ Devices(push.to) # {}

\* The pushes of an event are sent one after the other.
Returns(push) ==
    event' = [e \in Events |-> IF e = push.of THEN [event[e] EXCEPT !.pc = "pushing"] ELSE event[e]]

\* send_push_to_user up to the delivery.  A chat push is dropped for a reader of the chat.
LoadPush(push) ==
    /\ push \in outbox
    /\ outbox' = outbox \ {push}
    /\ \/ /\ Sends(push)
          /\ delivery' = delivery \cup {[to |-> push.to, of |-> push.of,
                                         endpoints |-> Devices(push.to)]}
          /\ UNCHANGED event
       \/ /\ ~Sends(push) \/ push.of = "chat"
          /\ Returns(push)
          /\ UNCHANGED delivery
    /\ AccountsStay
    /\ UNCHANGED <<request, chatVars, notice, owner, wants, external>>

\* Mutant: the endpoint is enough to find the row.
StaleAnyOwner(to, refused) == {x \in refused : owner[x] # NoUser}

\* The rows of _remove_stale_subscriptions.
Stale(to, refused) == {x \in refused : owner[x] = to}

\* Any device may refuse for good; other failures change nothing.
DeliverPush(p) ==
    /\ p \in delivery
    /\ delivery' = delivery \ {p}
    /\ \E refused \in SUBSET p.endpoints :
         /\ owner' = [x \in Endpoints |-> IF x \in Stale(p.to, refused) THEN NoUser ELSE owner[x]]
         /\ notice' = IF Stale(p.to, refused) = {} THEN notice
                      ELSE [notice EXCEPT ![Device][p.to] = "unread"]
    /\ Returns(p)
    /\ AccountsStay
    /\ UNCHANGED <<request, chatVars, wants, external, outbox>>

\* The letter follows the last push; it may fail, or be switched off.
Mail(e) ==
    /\ event[e].pc = "pushing" /\ event[e].left = {}
    /\ event' = [event EXCEPT ![e].pc = "mailed"]
    /\ AccountsStay
    /\ UNCHANGED <<request, chatVars, notice, owner, wants, external,
                   outbox, delivery>>

-----------------------------------------------------------------------------
\* cleanup_deleted_user_communication(u): the part of user_delete that belongs here.
Cleanup(u) ==
    LET requests == {d \in Deletions : u \in {deletion[d].by, deletion[d].peer}}
        deletedPeers == {p \in Users \ {u} : user[p].deleted}
    IN /\ deletion' = Dropped(requests)
       /\ requestNotice' = Without(requestNotice, requests)
       /\ notice' = DeletedIn(u, Notices)
       /\ owner' = [x \in Endpoints |-> IF owner[x] = u THEN NoUser ELSE owner[x]]
       /\ message' = Erased(UNION {StoredBetween(u, p) : p \in deletedPeers})
       /\ UNCHANGED <<clock, deciding, late, wants, external, event, outbox, delivery>>

\* Somebody's device is subscribed at first, and an incident may just have opened.
MessagingInit(start) ==
    /\ message = [m \in Messages |->
                    IF m = First.is THEN [state |-> "stored", from |-> First.from,
                                          to |-> First.to, at |-> 1, read |-> start.asked]
                    ELSE [state |-> "none", from |-> NoUser, to |-> NoUser, at |-> 0,
                          read |-> FALSE]]
    /\ deletion = [d \in Deletions |->
                     IF start.asked /\ d = First.asks
                     THEN [state |-> "pending", by |-> First.to, peer |-> First.from, cutoff |-> 2]
                     ELSE [state |-> "none", by |-> NoUser, peer |-> NoUser, cutoff |-> 0]]
    /\ clock = IF start.asked THEN 2 ELSE 1
    /\ requestNotice = [d \in Deletions |-> IF start.asked /\ d = First.asks THEN "unread" ELSE "none"]
    /\ notice = [n \in Notices |-> [u \in Users |-> "none"]]
    /\ deciding = {}
    /\ owner = [x \in Endpoints |-> start.device]
    /\ wants = [u \in Users |-> Categories]
    /\ external = TRUE
    /\ event = [e \in Events |-> [pc |-> start.event, left |-> {}]]
    /\ outbox = {}
    /\ delivery = {}
    /\ late = {}
=============================================================================
