------------------------------ MODULE HelpServ ------------------------------
(***************************************************************************)
(* HelpServ: the ticket queue, the cooldowns of HELPME and REQUEST and     *)
(* what is saved of them, with a save that is deferred by some seconds     *)
(* (src/HelpServ/helpserv.cpp, helpserv_core.cpp).                         *)
(*                                                                         *)
(* Times are ages, growing with the clock up to the largest value the code *)
(* tells apart.  Texts (nick, topic, message, notes, assignee) and         *)
(* counters have no bearing on the queue and are left out: a command that  *)
(* writes one of them refreshes the ticket and the save.                   *)
(***************************************************************************)
EXTENDS Integers, FiniteSets

CONSTANTS
  Owners,            \* NickServ accounts
  Names,             \* their names
  NamesOf,           \* the grouped nicks of an account: its possible displays
  TicketExpire,      \* 0: tickets do not expire
  HelpMeCooldown, RequestCooldown,
  PruneInterval, PruneTTL, PruneMaxSize,
  ReadOnlyModes,     \* the values OperServ SET READONLY takes
  MaxId,             \* bound: ticket ids
  MaxAge             \* bound: ages of tickets that do not expire

ASSUME ConfigAssumption ==
  /\ {TicketExpire, HelpMeCooldown, RequestCooldown, PruneInterval, PruneTTL, PruneMaxSize,
      MaxId, MaxAge} \subseteq Nat
  /\ NamesOf \in [Owners -> SUBSET Names]
  /\ ReadOnlyModes \subseteq BOOLEAN

VARIABLES
  up, readonly,      \* the module is loaded; Anope::ReadOnly
  display,           \* the display of each account
  tickets,           \* HelpServTicketList: id -> ticket
  next,              \* next_ticket_id
  cool,              \* last_helpme_by_key, last_request_by_key: time since then
  pruned,            \* time since last_cooldown_prune
  pending, timer,    \* db_save_pending; db_save_timer has been created
  disk               \* what the database backend has stored

memory == <<tickets, next, cool>>
vars   == <<up, readonly, display, memory, pruned, pending, timer, disk>>

Never == -1                          \* last_cooldown_prune = 0
Empty == [k \in {} |-> 0]

Put(f, k, v)   == [x \in DOMAIN f \union {k} |-> IF x = k THEN v ELSE f[x]]
Only(f, S)     == [x \in S |-> f[x]]
Without(f, k)  == Only(f, DOMAIN f \ {k})

-----------------------------------------------------------------------------
(* Expiry and the queue *)

Expired(t) == TicketExpire > 0 /\ t.age > TicketExpire

\* PruneExpiredTickets
Live == {id \in DOMAIN tickets : ~Expired(tickets[id])}
Kept == Only(tickets, Live)

\* GetSortedTickets: open before waiting, then priority, last update, id.
Before(ts, x, y) ==
  LET a == ts[x]  b == ts[y] IN
  \/ ~a.waiting /\ b.waiting
  \/ a.waiting = b.waiting /\ a.priority > b.priority
  \/ a.waiting = b.waiting /\ a.priority = b.priority
       /\ (a.age > b.age \/ (a.age = b.age /\ x < y))

\* FindOpenTicketByAccountKey
TicketsOf(a) == {id \in Live : tickets[id].account = a}

-----------------------------------------------------------------------------
(* Saving *)

\* A plausible slip: once the timer exists nothing is marked for it any more.
ScheduleOnce ==
  IF readonly \/ timer THEN UNCHANGED <<pending, timer>>
  ELSE pending' = TRUE /\ timer' = TRUE

ScheduleDBSave ==
  IF readonly THEN UNCHANGED <<pending, timer>>
  ELSE pending' = TRUE /\ timer' = TRUE

Stored == [tickets |-> tickets, next |-> next, cool |-> cool]

\* Anope writes nothing in read-only mode.
SaveDatabases == disk' = IF readonly THEN disk ELSE Stored

SaveTimer ==
  /\ up /\ timer /\ pending
  /\ pending' = FALSE
  /\ SaveDatabases
  /\ UNCHANGED <<up, readonly, display, memory, pruned, timer>>

\* A handler leaves the tickets ts behind; it has counted itself before.
Leave(ts) ==
  /\ tickets' = ts
  /\ ScheduleDBSave
  /\ UNCHANGED <<up, readonly, display, disk>>

-----------------------------------------------------------------------------
(* Cooldowns *)

CooldownOf(kind) == IF kind = "helpme" THEN HelpMeCooldown ELSE RequestCooldown

Prunes ==
  \/ Cardinality(DOMAIN cool) >= PruneMaxSize
  \/ pruned = Never
  \/ PruneInterval = 0
  \/ pruned >= PruneInterval

\* A plausible slip: what is as old as the TTL is dropped too.
PrunedEarly == IF Prunes THEN Only(cool, {k \in DOMAIN cool : cool[k] < PruneTTL}) ELSE cool

PrunedCooldowns ==
  IF Prunes THEN Only(cool, {k \in DOMAIN cool : cool[k] <= PruneTTL}) ELSE cool

PruneCooldownMaps == pruned' = IF Prunes THEN 0 ELSE pruned

Cooling(kind, name) ==
  /\ <<kind, name>> \in DOMAIN PrunedCooldowns
  /\ cool[<<kind, name>>] < CooldownOf(kind)

-----------------------------------------------------------------------------
(* Commands of users; the account with display a is identified *)

HelpMe(a) ==
  /\ PruneCooldownMaps
  /\ cool' = IF Cooling("helpme", a) THEN PrunedCooldowns
             ELSE Put(PrunedCooldowns, <<"helpme", a>>, 0)
  /\ Leave(tickets) /\ UNCHANGED next

RefuseRequest(a) ==
  /\ Cooling("request", a)
  /\ PruneCooldownMaps /\ cool' = PrunedCooldowns
  /\ Leave(Kept) /\ UNCHANGED next

Accept(a) ==
  /\ ~Cooling("request", a)
  /\ PruneCooldownMaps
  /\ cool' = Put(PrunedCooldowns, <<"request", a>>, 0)

\* A plausible slip: the ticket is looked up before old ones are dropped.
UpdateAnyTicket(a) ==
  \E id \in {i \in DOMAIN tickets : tickets[i].account = a} :
    /\ Accept(a)
    /\ Leave([Only(tickets, Live \union {id}) EXCEPT ![id].age = 0])
    /\ UNCHANGED next

\* The state and the priority of the ticket stay as they are.
UpdateTicket(a) ==
  \E id \in TicketsOf(a) :
    /\ Accept(a)
    /\ Leave([Kept EXCEPT ![id].age = 0])
    /\ UNCHANGED next

NewTicket(a) == [account |-> a, priority |-> 1, waiting |-> FALSE, age |-> 0]

\* A plausible slip: "open ticket" is taken to exclude the waiting ones.
OpenTicketBesideWaiting(a) ==
  /\ \A id \in TicketsOf(a) : tickets[id].waiting
  /\ next <= MaxId
  /\ Accept(a)
  /\ Leave(Put(Kept, next, NewTicket(a))) /\ next' = next + 1

OpenTicket(a) ==
  /\ TicketsOf(a) = {}
  /\ next <= MaxId
  /\ Accept(a)
  /\ Leave(Put(Kept, next, NewTicket(a))) /\ next' = next + 1

Request(a) == RefuseRequest(a) \/ UpdateTicket(a) \/ OpenTicket(a)

Cancel(a) ==
  \E id \in TicketsOf(a) : Leave(Without(Kept, id)) /\ UNCHANGED <<next, cool, pruned>>

-----------------------------------------------------------------------------
(* Commands of staff *)

\* By id, by account or by nick.
Close(id) == Leave(Without(Kept, id)) /\ UNCHANGED <<next, cool, pruned>>

\* Each of the following refreshes the ticket it names.
Edit(id, t) ==
  /\ Leave([Kept EXCEPT ![id] = [t EXCEPT !.age = 0]])
  /\ UNCHANGED <<next, cool, pruned>>

Take(id)        == Edit(id, tickets[id])
Assign(id)      == Edit(id, tickets[id])
Note(id)        == Edit(id, tickets[id])
Priority(id, p) == Edit(id, [tickets[id] EXCEPT !.priority = p])
Wait(id)        == Edit(id, [tickets[id] EXCEPT !.waiting = TRUE])

\* A plausible slip: the ticket goes back to its old place.
UnwaitInPlace(id) ==
  /\ Leave([Kept EXCEPT ![id].waiting = FALSE])
  /\ UNCHANGED <<next, cool, pruned>>

Unwait(id)      == Edit(id, [tickets[id] EXCEPT !.waiting = FALSE])

\* LIST, VIEW, NEXT, a rehash and all commands that find no ticket.
Look == Leave(Kept) /\ UNCHANGED <<next, cool, pruned>>

\* STATS is not counted: it schedules a save only if something expired.
Stats ==
  /\ tickets' = Kept
  /\ IF Kept = tickets THEN UNCHANGED <<pending, timer>> ELSE ScheduleDBSave
  /\ UNCHANGED <<up, readonly, display, next, cool, pruned, disk>>

\* HELP, SEARCH and NOTIFY
Count == Leave(tickets) /\ UNCHANGED <<next, cool, pruned>>

Command ==
  /\ up
  /\ \/ \E o \in Owners : HelpMe(display[o]) \/ Request(display[o]) \/ Cancel(display[o])
     \/ \E id \in Live : Close(id) \/ Take(id) \/ Assign(id) \/ Note(id) \/ Wait(id) \/ Unwait(id)
     \/ \E id \in Live, p \in 0..2 : Priority(id, p)
     \/ Look \/ Stats \/ Count

-----------------------------------------------------------------------------
(* Life of the module *)

\* Services are killed, or the module is unloaded.
Crash ==
  /\ up /\ up' = FALSE
  /\ tickets' = Empty /\ next' = 1 /\ cool' = Empty
  /\ pruned' = Never /\ pending' = FALSE /\ timer' = FALSE
  /\ UNCHANGED <<readonly, display, disk>>

\* The database is read and OnReload marks the state as changed.
Start ==
  /\ ~up /\ up' = TRUE
  /\ tickets' = disk.tickets /\ next' = disk.next /\ cool' = disk.cool
  /\ ScheduleDBSave
  /\ UNCHANGED <<readonly, display, pruned, disk>>

\* Anope's own save: its timer, a shutdown, OperServ UPDATE.
CoreSave ==
  /\ up /\ SaveDatabases
  /\ UNCHANGED <<up, readonly, display, memory, pruned, pending, timer>>

SetReadOnly ==
  /\ readonly' \in ReadOnlyModes
  /\ UNCHANGED <<up, display, memory, pruned, pending, timer, disk>>

\* NickServ SET DISPLAY
SetDisplay ==
  /\ \E o \in Owners, name \in Names :
       name \in NamesOf[o] /\ display' = [display EXCEPT ![o] = name]
  /\ UNCHANGED <<up, readonly, memory, pruned, pending, timer, disk>>

Older(t, limit) == IF t < limit THEN t + 1 ELSE t

TicketAge == IF TicketExpire > 0 THEN TicketExpire + 1 ELSE MaxAge

CooldownAge ==
  CHOOSE m \in {PruneTTL + 1, HelpMeCooldown, RequestCooldown} :
    m >= PruneTTL + 1 /\ m >= HelpMeCooldown /\ m >= RequestCooldown

OlderTickets(ts) == [id \in DOMAIN ts |-> [ts[id] EXCEPT !.age = Older(@, TicketAge)]]
OlderCooldowns(c) == [k \in DOMAIN c |-> Older(c[k], CooldownAge)]

\* The clock.
Tick ==
  /\ TicketExpire = 0 => \A id \in DOMAIN tickets : tickets[id].age < MaxAge
  /\ tickets' = OlderTickets(tickets) /\ cool' = OlderCooldowns(cool)
  /\ disk' = [disk EXCEPT !.tickets = OlderTickets(@), !.cool = OlderCooldowns(@)]
  /\ pruned' = IF pruned = Never THEN Never ELSE Older(pruned, PruneInterval)
  /\ UNCHANGED <<up, readonly, display, next, pending, timer>>

Environment == Crash \/ Start \/ CoreSave \/ SetReadOnly \/ SetDisplay \/ Tick

-----------------------------------------------------------------------------

Init ==
  /\ up = TRUE /\ readonly \in ReadOnlyModes
  /\ display \in [Owners -> Names] /\ \A o \in Owners : display[o] \in NamesOf[o]
  /\ tickets = Empty /\ next = 1 /\ cool = Empty /\ pruned = Never
  /\ pending = ~readonly /\ timer = ~readonly
  /\ disk = [tickets |-> Empty, next |-> 1, cool |-> Empty]

Next == Command \/ SaveTimer \/ Environment

Spec == Init /\ [][Next]_vars

\* The five second timer keeps firing; nothing else is owed.
FairSpec == Spec /\ WF_vars(SaveTimer)

-----------------------------------------------------------------------------
(* Properties *)

Keys == {"helpme", "request"} \X Names

TicketsOK(ts) ==
  /\ DOMAIN ts \subseteq Nat \ {0}
  /\ \A id \in DOMAIN ts :
       /\ ts[id] = [account |-> ts[id].account, priority |-> ts[id].priority,
                    waiting |-> ts[id].waiting, age |-> ts[id].age]
       /\ ts[id].account \in Names
       /\ ts[id].priority \in 0..2 /\ ts[id].waiting \in BOOLEAN /\ ts[id].age \in Nat

CooldownsOK(c) ==
  /\ DOMAIN c \subseteq Keys
  /\ c = [k \in DOMAIN c |-> c[k]] /\ \A k \in DOMAIN c : c[k] \in Nat

TypeOK ==
  /\ up \in BOOLEAN /\ readonly \in BOOLEAN /\ pending \in BOOLEAN /\ timer \in BOOLEAN
  /\ display \in [Owners -> Names]
  /\ TicketsOK(tickets) /\ TicketsOK(disk.tickets)
  /\ next \in Nat \ {0} /\ disk.next \in Nat \ {0}
  /\ CooldownsOK(cool) /\ CooldownsOK(disk.cool)
  /\ disk = [tickets |-> disk.tickets, next |-> disk.next, cool |-> disk.cool]
  /\ pruned \in {Never} \union Nat

OnePerAccount(ts) ==
  \A x, y \in DOMAIN ts : ts[x].account = ts[y].account => x = y

\* An account name has at most one ticket, waiting or open, also after a restart
\* (FindOpenTicketByAccountKey, CommandHelpServRequest).
OneTicketPerAccount == OnePerAccount(tickets) /\ OnePerAccount(disk.tickets)

\* The next id is larger than that of any ticket, in memory and on disk, so that a new
\* ticket never takes the place of another (HelpServTicket, next_ticket_id).
IdsAreFresh ==
  /\ \A id \in DOMAIN tickets : id < next
  /\ \A id \in DOMAIN disk.tickets : id < disk.next

\* A ticket that has been left alone for a second is not passed by another one of its
\* state and priority, be it new, updated, or moved into its class (GetSortedTickets
\* and the updates of every command).
NoOvertaking ==
  [][\A x \in DOMAIN tickets \intersect DOMAIN tickets' :
       tickets'[x] = tickets[x] /\ tickets[x].age > 0 /\ ~Expired(tickets[x]) =>
         \A y \in DOMAIN tickets' \ {x} :
           /\ tickets'[y].waiting = tickets[x].waiting
           /\ tickets'[y].priority = tickets[x].priority
           /\ y \in DOMAIN tickets => Before(tickets, x, y)
           => Before(tickets', x, y)]_vars

\* An expired ticket is dropped before any command gets to see it: nothing refreshes or
\* changes it, however long it stays in memory (PruneExpiredTickets).
ExpiredStaysExpired ==
  [][\A id \in DOMAIN tickets : Expired(tickets[id]) =>
       id \notin DOMAIN tickets' \/ tickets'[id] = tickets[id]]_vars

\* A running cooldown ends by the clock or a crash only: it is neither pruned nor
\* restarted, as long as the TTL of the pruning covers it (PruneCooldownMaps).
CooldownsHold ==
  [][\A k \in DOMAIN cool :
       cool[k] < CooldownOf(k[1]) /\ CooldownOf(k[1]) <= PruneTTL + 1 /\ up' =>
         k \in DOMAIN cool' /\ cool'[k] >= cool[k]]_vars

\* Outside of read-only mode whatever changes tickets or cooldowns leaves a save pending
\* and a timer to do it (MarkStateChanged, MarkTicketChanged, ScheduleDBSave).
ChangesAreScheduled ==
  [][Stored' # Stored /\ ~readonly /\ up' /\ ~Tick => pending' /\ timer']_vars

\* Without read-only mode what is in memory gets to disk again and again, also after the
\* first save (HelpServDeferredSaveTimer).
SavedInTheEnd == []~readonly => []<>(up => disk = Stored)

\* While the module is not loaded nothing is left in memory.
NothingLeft == ~up => tickets = Empty /\ cool = Empty

\* The inductive invariant.
IInv == TypeOK /\ OneTicketPerAccount /\ IdsAreFresh /\ NothingLeft

=============================================================================
