------------------------------- MODULE SignIn -------------------------------
(***************************************************************************)
(* Signing in to one OAuth provider, renewing what came of it, and what    *)
(* else may change the credentials meanwhile: be/src/oauth.ts, the part of *)
(* be/src/credentials-file.ts it writes through, the routes of             *)
(* be/src/server.ts, and the panel on Config -> Connection                 *)
(* (fe/src/components/oauth.rs).  No state is shared between providers.    *)
(*                                                                         *)
(* What awaits the provider is a task; everything between two awaits is    *)
(* one step, as is a request of the panel's that awaits nothing.  Requests *)
(* to the provider are numbered, and what one brings has its number.       *)
(***************************************************************************)
EXTENDS Naturals, FiniteSets, Functions

CONSTANTS
    Tabs,           \* the tabs of the browser that show the panel
    MAX_PENDING,
    MaxAsked,       \* bound: requests to the provider
    MaxStarted,     \* bound: sign-ins started
    MaxHands        \* bound: changes by hand, expiries and crashes

VARIABLES
    env, credentials,   \* the token and the refresh token: process.env and the file
    connection,     \* oauth.json
    client,         \* the client id and secret are set
    pendingFlows,   \* pending: state -> whether it is too old; states are minted in order
    tasks,          \* what awaits the provider
    requests, started, \* the last request, and the last state
    tab,
    spent,          \* history: what need not be presented again
    hands

keys == <<env, credentials>>
counters == <<requests, started>>
signInVars == <<keys, connection, client, pendingFlows, tasks, counters, tab, spent, hands>>

Nobody == "nobody"
NotSet == 0         \* a credential that is not set
Hand == MaxAsked + 1    \* one that was pasted
NoConnection == "none"
NoFlows == [s \in {} |-> FALSE]
AtPage == [at |-> "page", loaded |-> FALSE, ready |-> FALSE, connected |-> FALSE, busy |-> FALSE, state |-> 0]

SignInTypeOK ==
    /\ env \in [token : 0..Hand, refresh : 0..Hand] /\ credentials \in [token : 0..Hand, refresh : 0..Hand]
    /\ connection \in {NoConnection, "live", "soon", "never"} /\ client \in BOOLEAN
    /\ \E states \in SUBSET (1..MaxStarted) : pendingFlows \in [states -> BOOLEAN]
    /\ Cardinality(DOMAIN pendingFlows) <= MAX_PENDING
    /\ \A k \in tasks : k.kind \in {"exchange", "identify", "refresh", "revoke"} /\ k.tab \in Tabs \cup {Nobody}
    /\ \A t \in Tabs : tab[t].at \in {"page", "provider", "callback", "text"} /\ tab[t].state \in 0..MaxStarted
    /\ hands \in 0..MaxHands

SignInInit ==
    /\ env = [token |-> NotSet, refresh |-> NotSet] /\ credentials = env
    /\ connection = NoConnection /\ client = TRUE
    /\ pendingFlows = NoFlows /\ tasks = {} /\ requests = 0 /\ started = 0
    /\ tab = [t \in Tabs |-> AtPage] /\ spent = {} /\ hands = 0

OneHand == hands < MaxHands /\ hands' = hands + 1
Ask(k) == requests < MaxAsked /\ requests' = requests + 1 /\ tasks' = tasks \cup {[k EXCEPT !.n = requests + 1]}
Task(kind, t, what) == [n |-> 0, kind |-> kind, tab |-> t, what |-> what, renewable |-> FALSE]
Done(k) == tasks' = tasks \ {k} /\ UNCHANGED requests

-----------------------------------------------------------------------------
(* The panel. *)

Fresh(flows) == Restrict(flows, {s \in DOMAIN flows : ~flows[s]})     \* prune
Oldest(flows) == CHOOSE s \in DOMAIN flows : \A other \in DOMAIN flows : s <= other

\* GET /api/oauth.
describeAll(t) ==
    /\ tab[t].at = "page" /\ ~tab[t].loaded
    /\ pendingFlows' = Fresh(pendingFlows)
    /\ tab' = [tab EXCEPT ![t].loaded = TRUE, ![t].ready = client, ![t].connected = env.token # NotSet]
    /\ UNCHANGED <<keys, connection, client, tasks, counters, spent, hands>>

Clickable(t) == tab[t].at = "page" /\ tab[t].loaded /\ ~tab[t].busy
Disconnectable(t) == Clickable(t) /\ tab[t].connected

\* "Sign in": a state is minted, the oldest that is pending makes room for it,
\* and the tab goes to the provider's page.
start(t) ==
    /\ Clickable(t) /\ tab[t].ready /\ client /\ started < MaxStarted
    /\ started' = started + 1
    /\ LET kept == Fresh(pendingFlows)
           room == IF Cardinality(DOMAIN kept) < MAX_PENDING THEN kept
                   ELSE Restrict(kept, DOMAIN kept \ {Oldest(kept)})
       IN  pendingFlows' = [s \in DOMAIN room \cup {started'} |-> s \in DOMAIN room /\ room[s]]
    /\ tab' = [tab EXCEPT ![t] = [AtPage EXCEPT !.at = "provider", !.state = started']]
    /\ UNCHANGED <<keys, connection, client, tasks, requests, spent, hands>>

\* The panel is read again when the user comes back to it, or asks for it.
Visit(t) ==
    /\ tab[t].at \in {"provider", "text"} \/ (tab[t].at = "page" /\ tab[t].loaded /\ ~tab[t].busy)
    /\ OneHand /\ tab' = [tab EXCEPT ![t] = AtPage]
    /\ UNCHANGED <<keys, connection, client, pendingFlows, tasks, counters, spent>>

\* "Disconnect": the provider is told first, if there is something to tell it.
disconnect(t) ==
    /\ Disconnectable(t) /\ env.token # NotSet /\ client
    /\ tab' = [tab EXCEPT ![t].busy = TRUE]
    /\ Ask(Task("revoke", t, <<"token", env.token>>))
    /\ UNCHANGED <<keys, connection, client, pendingFlows, started, spent, hands>>

\* A file that cannot be written is as it was.
Clear(names) ==
    /\ env' = [n \in DOMAIN env |-> IF n \in names THEN NotSet ELSE env[n]]
    /\ \E written \in SUBSET names :
        credentials' = [n \in DOMAIN credentials |-> IF n \in written THEN NotSet ELSE credentials[n]]

\* Whatever the provider said.
Forget(t) ==
    /\ Clear({"token", "refresh"}) /\ connection' = NoConnection
    /\ tab' = IF t # Nobody /\ tab[t].at = "page"
              THEN [tab EXCEPT ![t].busy = FALSE, ![t].loaded = FALSE] ELSE tab
    /\ UNCHANGED <<client, pendingFlows, started, spent, hands>>

Revoked(k) == k.kind = "revoke" /\ Done(k) /\ Forget(k.tab)

\* There is nothing to tell it, or no way to.
DisconnectAtOnce(t) ==
    /\ Disconnectable(t) /\ (env.token = NotSet \/ ~client)
    /\ Forget(t) /\ UNCHANGED <<tasks, requests>>

-----------------------------------------------------------------------------
(* The way back. *)

Pending(t) == tab[t].state \in DOMAIN pendingFlows
Without(s) == Restrict(pendingFlows, DOMAIN pendingFlows \ {s})
Back(t, at) == tab' = [tab EXCEPT ![t] = [AtPage EXCEPT !.at = at, !.state = tab[t].state]]
Arriving(t) == tab[t].at \in {"provider", "callback"}

\* Not a sign-in of this process, or one whose state is spent.
StateUnknown(t) ==
    /\ Arriving(t) /\ ~Pending(t)
    /\ Back(t, "text")
    /\ UNCHANGED <<keys, connection, client, pendingFlows, tasks, counters, spent, hands>>

\* Too late, declined by the user, or the client was taken away.
callbackRefused(t) ==
    /\ Arriving(t) /\ Pending(t)
    /\ pendingFlows' = Without(tab[t].state)
    /\ tab' = [tab EXCEPT ![t] = AtPage]
    /\ UNCHANGED <<keys, connection, client, tasks, counters, spent, hands>>

\* The state is spent "before anything else happens, whatever happens next".
callback(t) ==
    /\ Arriving(t) /\ Pending(t) /\ ~pendingFlows[tab[t].state] /\ client
    /\ pendingFlows' = Without(tab[t].state)
    /\ Ask(Task("exchange", t, <<"state", tab[t].state>>))
    /\ Back(t, "callback") /\ spent' = spent \cup {<<"state", tab[t].state>>}
    /\ UNCHANGED <<keys, connection, client, started, hands>>

\* The 303, to the tab that waits for it.
Answer303(k) == tab' = IF tab[k.tab].at = "callback" /\ <<"state", tab[k.tab].state>> = k.what
                       THEN [tab EXCEPT ![k.tab] = AtPage] ELSE tab

\* The token and then the refresh token, through the file's writer: each is in
\* force before it is written, and the first that cannot be written is the last.
storeGrant(k, given, keep, written) ==
    /\ env' = [token |-> k.n,
               refresh |-> IF written = 0 THEN env.refresh
                           ELSE IF given THEN k.n ELSE IF keep THEN env.refresh ELSE NotSet]
    /\ credentials' = [token |-> IF written = 0 THEN credentials.token ELSE k.n,
                       refresh |-> IF written < 2 THEN credentials.refresh
                                   ELSE IF given THEN k.n ELSE IF keep THEN credentials.refresh ELSE NotSet]

Stored(given, written) == written = 2 \/ (written = 1 /\ ~given)

\* An exchange that is answered: next, whose token is it?
Exchanged(k) == \E given \in BOOLEAN, written \in 0..2 :
    /\ k.kind = "exchange" /\ storeGrant(k, given, FALSE, written)
    /\ UNCHANGED requests
    /\ IF Stored(given, written)
       THEN tasks' = (tasks \ {k}) \cup {[k EXCEPT !.kind = "identify", !.renewable = given]} /\ UNCHANGED tab
       ELSE tasks' = tasks \ {k} /\ Answer303(k)
    /\ UNCHANGED <<connection, client, pendingFlows, started, spent, hands>>

ExchangeFails(k) ==
    /\ k.kind = "exchange" /\ Done(k) /\ Answer303(k)
    /\ UNCHANGED <<keys, connection, client, pendingFlows, started, spent, hands>>

\* Answered or not.  A grant without an expiry is one that is never renewed.
Identified(k) ==
    /\ k.kind = "identify" /\ Done(k) /\ Answer303(k)
    /\ connection' \in {"never", "live"}
    /\ UNCHANGED <<keys, client, pendingFlows, started, spent, hands>>

-----------------------------------------------------------------------------
(* Renewal. *)

Refreshing == \E k \in tasks : k.kind = "refresh"

\* Mutant: every run that finds the token about to die has it renewed.
refresh_each == env.refresh # NotSet
\* One refresh at a time; a run that comes while it is under way shares it.
refresh == ~Refreshing /\ env.refresh # NotSet

\* Before a run of a job that reads the token.
ensureFresh ==
    /\ connection = "soon" /\ client /\ refresh
    /\ Ask(Task("refresh", Nobody, <<"refresh", env.refresh>>))
    /\ UNCHANGED <<keys, connection, client, pendingFlows, started, tab, spent, hands>>

\* The record goes on from the one there is by now, and begins anew if it is gone.
refreshOnce(k) == \E rotated \in BOOLEAN, written \in 0..2 :
    /\ k.kind = "refresh" /\ Done(k)
    /\ storeGrant(k, rotated, TRUE, written)
    /\ IF Stored(rotated, written)
       THEN /\ connection' \in {"never", "live"}
            /\ spent' = IF rotated THEN spent \cup {k.what} ELSE spent
       ELSE UNCHANGED <<connection, spent>>
    /\ UNCHANGED <<client, pendingFlows, started, tab, hands>>

\* Refused, or the answer is lost.
RefreshFails(k) ==
    /\ k.kind = "refresh" /\ Done(k)
    /\ UNCHANGED <<keys, connection, client, pendingFlows, started, tab, spent, hands>>

-----------------------------------------------------------------------------
(* Everything else. *)

\* No sign-in describes a token that was changed by hand: its record goes, and
\* its refresh token.
credentialChangedByHand ==
    IF connection # NoConnection /\ env.refresh # NotSet THEN {"refresh"} ELSE {}

\* PUT /api/credentials/:name: in force at once, and changed by hand if it is
\* written.
PutCredential(written) ==
    LET gone == IF written THEN credentialChangedByHand ELSE {} IN
    /\ env' = [token |-> Hand, refresh |-> IF gone = {} THEN env.refresh ELSE NotSet]
    /\ \E cleared \in SUBSET gone :
        credentials' = [token |-> IF written THEN Hand ELSE credentials.token,
                        refresh |-> IF cleared = {} THEN credentials.refresh ELSE NotSet]
    /\ connection' = IF written THEN NoConnection ELSE connection

\* DELETE /api/credentials/:name: of what this process has, or the file.
DeleteCredential ==
    /\ env.token # NotSet \/ credentials.token # NotSet
    /\ Clear({"token"} \cup credentialChangedByHand) /\ connection' = NoConnection

\* The token is pasted on the credentials board.
CredentialsBoard ==
    /\ OneHand /\ \E written \in BOOLEAN : PutCredential(written)
    /\ UNCHANGED <<client, pendingFlows, tasks, counters, tab, spent>>

\* "Remove".
CredentialRow ==
    /\ OneHand /\ DeleteCredential
    /\ UNCHANGED <<client, pendingFlows, tasks, counters, tab, spent>>

\* The client id or the secret is set, or taken away.
ClientCredentialRow ==
    /\ OneHand /\ client' = ~client
    /\ UNCHANGED <<keys, connection, pendingFlows, tasks, counters, tab, spent>>

TimePassesBy ==
    /\ OneHand
    /\ \/ connection = "live" /\ connection' = "soon" /\ UNCHANGED pendingFlows
       \/ /\ pendingFlows # NoFlows /\ UNCHANGED connection
          /\ pendingFlows' = [s \in DOMAIN pendingFlows |-> TRUE]
    /\ UNCHANGED <<keys, client, tasks, counters, tab, spent>>

\* A new process has the credentials of the file; the flows and the tasks go.
NewProcess ==
    /\ OneHand /\ env' = credentials
    /\ tasks' = {} /\ pendingFlows' = NoFlows
    /\ tab' = [t \in Tabs |-> IF tab[t].at = "callback" THEN [AtPage EXCEPT !.at = "text"]
                              ELSE IF tab[t].at = "page" THEN AtPage ELSE tab[t]]
    /\ UNCHANGED <<credentials, connection, client, counters, spent>>

SignInNext ==
    \/ \E t \in Tabs : describeAll(t) \/ start(t) \/ Visit(t) \/ disconnect(t) \/ DisconnectAtOnce(t)
                           \/ StateUnknown(t) \/ callbackRefused(t) \/ callback(t)
    \/ \E k \in tasks : Exchanged(k) \/ ExchangeFails(k) \/ Identified(k) \/ Revoked(k)
                           \/ refreshOnce(k) \/ RefreshFails(k)
    \/ ensureFresh \/ CredentialsBoard \/ CredentialRow \/ ClientCredentialRow
    \/ TimePassesBy \/ NewProcess

-----------------------------------------------------------------------------
(* Properties. *)

\* The provider is never given twice what it takes once: a state, or a refresh
\* token for which it gave another that was stored (one that was lost, to the
\* network or a file that could not be written, is asked for again).  So no
\* sign-in is replayed, and no renewal is taken for a theft by a provider that
\* rotates.
PresentsEachOnce == [][\A k \in tasks' : k.n > requests /\ k.kind \in {"exchange", "refresh"} =>
    k.what \notin spent /\ \A other \in tasks : other.what # k.what]_signInVars
==============================================================================
