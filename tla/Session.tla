------------------------------- MODULE Session -------------------------------
(***************************************************************************)
(* Who the program acts for.  The wallet shows an account; the facade      *)
(* (packages/facade), the client (packages/client), the shared context,    *)
(* the storage prefix and the loop of OutputSendingDomain (packages/chat)  *)
(* each hold a part of what follows from it: its request adapter, its      *)
(* proxy address, its key (pairX), its profile.                            *)
(*                                                                         *)
(* In shimmer mode the account is its own proxy.  In the two proxy modes,  *)
(* delegation (MetaMask) and impersonation (TanglePay), messages are       *)
(* signed with a key that the user registers with a service for the        *)
(* address; the service holds it encrypted by a password.  The loop finds  *)
(* the key in local storage or asks the service for it.                    *)
(*                                                                         *)
(* The wallet, the service, the user and the application (external) are    *)
(* modelled from how the code uses them: when the account changes the      *)
(* application tells the facade, stops the loops, sets the prefix and the  *)
(* address of the context and starts the loops, the first two in either    *)
(* order.                                                                  *)
(***************************************************************************)
EXTENDS Naturals, Sequences, FiniteSets

CONSTANTS
    Account,  \* records [of: address, mode]: an address in a mode
    Bounds    \* the bounds: records [accounts, registered, published, named, funded: what there is at
              \* first, changes: of the wallet, calls: of the user, foreigns: what is done elsewhere,
              \* works: steps spent on hints or clean-up, fails]

VARIABLES
    wallet,     \* the account the wallet shows
    connecting, \* changes that wait for the wallet to answer iota_connect
    asking,     \* changes that wait for the wallet to say the proxy account
    facade,     \* [account, proxy, key]: _address with _mode, _proxyAddress, _pairX
    client,     \* [adapter, proxy, key, inited] of the client; inited: _isCashDataInited
    app,        \* "running", "stopping" (it drains), "stopped": the loops
    told,       \* the account the application was told of last and has not started: {} or {account}
    ctx,        \* [account, proxy, key, enc, profile] of SharedContext, each {} or {value}
    os,         \* OutputSendingDomain: [mode, due, need, info, set, public, cash, fetched, busy, ready]
    step,       \* where the loop waits: {} or {[at, of, mode, key, proxy]}
    channel,    \* its commands: "login", "register", "acquire"
    requests,   \* of whom the profiles are asked for, by the session that asks
    session,    \* the number of the session
    storage,    \* of each address: what is kept under its prefix, [reg, profile]
    service,    \* of each address: what is registered, [key, mm, tp] in a set
    keys,       \* keys made so far
    published,  \* addresses whose public key is on the ledger
    named,      \* addresses with a profile
    funded,     \* addresses whose proxy holds the 10 SMR it takes to chat
    moved,      \* history: the facade was moved since the session began, or began elsewhere
    crossed,    \* history: a loop told the facade or the client its proxy after they were moved
    swapped,    \* history: the proxy of an impersonation was taken from the service
    late,       \* history: profiles came that another session had asked for
    tainted,    \* history: addresses for which a loop of a moved facade stored or registered something
    left        \* what is left of the bounds

walletVars  == <<wallet, connecting, asking>>
appVars     == <<app, told, session>>
outerVars   == <<service, keys, published, named, funded>>
historyVars == <<moved, crossed, swapped, late, tainted>>
vars == <<wallet, connecting, asking, facade, client, app, told, ctx, os, step, channel, requests,
          session, storage, service, keys, published, named, funded, moved, crossed, swapped, late, tainted,
          left>>

Address == {a.of : a \in Account}
Proxy(of, mode) == [of |-> of, mode |-> mode]
Mode == facade.account.mode
NothingStored == [reg |-> {}, profile |-> {}]

\* The profile list is read from storage when the loop starts.
Context(a, stored) == [account |-> a, proxy |-> {}, key |-> {}, enc |-> {}, profile |-> stored.profile]
Loop(mode, stored) ==
    [mode |-> mode, due |-> TRUE, need |-> FALSE, info |-> {}, set |-> FALSE, public |-> FALSE,
     cash |-> FALSE, fetched |-> stored.profile # {}, busy |-> FALSE, ready |-> FALSE]

Modes == {"shimmer", "delegation", "impersonation"}
ASSUME AccountAssumption == \A a \in Account : a = [of |-> a.of, mode |-> a.mode] /\ a.mode \in Modes

\* What is registered at first is a key of the address.
Registration(a) == [key : {[of |-> a, n |-> 0]}, mm : BOOLEAN, tp : BOOLEAN]
BoundType ==
    [accounts : SUBSET Account, registered : [Address -> SUBSET UNION {Registration(a) : a \in Address}],
     published : SUBSET Address, named : SUBSET Address, funded : SUBSET Address,
     changes : Nat, calls : Nat, foreigns : Nat, works : Nat, fails : Nat]
ASSUME BoundsAssumption ==
    /\ Bounds \subseteq BoundType
    /\ \A b \in Bounds, a \in Address :
           b.registered[a] \subseteq Registration(a) /\ \A x, y \in b.registered[a] : x = y

\* The first account is connected and the application has not started.
Init ==
    /\ left \in Bounds
    /\ wallet \in left.accounts
    /\ connecting = {} /\ asking = {}
    /\ facade = [account |-> wallet, key |-> {},
                 proxy |-> IF wallet.mode = "delegation" THEN {} ELSE {Proxy(wallet.of, wallet.mode)}]
    /\ client = [adapter |-> wallet, key |-> {}, inited |-> FALSE,
                 proxy |-> IF wallet.mode = "shimmer" THEN {Proxy(wallet.of, "shimmer")} ELSE {}]
    /\ app = "stopped" /\ told = {wallet} /\ session = 0
    /\ ctx = Context({}, NothingStored) /\ os = Loop(wallet.mode, NothingStored)
    /\ step = {} /\ channel = <<>> /\ requests = {}
    /\ service = left.registered /\ keys = 0
    /\ \E known \in SUBSET {a \in Address : \E r \in service[a] : r.mm} :
           storage = [a \in Address |->
               IF a \in known
               THEN [reg |-> {[key |-> r.key, account |-> {Proxy(a, "delegation")}] : r \in service[a]},
                     profile |-> {a} \intersect left.named]
               ELSE NothingStored]
    /\ published = left.published /\ named = left.named /\ funded = left.funded
    /\ moved = FALSE /\ crossed = FALSE /\ swapped = FALSE /\ late = FALSE /\ tainted = {}

Uses(c) == left[c] > 0 /\ left' = [left EXCEPT ![c] = @ - 1]

-----------------------------------------------------------------------------
(* The wallet and the facade.                                              *)

SwitchAddress(proxy, key, adapter) ==
    client' = [adapter |-> adapter, proxy |-> proxy, key |-> key, inited |-> FALSE]

ClearAddress(a, proxy) == facade' = [account |-> a, proxy |-> proxy, key |-> {}]

\* switchClientAdapter, then initialAddress, which in impersonation mode
\* asks the wallet for the proxy account.
Switch(a) ==
    /\ CASE a.mode = "shimmer" ->
               LET own == {Proxy(a.of, "shimmer")}
               IN  ClearAddress(a, own) /\ SwitchAddress(own, {}, a)
         [] OTHER -> ClearAddress(a, {}) /\ client' = [client EXCEPT !.adapter = a]
    /\ IF a.mode = "impersonation" THEN asking' = asking \union {a} /\ UNCHANGED told
       ELSE told' = {a} /\ UNCHANGED asking
    /\ moved' = TRUE /\ crossed' = FALSE

\* MetaMask: the application sees the change and tells the facade.
MetaMaskAccountChanged(a) ==
    /\ a \in connecting /\ a.mode = "delegation"
    /\ connecting' = connecting \ {a}
    /\ Switch(a)
    /\ UNCHANGED <<wallet, app, session, ctx, os, step, channel, requests, storage, outerVars, swapped, late,
                   tainted, left>>

\* TanglePay: the listener of the facade ignores a change to what it has,
\* asks the wallet to connect and then switches.
WalletChanges(a) ==
    /\ a \in left.accounts \ {wallet} /\ Uses("changes")
    /\ wallet' = a
    /\ connecting' = IF a.mode # "delegation" /\ facade.account = a THEN connecting ELSE connecting \union {a}
    /\ UNCHANGED <<asking, facade, client, appVars, ctx, os, step, channel, requests, storage, outerVars,
                   historyVars>>

AccountsChanged(a) ==
    /\ a \in connecting /\ a.mode # "delegation"
    /\ connecting' = connecting \ {a}
    /\ Switch(a)
    /\ UNCHANGED <<wallet, app, session, ctx, os, step, channel, requests, storage, outerVars, swapped, late,
                   tainted, left>>

\* The answer is taken whatever the account is by then; the application
\* hears of the change when it is.
ProxyAnswered(a) ==
    /\ a \in asking
    /\ asking' = asking \ {a}
    /\ facade' = [facade EXCEPT !.proxy = {Proxy(a.of, "impersonation")}]
    /\ told' = {a}
    /\ UNCHANGED <<wallet, connecting, client, app, session, ctx, os, step, channel, requests, storage,
                   outerVars, historyVars, left>>

\* It does not hear of a change whose connection or answer fails.
ChangeFails(a) ==
    /\ a \in connecting \union asking /\ a.mode # "delegation" /\ Uses("fails")
    /\ connecting' = connecting \ {a} /\ asking' = asking \ {a}
    /\ UNCHANGED <<wallet, facade, client, appVars, ctx, os, step, channel, requests, storage, outerVars,
                   historyVars>>

-----------------------------------------------------------------------------
(* The application.                                                        *)

\* It stops the loops: a loop drains, that is it polls until a step finds
\* nothing to do.
Stop ==
    /\ app = "running" /\ (told # {} \/ ctx.account # {wallet})
    /\ app' = "stopping"
    /\ UNCHANGED <<walletVars, facade, client, told, session, ctx, os, step, channel, requests, storage,
                   outerVars, historyVars, left>>

\* Mutant: the key of the context is kept.
MutStart(a) ==
    /\ app = "stopped" /\ told = {a}
    /\ app' = "running" /\ told' = {} /\ session' = session + 1
    /\ ctx' = [Context({a}, storage[a.of]) EXCEPT !.key = ctx.key]
    /\ os' = Loop(Mode, storage[a.of])
    /\ moved' = (facade.account # a \/ asking # {}) /\ swapped' = FALSE /\ late' = FALSE
    /\ UNCHANGED <<walletVars, facade, client, step, channel, requests, storage, outerVars, crossed, tainted,
                   left>>

\* setStorageKeyPrefix, setWalletAddress and the start of the loop, which
\* clears the context and asks the facade for the mode.  Commands that wait
\* stay on the channel.
Start(a) ==
    /\ app = "stopped" /\ told = {a}
    /\ app' = "running" /\ told' = {} /\ session' = session + 1
    /\ ctx' = Context({a}, storage[a.of])
    /\ os' = Loop(Mode, storage[a.of])
    /\ moved' = (facade.account # a \/ asking # {}) /\ swapped' = FALSE /\ late' = FALSE
    /\ UNCHANGED <<walletVars, facade, client, step, channel, requests, storage, outerVars, crossed, tainted,
                   left>>

\* The user is asked to log in when there is a key to decrypt, and to
\* register when there is none.
CallLogin ==
    /\ app = "running" /\ ctx.key = {} /\ ctx.enc # {} /\ Uses("calls")
    /\ channel' = Append(channel, "login")
    /\ UNCHANGED <<walletVars, facade, client, appVars, ctx, os, step, requests, storage, outerVars,
                   historyVars>>

CallRegister ==
    /\ app = "running" /\ ctx.key = {} /\ ctx.enc = {} /\ os.mode # "shimmer" /\ ~os.due /\ Uses("calls")
    /\ channel' = Append(channel, "register")
    /\ UNCHANGED <<walletVars, facade, client, appVars, ctx, os, step, requests, storage, outerVars,
                   historyVars>>

-----------------------------------------------------------------------------
(* The loop.  Between two awaits it is one step.                           *)

Prefix == (CHOOSE a \in ctx.account : TRUE).of
At(where) == {d \in step : d.at = where}
Await(where) == step' = {[at |-> where, of |-> facade.account.of, mode |-> Mode, key |-> {}, proxy |-> {}]}
Goes(d, where) == step' = {[d EXCEPT !.at = where]}

\* A step that found nothing to do ends a loop that drains; a loop whose
\* step did something polls again.
Rests ==
    /\ step' = {}
    /\ app' = IF app = "stopping" THEN "stopped" ELSE app
Ends == step' = {} /\ UNCHANGED app
Store(a, value) ==
    /\ storage' = [storage EXCEPT ![a] = value]
    /\ tainted' = IF moved THEN tainted \union {a} ELSE tainted

IsLoggedIn == ctx.proxy # {} /\ ctx.key # {}
IsCanLoad == os.mode # "shimmer" /\ ~IsLoggedIn

\* A registration in storage is used if it has an account for the mode.
Stored == {r \in storage[Prefix].reg : \E p \in r.account : p.mode = Mode}

\* A request for the profiles is not awaited.
TryRefreshProfileList ==
    IF os.busy \/ os.fetched THEN UNCHANGED requests
    ELSE requests' = requests \union {[of |-> facade.account.of, by |-> session]}

\* Without a command the loop looks for the key, in storage first.
Poll ==
    /\ app # "stopped" /\ step = {} /\ channel = <<>>
    /\ TryRefreshProfileList
    /\ LET asks == [os EXCEPT !.busy = @ \/ ~os.fetched]
       IN  CASE ~(IsCanLoad /\ os.due) ->
                   os' = asks /\ Await("check")
             [] IsCanLoad /\ os.due /\ Stored # {} ->
                   /\ os' = asks
                   /\ \E r \in Stored : \E p \in {q \in r.account : q.mode = Mode} :
                         step' = {[at |-> "stored", of |-> facade.account.of, mode |-> Mode,
                                   key |-> {r.key}, proxy |-> {p}]}
             [] OTHER -> os' = [asks EXCEPT !.need = TRUE] /\ Await("service")
    /\ UNCHANGED <<walletVars, facade, client, appVars, ctx, channel, storage, outerVars, historyVars, left>>

\* Is the key the one that is registered?  Only delegation mode asks.
Valid(key, proxy) ==
    \/ os.mode # "delegation" \/ Mode # "delegation"
    \/ \E a \in Address : \E r \in service[a] :
           r.mm /\ {r.key} = key /\ proxy = {Proxy(a, "delegation")}

\* A key that is not is removed, and the service asked.
CheckStored(d) ==
    /\ d \in At("stored")
    /\ IF Valid(d.key, d.proxy)
       THEN /\ ctx' = [ctx EXCEPT !.key = d.key, !.proxy = d.proxy]
            /\ os' = [os EXCEPT !.due = FALSE]
            /\ Goes(d, "check")
            /\ UNCHANGED <<storage, tainted>>
       ELSE /\ Store(Prefix, [storage[Prefix] EXCEPT !.reg = {}])
            /\ os' = [os EXCEPT !.need = TRUE]
            /\ Await("service")
            /\ UNCHANGED ctx
    /\ UNCHANGED <<walletVars, facade, client, appVars, channel, requests, outerVars, moved, crossed,
                   swapped, late, left>>

\* The service answers for the address it was asked about.  In impersonation
\* mode the code takes the address of the other proxy.
ServiceAnswers(d) ==
    LET known == {r \in service[d.of] : Valid({r.key}, IF r.mm THEN {Proxy(d.of, "delegation")} ELSE {})}
        mm == IF \E r \in known : r.mm THEN {Proxy(d.of, "delegation")} ELSE {}
        tp == IF \E r \in known : r.tp THEN {Proxy(d.of, "impersonation")} ELSE {}
        mine == (os.mode = "delegation" /\ mm # {}) \/ (os.mode = "impersonation" /\ tp # {})
    IN  /\ d \in At("service")
        /\ ctx' = IF known = {} THEN ctx
                  ELSE [ctx EXCEPT !.enc = {r.key : r \in known}, !.proxy = IF mine THEN mm ELSE @]
        /\ os' = [os EXCEPT !.due = FALSE,
                            !.info = mm \union tp \union {p \in @ : p.mode \notin {q.mode : q \in mm \union tp}}]
        /\ swapped' = (swapped \/ (os.mode = "impersonation" /\ mine))
        /\ Goes(d, "check")
        /\ UNCHANGED <<walletVars, facade, client, appVars, channel, requests, storage, outerVars, moved,
                       crossed, late, tainted, left>>

Tells == crossed' = (crossed \/ moved)

\* Mutant: the client is not told.
MutSetProxyModeInfo ==
    /\ facade' = [facade EXCEPT !.proxy = ctx.proxy, !.key = ctx.key]
    /\ Tells
    /\ UNCHANGED client

SetProxyModeInfo ==
    /\ facade' = [facade EXCEPT !.proxy = ctx.proxy, !.key = ctx.key]
    /\ SwitchAddress(ctx.proxy, ctx.key, client.adapter)
    /\ Tells

\* Mutant: it is not remembered that they have been told.
MutCheckDelegationMode(d) ==
    LET ok == IsLoggedIn
    IN  /\ d \in At("check")
        /\ IF os.mode # "delegation" \/ (ok /\ os.set)
           THEN Goes(d, "cash") /\ UNCHANGED <<facade, client, crossed, os, app>>
           ELSE /\ Rests
                /\ UNCHANGED os
                /\ IF ok THEN SetProxyModeInfo ELSE UNCHANGED <<facade, client, crossed>>
        /\ UNCHANGED <<walletVars, told, session, ctx, channel, requests, storage, outerVars, moved, swapped,
                       late, tainted, left>>

\* Delegation mode: the facade and the client are told once.
CheckDelegationMode(d) ==
    LET ok == IsLoggedIn
    IN  /\ d \in At("check")
        /\ IF os.mode # "delegation" \/ (ok /\ os.set)
           THEN Goes(d, "cash") /\ UNCHANGED <<facade, client, crossed, os, app>>
           ELSE /\ Rests
                /\ os' = [os EXCEPT !.set = @ \/ ok]
                /\ IF ok THEN SetProxyModeInfo ELSE UNCHANGED <<facade, client, crossed>>
        /\ UNCHANGED <<walletVars, told, session, ctx, channel, requests, storage, outerVars, moved, swapped,
                       late, tainted, left>>

\* After a switch of the address the client synchronizes the cash and
\* consolidates it, and the step is over.
CashInit(d) ==
    /\ d \in At("cash")
    /\ IF client.inited THEN Goes(d, "balance") /\ UNCHANGED client
       ELSE Goes(d, "consolidate") /\ client' = [client EXCEPT !.inited = TRUE]
    /\ UNCHANGED <<walletVars, facade, appVars, ctx, os, channel, requests, storage, outerVars,
                   historyVars, left>>

ConsolidateIfNeeded(d) ==
    /\ d \in At("consolidate")
    /\ Ends
    /\ UNCHANGED <<walletVars, facade, client, told, session, ctx, os, channel, requests, storage,
                   outerVars, historyVars, left>>

\* Outside delegation mode the proxy must hold 10 SMR; that is asked until
\* it was so once.
CheckBalance(d) ==
    LET enough == os.cash \/ \E p \in facade.proxy : p.of \in funded
    IN  /\ d \in At("balance")
        /\ IF os.mode = "delegation" \/ enough THEN Goes(d, "rest") /\ UNCHANGED app ELSE Rests
        /\ os' = [os EXCEPT !.cash = os.mode # "delegation" /\ enough]
        /\ UNCHANGED <<walletVars, facade, client, told, session, ctx, channel, requests, storage,
                       outerVars, historyVars, left>>

\* Shimmer mode: the public key must be on the ledger; if it is not it is
\* sent there.
CheckShimmerMode(d) ==
    LET known == os.public \/ \E p \in client.proxy : p.of \in published
    IN  /\ d \in At("rest") /\ os.mode = "shimmer"
        /\ IF known THEN Goes(d, "last") /\ UNCHANGED <<app, channel>>
           ELSE Rests /\ channel' = Append(channel, "acquire")
        /\ os' = [os EXCEPT !.public = known]
        /\ UNCHANGED <<walletVars, facade, client, told, session, ctx, requests, storage, outerVars,
                       historyVars, left>>

\* Proxy modes.  What was read from the service is stored with the key.
CheckImpersonationMode(d) ==
    LET tells == os.mode = "impersonation" /\ ~os.set
    IN  /\ d \in At("rest") /\ os.mode # "shimmer"
        /\ IF IsLoggedIn \/ os.mode = "delegation"
           THEN /\ Goes(d, "last") /\ UNCHANGED app
                /\ IF tells THEN SetProxyModeInfo ELSE UNCHANGED <<facade, client, crossed>>
                /\ os' = [os EXCEPT !.set = @ \/ tells, !.need = FALSE]
                /\ IF os.need
                   THEN Store(Prefix, [storage[Prefix] EXCEPT
                                !.reg = {[key |-> k, account |-> os.info] : k \in ctx.key}])
                   ELSE UNCHANGED <<storage, tainted>>
           ELSE Rests /\ UNCHANGED <<facade, client, crossed, os, storage, tainted>>
        /\ UNCHANGED <<walletVars, told, session, ctx, channel, requests, outerVars, moved, swapped, late,
                       left>>

\* The hints are synchronized if the address was switched, and later while
\* a transaction is pending, at most every 5 s; an expired task of low
\* priority is done.  Either is a step of its own.
PrepareOrClean(d) ==
    /\ d \in At("last")
    /\ IF client.inited THEN Uses("works") ELSE UNCHANGED left
    /\ Ends
    /\ UNCHANGED <<walletVars, facade, client, told, session, ctx, os, channel, requests, storage,
                   outerVars, historyVars>>

CheckProfile(d) ==
    /\ d \in At("last") /\ client.inited
    /\ os' = [os EXCEPT !.ready = @ \/ os.mode # "delegation" \/ ctx.profile # {}]
    /\ Rests
    /\ UNCHANGED <<walletVars, facade, client, told, session, ctx, channel, requests, storage, outerVars,
                   historyVars, left>>

\* A request of the loop fails, or the wallet refuses: the step ends, and
\* with it the command; the loop polls on.  What is done with the cash
\* catches its errors.
StepFails(d) ==
    /\ d \in step /\ d.at \notin {"check", "cash", "consolidate", "last"} /\ Uses("fails")
    /\ Ends
    /\ UNCHANGED <<walletVars, facade, client, told, session, ctx, os, channel, requests, storage,
                   outerVars, historyVars>>

-----------------------------------------------------------------------------
(* Commands of the loop.                                                   *)

Command(name) ==
    /\ app # "stopped" /\ step = {} /\ channel # <<>> /\ Head(channel) = name
    /\ channel' = Tail(channel)

\* The wallet decrypts what the context held when it was asked.
BeginLogin ==
    /\ Command("login")
    /\ IF ctx.enc = {} THEN UNCHANGED step
       ELSE step' = {[at |-> "login", of |-> facade.account.of, mode |-> Mode, key |-> ctx.enc, proxy |-> {}]}
    /\ UNCHANGED <<walletVars, facade, client, appVars, ctx, os, requests, storage, outerVars, historyVars,
                   left>>

\* A wrong password is taken for a new one: the user registers again.
Login(d) ==
    /\ d \in At("login")
    /\ \/ /\ facade' = [facade EXCEPT !.key = d.key] /\ ctx' = [ctx EXCEPT !.key = d.key]
          /\ UNCHANGED <<channel, left>>
       \/ /\ Uses("fails") /\ channel' = Append(channel, "register") /\ UNCHANGED <<facade, ctx>>
    /\ Ends
    /\ UNCHANGED <<walletVars, client, told, session, os, requests, storage, outerVars, historyVars>>

NewKey(of) == [of |-> of, n |-> keys + 1]

\* The key that is there, or a new one, is signed for the address of the
\* facade.
SignaturePairX ==
    /\ Command("register")
    /\ step' = {[at |-> "register", of |-> facade.account.of, mode |-> Mode, proxy |-> {},
                 key |-> IF ctx.key # {} THEN ctx.key ELSE {NewKey(facade.account.of)}]}
    /\ keys' = keys + (IF ctx.key # {} THEN 0 ELSE 1)
    /\ UNCHANGED <<walletVars, facade, client, appVars, ctx, os, requests, storage, service, published,
                   named, funded, historyVars, left>>

Registered(of, key, mode) ==
    service' = [service EXCEPT ![of] =
        {[key |-> key,
          mm |-> mode = "delegation" \/ \E r \in @ : r.mm,
          tp |-> mode = "impersonation" \/ \E r \in @ : r.tp]}]

RegistersKey(d) ==
    /\ \E k \in d.key : Registered(d.of, k, d.mode)
    /\ Tells
    /\ tainted' = IF moved THEN tainted \union {d.of} ELSE tainted

\* In delegation mode the service registers, in impersonation mode an output
\* that the proxy account sends; a facade that has moved to shimmer mode
\* does nothing.
RegisterPairX(d) ==
    /\ d \in At("register")
    /\ CASE Mode = "delegation" ->
               /\ RegistersKey(d)
               /\ facade' = [facade EXCEPT !.proxy = {Proxy(d.of, "delegation")}, !.key = d.key]
               /\ UNCHANGED client
         [] Mode = "impersonation" ->
               /\ RegistersKey(d)
               /\ SwitchAddress({Proxy(client.adapter.of, "impersonation")}, d.key, client.adapter)
               /\ facade' = [facade EXCEPT !.key = d.key]
         [] OTHER -> UNCHANGED <<service, facade, client, crossed, tainted>>
    /\ ctx' = [ctx EXCEPT !.key = d.key]
    /\ os' = [os EXCEPT !.due = TRUE]
    /\ Ends
    /\ UNCHANGED <<walletVars, told, session, channel, requests, storage, keys, published, named, funded,
                   moved, swapped, late, left>>

\* The account sends itself something, at most every 15 s.
TryAquirePublicKey ==
    /\ Command("acquire")
    /\ published' = published \union {p.of : p \in client.proxy}
    /\ UNCHANGED <<walletVars, facade, client, appVars, ctx, os, step, requests, storage, service, keys, named,
                   funded, historyVars, left>>

-----------------------------------------------------------------------------
(* Profiles, time, other devices.                                          *)

\* The answer is stored under the prefix of by then.
ProfilesAnswered(q) ==
    /\ q \in requests
    /\ requests' = requests \ {q}
    /\ ctx' = [ctx EXCEPT !.profile = {q.of} \intersect named]
    /\ os' = [os EXCEPT !.fetched = TRUE, !.busy = FALSE]
    /\ storage' = [storage EXCEPT ![Prefix].profile = {q.of} \intersect named]
    /\ late' = (late \/ q.by # session)
    /\ tainted' = IF q.by # session \/ moved THEN tainted \union {Prefix} ELSE tainted
    /\ UNCHANGED <<walletVars, facade, client, appVars, step, channel, outerVars, moved, crossed, swapped,
                   left>>

\* The flag stays up.
ProfilesFail(q) ==
    /\ q \in requests /\ Uses("fails")
    /\ requests' = requests \ {q}
    /\ UNCHANGED <<walletVars, facade, client, appVars, ctx, os, step, channel, storage, outerVars,
                   historyVars>>

\* Ten minutes pass (two seconds after an error or a registration).
TimePasses ==
    /\ app # "stopped" /\ (os.fetched \/ ~os.due)
    /\ os' = [os EXCEPT !.due = TRUE, !.fetched = FALSE]
    /\ UNCHANGED <<walletVars, facade, client, appVars, ctx, step, channel, requests, storage, outerVars,
                   historyVars, left>>

\* The user registers again, or chooses a profile, on another device; someone
\* sends SMR.
ForeignRegister(a) ==
    /\ service[a] # {} /\ Uses("foreigns")
    /\ Registered(a, NewKey(a), "delegation") /\ keys' = keys + 1
    /\ UNCHANGED <<walletVars, facade, client, appVars, ctx, os, step, channel, requests, storage,
                   published, named, funded, historyVars>>

ForeignProfile(a) ==
    /\ a \notin named /\ Uses("foreigns")
    /\ named' = named \union {a}
    /\ UNCHANGED <<walletVars, facade, client, appVars, ctx, os, step, channel, requests, storage, service,
                   keys, published, funded, historyVars>>

ForeignFunds(a) ==
    /\ a \notin funded /\ Uses("foreigns")
    /\ funded' = funded \union {a}
    /\ UNCHANGED <<walletVars, facade, client, appVars, ctx, os, step, channel, requests, storage, service,
                   keys, published, named, historyVars>>

-----------------------------------------------------------------------------
Commands == BeginLogin \/ SignaturePairX \/ TryAquirePublicKey
Step(d) ==
    \/ CheckStored(d) \/ ServiceAnswers(d) \/ CheckDelegationMode(d) \/ CashInit(d)
    \/ ConsolidateIfNeeded(d) \/ CheckBalance(d) \/ CheckShimmerMode(d) \/ CheckImpersonationMode(d)
    \/ PrepareOrClean(d) \/ CheckProfile(d) \/ Login(d) \/ RegisterPairX(d)
Work == Poll \/ Commands \/ \E d \in step : Step(d)
Profiles == \E q \in requests : ProfilesAnswered(q)

Next ==
    \/ Work \/ Profiles \/ TimePasses \/ Stop \/ CallLogin \/ CallRegister
    \/ \E a \in Account : WalletChanges(a) \/ MetaMaskAccountChanged(a) \/ AccountsChanged(a)
                             \/ ProxyAnswered(a) \/ ChangeFails(a) \/ Start(a)
    \/ \E d \in step : StepFails(d)
    \/ \E q \in requests : ProfilesFail(q)
    \/ \E a \in Address : ForeignRegister(a) \/ ForeignProfile(a) \/ ForeignFunds(a)

Spec == Init /\ [][Next]_vars /\ WF_vars(Work) /\ WF_vars(Profiles) /\ WF_vars(TimePasses)

-----------------------------------------------------------------------------
Key == [of : Address, n : Nat]
ProxyAccount == [of : Address, mode : Modes]
LoopType ==
    [mode : Modes, due : BOOLEAN, need : BOOLEAN, info : SUBSET ProxyAccount, set : BOOLEAN, public : BOOLEAN,
     cash : BOOLEAN, fetched : BOOLEAN, busy : BOOLEAN, ready : BOOLEAN]
Station == {"stored", "service", "check", "cash", "consolidate", "balance", "rest", "last", "login", "register"}
StepType == [at : Station, of : Address, mode : Modes, key : SUBSET Key, proxy : SUBSET ProxyAccount]
StoredType == [reg : SUBSET [key : Key, account : SUBSET ProxyAccount], profile : SUBSET Address]

TypeOK ==
    /\ wallet \in Account /\ connecting \subseteq Account /\ asking \subseteq Account /\ told \subseteq Account
    /\ facade \in [account : Account, proxy : SUBSET ProxyAccount, key : SUBSET Key]
    /\ client \in [adapter : Account, proxy : SUBSET ProxyAccount, key : SUBSET Key, inited : BOOLEAN]
    /\ ctx \in [account : SUBSET Account, proxy : SUBSET ProxyAccount, key : SUBSET Key, enc : SUBSET Key,
               profile : SUBSET Address]
    /\ app \in {"running", "stopping", "stopped"} /\ os \in LoopType /\ step \subseteq StepType
    /\ channel \in Seq({"login", "register", "acquire"})
    /\ session \in Nat /\ requests \subseteq [of : Address, by : Nat]
    /\ storage \in [Address -> StoredType]
    /\ service \in [Address -> SUBSET [key : Key, mm : BOOLEAN, tp : BOOLEAN]] /\ keys \in Nat
    /\ published \subseteq Address /\ named \subseteq Address /\ funded \subseteq Address /\ tainted \subseteq Address
    /\ {moved, crossed, swapped, late} \subseteq BOOLEAN
    /\ left \in BoundType

\* When the loop says that the user can chat, the facade, the client and the
\* context are all of the account of the session: its adapter, its proxy
\* address and one key of its own.  The code promises it only to a session
\* during which the facade was not moved, and whose proxy it did not take
\* from the wrong field of the answer; for an address for which no loop of a
\* moved facade did anything; and in shimmer mode, where the loop tells the
\* facade nothing, if none told it after it moved there.
ReadyIsRight ==
    \A a \in ctx.account :
        /\ os.ready /\ app = "running" /\ ~moved /\ ~swapped /\ a.of \notin tainted
        /\ a.mode = "shimmer" => ~crossed
        =>
            /\ facade.account = a /\ client.adapter = a
            /\ facade.proxy = {Proxy(a.of, a.mode)} /\ client.proxy = facade.proxy
            /\ a.mode # "shimmer" => /\ client.key = facade.key /\ ctx.key = facade.key
                                     /\ \A k \in ctx.key : k.of = a.of
            /\ ctx.profile \subseteq {a.of} \/ late

\* What is stored under the prefix of an address is its own: its key, its
\* proxies, its profile, whatever accounts were used in turn, unless a loop
\* whose facade had moved stored something there or registered a key for it.
StoredIsOwn ==
    \A a \in Address \ tainted :
        /\ \A r \in storage[a].reg : r.key.of = a /\ \A p \in r.account : p.of = a
        /\ storage[a].profile \subseteq {a}

\* Who has a key gets to chat, through checks that each end the step: in
\* shimmer mode with 10 SMR at the address, in delegation mode with a key
\* and a profile.  The code promises it unless the account changes or the
\* request for the profiles has failed, which is not made again in the
\* session.
LoginCompletes ==
    \A a \in Account :
        (/\ app = "running" /\ ctx.account = {a} /\ ~moved
         /\ \/ a.mode = "shimmer" /\ a.of \in funded
            \/ a.mode = "delegation" /\ ctx.key # {} /\ a.of \in named)
        ~> (os.ready \/ moved \/ app # "running" \/ (os.busy /\ requests = {}))
=============================================================================
