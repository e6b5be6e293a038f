---------------------------- MODULE SessionProofs ----------------------------
(***************************************************************************)
(* Proofs about Session, for every set of accounts and bounds: what is     *)
(* stored under an address is its own, and a loop that is ready is ready   *)
(* as the account of its session.                                          *)
(***************************************************************************)
EXTENDS Session, SequenceTheorems, TLAPS

-----------------------------------------------------------------------------
(* The inductive invariants.                                               *)

AtMostOne(s) == \A x, y \in s : x = y
Own(ks, a) == \A k \in ks : k.of = a.of
Logins == \E i \in DOMAIN channel : channel[i] = "login"

\* There is one session and one step, of the account of the facade unless
\* that was moved.
SessionInv ==
    /\ AtMostOne(step) /\ AtMostOne(ctx.account) /\ AtMostOne(told)
    /\ app = "stopped" => step = {}
    /\ (app # "stopped" \/ requests # {}) => ctx.account # {}
    /\ client.adapter = facade.account
    /\ ~moved => asking = {} /\ \A a \in ctx.account : facade.account = a /\ os.mode = a.mode
    /\ \A q \in requests : q.by <= session /\ (q.by = session /\ ~moved => \A a \in ctx.account : q.of = a.of)
    /\ \A d \in step, a \in ctx.account : ~moved => d.of = a.of

TypeInv == TypeOK /\ SessionInv

\* What the session holds is of its account, and what is registered for an
\* address is of the address, unless the address is tainted.
OwnInv ==
    /\ \A a \in ctx.account : ~moved /\ a.of \notin tainted =>
           /\ Own(ctx.key, a) /\ Own(ctx.enc, a) /\ Own(os.info, a) /\ (ctx.profile \subseteq {a.of} \/ late)
           /\ \A d \in step : Own(d.key, a) /\ Own(d.proxy, a)
    /\ \A x \in Address \ tainted : \A r \in service[x] : r.key.of = x

StoreInv == TypeInv /\ OwnInv /\ StoredIsOwn

\* The station at which a step waits tells what it holds and what was found
\* before.  A command to log in that is on the channel was given while there
\* was no key.
HasStored(a) == \E r \in storage[a.of].reg : \E p \in r.account : p.mode = a.mode
StationInv ==
    /\ \A d \in step : /\ d.at \in {"stored", "login", "register"} => d.key # {}
                       /\ d.at = "stored" => d.proxy # {}
                       /\ d.at = "register" /\ ctx.key # {} => d.key = ctx.key
                       /\ d.at \in {"stored", "service"} => ~IsLoggedIn
                       /\ d.at \in {"cash", "balance", "rest"} /\ os.mode = "delegation" => os.set
                       /\ d.at = "last" /\ os.mode # "shimmer" => os.set
    /\ os.ready /\ os.mode # "shimmer" => os.set
    /\ os.set => os.mode # "shimmer" /\ IsLoggedIn

\* What is stored for the account is found before the service is asked, and
\* then there is nothing to decrypt and nobody logs in.
FlowInv ==
    \A a \in ctx.account : ~moved /\ ~swapped =>
        /\ HasStored(a) /\ ctx.enc # {} => IsLoggedIn
        /\ \A d \in step : /\ d.at = "service" => ~HasStored(a)
                           /\ d.at = "stored" => ctx.enc = {} /\ ~Logins
                           /\ d.at \in {"service", "check", "cash", "balance", "rest", "last"} /\ ctx.key # {} => ~Logins
                           /\ \A p \in d.proxy : p.mode = a.mode

\* What the loop told the facade and the client is what the context holds.
ToldInv ==
    \A a \in ctx.account : ~moved /\ a.of \notin tainted /\ ~swapped =>
        /\ \A p \in ctx.proxy : p = Proxy(a.of, a.mode)
        /\ os.set => /\ client.key = ctx.key /\ facade.key = ctx.key /\ ctx.key # {} /\ ctx.proxy # {}
                     /\ facade.proxy = ctx.proxy /\ client.proxy = ctx.proxy
                     /\ ~Logins /\ \A d \in step : d.at # "login"

\* In shimmer mode the facade and the client have what the switch gave them.
Given(a) == facade.proxy = {Proxy(a.of, a.mode)} /\ client.proxy = {Proxy(a.of, a.mode)}
ShimmerInv ==
    /\ \A a \in asking : a.mode = "impersonation"
    /\ told # {} => moved \/ app = "stopped"
    /\ facade.account.mode = "shimmer" /\ told = {facade.account} /\ ~crossed => Given(facade.account)
    /\ \A a \in ctx.account : ~moved /\ a.mode = "shimmer" /\ ~crossed => Given(a)

ReadyInv == StoreInv /\ StationInv /\ FlowInv /\ ToldInv /\ ShimmerInv

-----------------------------------------------------------------------------
(* Types.                                                                  *)

LEMMA AccountFacts ==
    ASSUME NEW a \in Account
    PROVE  a.of \in Address /\ a.mode \in Modes /\ a = Proxy(a.of, a.mode)
BY AccountAssumption DEF Address, Proxy

LEMMA ProxyFacts ==
    ASSUME NEW of \in Address, NEW mode \in Modes
    PROVE  Proxy(of, mode) \in ProxyAccount
BY DEF Proxy, ProxyAccount

LEMMA PrefixFacts ==
    ASSUME TypeOK, ctx.account # {}
    PROVE  Prefix \in Address /\ (AtMostOne(ctx.account) => \A a \in ctx.account : Prefix = a.of)
BY AccountFacts DEF TypeOK, Prefix, AtMostOne

LEMMA UsesType ==
    ASSUME left \in BoundType, NEW c \in {"changes", "calls", "foreigns", "works", "fails"}, Uses(c)
    PROVE  left' \in BoundType
BY DEF BoundType, Uses

LEMMA TypeInit ==
    ASSUME Init
    PROVE  TypeOK
<1>1. left \in BoundType
  BY BoundsAssumption DEF Init
<1>2. wallet \in Account /\ wallet.of \in Address /\ wallet.mode \in Modes
  BY <1>1, AccountFacts DEF Init, BoundType
<1>3. Proxy(wallet.of, wallet.mode) \in ProxyAccount /\ Proxy(wallet.of, "shimmer") \in ProxyAccount
  BY <1>2, ProxyFacts DEF Modes
<1>4. facade \in [account : Account, proxy : SUBSET ProxyAccount, key : SUBSET Key]
  BY <1>2, <1>3 DEF Init
<1>5. client \in [adapter : Account, proxy : SUBSET ProxyAccount, key : SUBSET Key, inited : BOOLEAN]
  BY <1>2, <1>3 DEF Init
<1>6. ctx \in [account : SUBSET Account, proxy : SUBSET ProxyAccount, key : SUBSET Key, enc : SUBSET Key,
               profile : SUBSET Address]
  BY DEF Init, Context, NothingStored
<1>7. os \in LoopType
  BY <1>2 DEF Init, Loop, NothingStored, LoopType
<1>8. service \in [Address -> SUBSET [key : Key, mm : BOOLEAN, tp : BOOLEAN]]
  <2>1. \A a \in Address : Registration(a) \subseteq [key : Key, mm : BOOLEAN, tp : BOOLEAN]
    BY DEF Registration, Key
  <2>2. UNION {Registration(a) : a \in Address} \subseteq [key : Key, mm : BOOLEAN, tp : BOOLEAN]
    BY <2>1
  <2>3. left.registered \in [Address -> SUBSET UNION {Registration(a) : a \in Address}]
    BY <1>1 DEF BoundType
  <2>4. service = left.registered
    BY DEF Init
  <2> QED
    BY <2>2, <2>3, <2>4
<1>9. storage \in [Address -> StoredType]
  <2>1. PICK known : storage = [a \in Address |->
               IF a \in known
               THEN [reg |-> {[key |-> r.key, account |-> {Proxy(a, "delegation")}] : r \in service[a]},
                     profile |-> {a} \intersect left.named]
               ELSE NothingStored]
    BY DEF Init
  <2>2. ASSUME NEW a \in Address
        PROVE  storage[a] \in StoredType
    <3>1. Proxy(a, "delegation") \in ProxyAccount
      BY ProxyFacts DEF Modes
    <3>2. {[key |-> r.key, account |-> {Proxy(a, "delegation")}] : r \in service[a]}
              \subseteq [key : Key, account : SUBSET ProxyAccount]
      BY <1>8, <3>1
    <3> QED
      BY <2>1, <3>2 DEF StoredType, NothingStored
  <2> QED
    BY <2>1, <2>2
<1>10. published \subseteq Address /\ named \subseteq Address /\ funded \subseteq Address
  BY <1>1 DEF Init, BoundType
<1>11. /\ wallet \in Account /\ connecting \subseteq Account /\ asking \subseteq Account
       /\ told \subseteq Account /\ app \in {"running", "stopping", "stopped"} /\ step \subseteq StepType
  BY <1>2 DEF Init
<1>12. channel \in Seq({"login", "register", "acquire"})
  BY EmptySeq DEF Init
<1>13. /\ session \in Nat /\ requests \subseteq [of : Address, by : Nat] /\ keys \in Nat
       /\ tainted \subseteq Address
  BY DEF Init
<1>14. {moved, crossed, swapped, late} \subseteq BOOLEAN
  BY DEF Init
<1> QED
  BY <1>1, <1>4, <1>5, <1>6, <1>7, <1>8, <1>9, <1>10, <1>11, <1>12, <1>13, <1>14 DEF TypeOK

-----------------------------------------------------------------------------
(* The types are kept, a group of variables at a time.                     *)

FacadeType == [account : Account, proxy : SUBSET ProxyAccount, key : SUBSET Key]
ClientType == [adapter : Account, proxy : SUBSET ProxyAccount, key : SUBSET Key, inited : BOOLEAN]
ContextType == [account : SUBSET Account, proxy : SUBSET ProxyAccount, key : SUBSET Key, enc : SUBSET Key,
                profile : SUBSET Address]

LEMMA StepTypes ==
    ASSUME TypeOK, NEW d \in step
    PROVE  /\ d \in StepType
           /\ \A where \in Station : [d EXCEPT !.at = where] \in StepType
BY DEF TypeOK, StepType

LEMMA AwaitType ==
    ASSUME TypeOK, NEW where \in Station, Await(where)
    PROVE  step' \subseteq StepType
<1>1. facade.account.of \in Address /\ Mode \in Modes
  BY AccountFacts DEF TypeOK, Mode
<1> QED
  BY <1>1 DEF Await, StepType

LEMMA SwitchType ==
    ASSUME TypeOK, NEW a \in Account, Switch(a)
    PROVE  /\ facade' \in FacadeType /\ client' \in ClientType /\ told' \subseteq Account
           /\ asking' \subseteq Account /\ moved' \in BOOLEAN /\ crossed' \in BOOLEAN
<1>1. Proxy(a.of, "shimmer") \in ProxyAccount
  BY AccountFacts, ProxyFacts DEF Modes
<1>2. facade' \in FacadeType
  BY <1>1 DEF Switch, ClearAddress, FacadeType
<1>3. client \in ClientType
  BY DEF TypeOK, ClientType
<1>4. client' \in ClientType
  <2>1. CASE SwitchAddress({Proxy(a.of, "shimmer")}, {}, a)
    BY <1>1, <2>1 DEF SwitchAddress, ClientType
  <2>2. CASE client' = [client EXCEPT !.adapter = a]
    BY <1>3, <2>2 DEF ClientType
  <2> QED
    BY <2>1, <2>2 DEF Switch
<1>5. told' \subseteq Account /\ asking' \subseteq Account
  BY DEF Switch, TypeOK
<1> QED
  BY <1>2, <1>4, <1>5 DEF Switch

\* What the wallet, the user, time and other devices do.
Outer ==
    \/ Stop \/ CallLogin \/ CallRegister \/ TimePasses
    \/ \E a \in Account : WalletChanges(a) \/ MetaMaskAccountChanged(a) \/ AccountsChanged(a)
                             \/ ProxyAnswered(a) \/ ChangeFails(a) \/ Start(a)
    \/ \E q \in requests : ProfilesFail(q)
    \/ \E a \in Address : ForeignRegister(a) \/ ForeignProfile(a) \/ ForeignFunds(a)

LEMMA ContextFacts ==
    ASSUME TypeOK, NEW a \in Account
    PROVE  /\ Context({a}, storage[a.of]) \in ContextType
           /\ Loop(Mode, storage[a.of]) \in LoopType
<1>1. storage[a.of].profile \subseteq Address
  BY AccountFacts DEF TypeOK, StoredType
<1>2. Mode \in Modes
  BY AccountFacts DEF TypeOK, Mode
<1>3. Context({a}, storage[a.of]) \in ContextType
  BY <1>1 DEF Context, ContextType
<1>4. Loop(Mode, storage[a.of]) \in LoopType
  BY <1>2 DEF Loop, LoopType
<1> QED
  BY <1>3, <1>4

LEMMA RegisteredType ==
    ASSUME TypeOK, NEW of \in Address, NEW key \in Key, NEW mode, Registered(of, key, mode)
    PROVE  service' \in [Address -> SUBSET [key : Key, mm : BOOLEAN, tp : BOOLEAN]]
BY DEF TypeOK, Registered

LEMMA TypeOuter ==
    ASSUME TypeInv, Outer
    PROVE  TypeOK'
<1> USE DEF TypeInv, walletVars, appVars, outerVars, historyVars
<1>1. CASE Stop
  BY <1>1 DEF Stop, TypeOK
<1>2. CASE CallLogin \/ CallRegister
  <2>1. left' \in BoundType
    BY <1>2, UsesType DEF CallLogin, CallRegister, TypeOK
  <2>2. channel \in Seq({"login", "register", "acquire"})
    BY DEF TypeOK
  <2>3. channel' = Append(channel, "login") \/ channel' = Append(channel, "register")
    BY <1>2 DEF CallLogin, CallRegister
  <2>4. channel' \in Seq({"login", "register", "acquire"})
    BY <2>2, <2>3, AppendProperties
  <2> QED
    BY <1>2, <2>1, <2>4 DEF CallLogin, CallRegister, TypeOK
<1>3. CASE TimePasses
  <2>1. os' \in LoopType
    BY <1>3 DEF TimePasses, TypeOK, LoopType
  <2> QED
    BY <1>3, <2>1 DEF TimePasses, TypeOK
<1>4. ASSUME NEW a \in Account, WalletChanges(a)
      PROVE  TypeOK'
  <2>1. left' \in BoundType
    BY <1>4, UsesType DEF WalletChanges, TypeOK
  <2> QED
    BY <1>4, <2>1 DEF WalletChanges, TypeOK
<1>5. ASSUME NEW a \in Account, MetaMaskAccountChanged(a) \/ AccountsChanged(a)
      PROVE  TypeOK'
  <2>1. Switch(a)
    BY <1>5 DEF MetaMaskAccountChanged, AccountsChanged
  <2>2. /\ facade' \in FacadeType /\ client' \in ClientType /\ told' \subseteq Account
        /\ asking' \subseteq Account /\ moved' \in BOOLEAN /\ crossed' \in BOOLEAN
    BY <2>1, SwitchType
  <2>3. connecting' \subseteq Account
    BY <1>5 DEF MetaMaskAccountChanged, AccountsChanged, TypeOK
  <2> QED
    BY <1>5, <2>2, <2>3 DEF MetaMaskAccountChanged, AccountsChanged, TypeOK, FacadeType, ClientType
<1>6. ASSUME NEW a \in Account, ProxyAnswered(a)
      PROVE  TypeOK'
  <2>1. Proxy(a.of, "impersonation") \in ProxyAccount
    BY AccountFacts, ProxyFacts DEF Modes
  <2>2. facade' \in [account : Account, proxy : SUBSET ProxyAccount, key : SUBSET Key]
    BY <1>6, <2>1 DEF ProxyAnswered, TypeOK
  <2> QED
    BY <1>6, <2>2 DEF ProxyAnswered, TypeOK
<1>7. ASSUME NEW a \in Account, ChangeFails(a)
      PROVE  TypeOK'
  <2>1. left' \in BoundType
    BY <1>7, UsesType DEF ChangeFails, TypeOK
  <2> QED
    BY <1>7, <2>1 DEF ChangeFails, TypeOK
<1>8. ASSUME NEW a \in Account, Start(a)
      PROVE  TypeOK'
  <2>1. ctx' \in ContextType /\ os' \in LoopType
    BY <1>8, ContextFacts DEF Start
  <2>2. told' \subseteq Account /\ session' \in Nat /\ app' \in {"running", "stopping", "stopped"}
    BY <1>8 DEF Start, TypeOK
  <2>3. moved' \in BOOLEAN /\ swapped' \in BOOLEAN /\ late' \in BOOLEAN /\ crossed' \in BOOLEAN
    BY <1>8 DEF Start, TypeOK
  <2> QED
    BY <1>8, <2>1, <2>2, <2>3 DEF Start, TypeOK, ContextType
<1>9. ASSUME NEW q \in requests, ProfilesFail(q)
      PROVE  TypeOK'
  <2>1. left' \in BoundType
    BY <1>9, UsesType DEF ProfilesFail, TypeOK
  <2> QED
    BY <1>9, <2>1 DEF ProfilesFail, TypeOK
<1>10. ASSUME NEW a \in Address, ForeignRegister(a) \/ ForeignProfile(a) \/ ForeignFunds(a)
       PROVE  TypeOK'
  <2>1. left' \in BoundType
    BY <1>10, UsesType DEF ForeignRegister, ForeignProfile, ForeignFunds, TypeOK
  <2>2. CASE ForeignRegister(a)
    <3>1. NewKey(a) \in Key
      BY DEF NewKey, Key, TypeOK
    <3>2. service' \in [Address -> SUBSET [key : Key, mm : BOOLEAN, tp : BOOLEAN]]
      BY <2>2, <3>1, RegisteredType DEF ForeignRegister
    <3> QED
      BY <2>1, <2>2, <3>2 DEF ForeignRegister, TypeOK
  <2>3. CASE ForeignProfile(a) \/ ForeignFunds(a)
    BY <2>1, <2>3 DEF ForeignProfile, ForeignFunds, TypeOK
  <2> QED
    BY <1>10, <2>2, <2>3
<1> QED
  BY <1>1, <1>2, <1>3, <1>4, <1>5, <1>6, <1>7, <1>8, <1>9, <1>10 DEF Outer

\* The loop works in a session.
LEMMA InSession ==
    ASSUME SessionInv, app # "stopped" \/ step # {} \/ requests # {}
    PROVE  ctx.account # {}
BY DEF SessionInv

LEMMA EndsType ==
    ASSUME TypeOK, Ends \/ Rests
    PROVE  step' = {} /\ app' \in {"running", "stopping", "stopped"}
BY DEF Ends, Rests, TypeOK

LEMMA GoesType ==
    ASSUME TypeOK, NEW d \in step, NEW where \in Station, Goes(d, where)
    PROVE  step' \subseteq StepType
BY StepTypes DEF Goes

LEMMA StoreType ==
    ASSUME TypeOK, NEW a \in Address, NEW value \in StoredType, Store(a, value)
    PROVE  storage' \in [Address -> StoredType] /\ tainted' \subseteq Address
BY DEF Store, TypeOK

LEMMA LoopFacts ==
    ASSUME NEW loop \in LoopType, NEW yes \in BOOLEAN
    PROVE  /\ [loop EXCEPT !.due = yes] \in LoopType
           /\ [loop EXCEPT !.need = yes] \in LoopType
           /\ [loop EXCEPT !.busy = yes] \in LoopType
           /\ [loop EXCEPT !.set = yes] \in LoopType
           /\ [loop EXCEPT !.public = yes] \in LoopType
           /\ [loop EXCEPT !.ready = yes] \in LoopType
           /\ [loop EXCEPT !.fetched = TRUE, !.busy = FALSE] \in LoopType
BY DEF LoopType

LEMMA TypePoll ==
    ASSUME TypeInv, Poll
    PROVE  TypeOK'
<1> DEFINE asks == [os EXCEPT !.busy = @ \/ ~os.fetched]
<1>1. facade.account.of \in Address /\ Mode \in Modes
  BY AccountFacts DEF TypeInv, TypeOK, Mode
<1>2. requests' \subseteq [of : Address, by : Nat]
  BY <1>1 DEF Poll, TryRefreshProfileList, TypeInv, TypeOK
<1>3. asks \in LoopType
  BY DEF TypeInv, TypeOK, LoopType
<1>4. os' = asks \/ os' = [asks EXCEPT !.need = TRUE]
  BY DEF Poll
<1>5. os' \in LoopType
  BY <1>3, <1>4, LoopFacts
<1>6. Prefix \in Address
  BY InSession, PrefixFacts DEF Poll, TypeInv
<1>7. ASSUME NEW r \in Stored, NEW p \in r.account
      PROVE  r.key \in Key /\ p \in ProxyAccount
  <2>1. r \in [key : Key, account : SUBSET ProxyAccount]
    BY <1>6 DEF Stored, TypeInv, TypeOK, StoredType
  <2> QED
    BY <2>1
<1>8. step' \subseteq StepType
  <2>1. CASE \E r \in Stored : \E p \in {q \in r.account : q.mode = Mode} :
                step' = {[at |-> "stored", of |-> facade.account.of, mode |-> Mode,
                          key |-> {r.key}, proxy |-> {p}]}
    BY <1>1, <1>7, <2>1 DEF StepType, Station
  <2>2. CASE Await("check") \/ Await("service")
    BY <2>2, AwaitType DEF Station, TypeInv
  <2> QED
    BY <2>1, <2>2 DEF Poll
<1> HIDE DEF asks
<1> QED
  BY <1>2, <1>5, <1>8 DEF Poll, TypeInv, TypeOK, walletVars, appVars, outerVars, historyVars

LEMMA TypeCheckStored ==
    ASSUME TypeInv, NEW d \in step, CheckStored(d)
    PROVE  TypeOK'
<1>1. d \in StepType
  BY DEF TypeInv, TypeOK
<1>2. Prefix \in Address
  BY InSession, PrefixFacts DEF TypeInv
<1>3. ctx' \in ContextType
  BY <1>1 DEF CheckStored, TypeInv, TypeOK, ContextType, StepType
<1>4. os' \in LoopType
  BY LoopFacts DEF CheckStored, TypeInv, TypeOK
<1>5. step' \subseteq StepType
  BY GoesType, AwaitType DEF CheckStored, TypeInv, Station
<1>6. storage' \in [Address -> StoredType] /\ tainted' \subseteq Address
  <2>1. [storage[Prefix] EXCEPT !.reg = {}] \in StoredType
    BY <1>2 DEF TypeInv, TypeOK, StoredType
  <2> QED
    BY <1>2, <2>1, StoreType DEF CheckStored, TypeInv, TypeOK
<1> QED
  BY <1>3, <1>4, <1>5, <1>6
  DEF CheckStored, TypeInv, TypeOK, ContextType, walletVars, appVars, outerVars, historyVars

LEMMA TypeServiceAnswers ==
    ASSUME TypeInv, NEW d \in step, ServiceAnswers(d)
    PROVE  TypeOK'
<1> DEFINE known == {r \in service[d.of] : Valid({r.key}, IF r.mm THEN {Proxy(d.of, "delegation")} ELSE {})}
           mm == IF \E r \in known : r.mm THEN {Proxy(d.of, "delegation")} ELSE {}
           tp == IF \E r \in known : r.tp THEN {Proxy(d.of, "impersonation")} ELSE {}
           mine == (os.mode = "delegation" /\ mm # {}) \/ (os.mode = "impersonation" /\ tp # {})
<1>1. d \in StepType /\ d.of \in Address
  BY DEF TypeInv, TypeOK, StepType
<1>2. mm \subseteq ProxyAccount /\ tp \subseteq ProxyAccount
  BY <1>1, ProxyFacts DEF Modes
<1>3. {r.key : r \in known} \subseteq Key
  <2>1. service[d.of] \subseteq [key : Key, mm : BOOLEAN, tp : BOOLEAN]
    BY <1>1 DEF TypeInv, TypeOK
  <2> QED
    BY <2>1
<1>4. ctx' \in ContextType
  <2>1. ctx' = IF known = {} THEN ctx
               ELSE [ctx EXCEPT !.enc = {r.key : r \in known}, !.proxy = IF mine THEN mm ELSE @]
    BY DEF ServiceAnswers
  <2>2. ctx \in ContextType
    BY DEF TypeInv, TypeOK, ContextType
  <2> HIDE DEF known, mm, mine
  <2> QED
    BY <1>2, <1>3, <2>1, <2>2 DEF ContextType
<1>5. os' \in LoopType
  <2>1. os' = [os EXCEPT !.due = FALSE,
                         !.info = mm \union tp \union {p \in @ : p.mode \notin {q.mode : q \in mm \union tp}}]
    BY DEF ServiceAnswers
  <2>2. os \in LoopType
    BY DEF TypeInv, TypeOK
  <2> HIDE DEF mm, tp
  <2> QED
    BY <1>2, <2>1, <2>2 DEF LoopType
<1>6. step' \subseteq StepType
  BY GoesType DEF ServiceAnswers, TypeInv, Station
<1>7. swapped' \in BOOLEAN
  BY DEF ServiceAnswers
<1> HIDE DEF known, mm, tp, mine
<1>8. UNCHANGED <<walletVars, facade, client, appVars, channel, requests, storage, outerVars, moved,
                  crossed, late, tainted, left>>
  BY DEF ServiceAnswers
<1> QED
  BY <1>4, <1>5, <1>6, <1>7, <1>8 DEF TypeInv, TypeOK, ContextType, walletVars, appVars, outerVars

LEMMA ToldType ==
    ASSUME TypeOK, SetProxyModeInfo \/ UNCHANGED <<facade, client, crossed>>
    PROVE  facade' \in FacadeType /\ client' \in ClientType /\ crossed' \in BOOLEAN
<1>1. facade \in FacadeType /\ client \in ClientType /\ crossed \in BOOLEAN /\ moved \in BOOLEAN
  BY DEF TypeOK, FacadeType, ClientType
<1>2. ctx.proxy \subseteq ProxyAccount /\ ctx.key \subseteq Key
  BY DEF TypeOK
<1>3. CASE SetProxyModeInfo
  <2>1. facade' \in FacadeType
    BY <1>1, <1>2, <1>3 DEF SetProxyModeInfo, FacadeType
  <2>2. client' \in ClientType
    BY <1>1, <1>2, <1>3 DEF SetProxyModeInfo, SwitchAddress, ClientType
  <2> QED
    BY <1>1, <1>3, <2>1, <2>2 DEF SetProxyModeInfo, Tells
<1> QED
  BY <1>1, <1>3

LEMMA TypeChecks ==
    ASSUME TypeInv, NEW d \in step, CheckDelegationMode(d) \/ CheckShimmerMode(d) \/ CheckProfile(d)
    PROVE  TypeOK'
<1>1. step' \subseteq StepType /\ app' \in {"running", "stopping", "stopped"}
  <2>1. CASE Rests
    BY <2>1, EndsType DEF TypeInv
  <2>2. CASE (Goes(d, "cash") \/ Goes(d, "last")) /\ UNCHANGED app
    BY <2>2, GoesType DEF TypeInv, TypeOK, Station
  <2> QED
    BY <2>1, <2>2 DEF CheckDelegationMode, CheckShimmerMode, CheckProfile
<1>2. CASE CheckDelegationMode(d)
  <2>1. facade' \in FacadeType /\ client' \in ClientType /\ crossed' \in BOOLEAN
    BY <1>2, ToldType DEF CheckDelegationMode, TypeInv
  <2>2. os' \in LoopType
    BY <1>2 DEF CheckDelegationMode, TypeInv, TypeOK, LoopType, IsLoggedIn
  <2> QED
    BY <1>1, <1>2, <2>1, <2>2
    DEF CheckDelegationMode, TypeInv, TypeOK, FacadeType, ClientType, walletVars, outerVars
<1>3. CASE CheckShimmerMode(d)
  <2>1. os' \in LoopType
    BY <1>3 DEF CheckShimmerMode, TypeInv, TypeOK, LoopType
  <2>2. channel' \in Seq({"login", "register", "acquire"})
    <3>1. channel \in Seq({"login", "register", "acquire"})
      BY DEF TypeInv, TypeOK
    <3>2. channel' = channel \/ channel' = Append(channel, "acquire")
      BY <1>3 DEF CheckShimmerMode
    <3> QED
      BY <3>1, <3>2, AppendProperties
  <2> QED
    BY <1>1, <1>3, <2>1, <2>2
    DEF CheckShimmerMode, TypeInv, TypeOK, walletVars, outerVars, historyVars
<1>4. CASE CheckProfile(d)
  <2>1. os' \in LoopType
    BY <1>4 DEF CheckProfile, TypeInv, TypeOK, LoopType
  <2> QED
    BY <1>1, <1>4, <2>1
    DEF CheckProfile, TypeInv, TypeOK, walletVars, outerVars, historyVars
<1> QED
  BY <1>2, <1>3, <1>4

\* The gates of the cash, and what they leave as it is.
CashGate(d) == CashInit(d) \/ ConsolidateIfNeeded(d) \/ CheckBalance(d) \/ PrepareOrClean(d)

LEMMA GateFrame ==
    ASSUME TypeOK, NEW d \in step, CashGate(d)
    PROVE  /\ UNCHANGED <<wallet, connecting, asking, facade, told, session, ctx, channel, requests, storage,
                          service, keys, published, named, funded, moved, crossed, swapped, late, tainted>>
           /\ client' \in ClientType /\ client'.adapter = client.adapter
           /\ client'.proxy = client.proxy /\ client'.key = client.key
           /\ os' \in LoopType /\ os'.mode = os.mode /\ os'.set = os.set /\ os'.ready = os.ready
           /\ os'.info = os.info
           /\ left' \in BoundType
           /\ \/ Ends \/ Rests
              \/ app' = app /\ d.at = "cash" /\ (Goes(d, "balance") \/ Goes(d, "consolidate"))
              \/ app' = app /\ d.at = "balance" /\ Goes(d, "rest")
<1> USE DEF walletVars, appVars, outerVars, historyVars
<1>1. client \in ClientType /\ os \in LoopType /\ left \in BoundType
  BY DEF TypeOK, ClientType
<1>2. CASE CashInit(d)
  <2>1. client' = client \/ client' = [client EXCEPT !.inited = TRUE]
    BY <1>2 DEF CashInit
  <2>2. /\ client' \in ClientType /\ client'.adapter = client.adapter
        /\ client'.proxy = client.proxy /\ client'.key = client.key
    BY <1>1, <2>1 DEF ClientType
  <2> QED
    BY <1>1, <1>2, <2>2 DEF CashInit, At
<1>3. CASE ConsolidateIfNeeded(d)
  BY <1>1, <1>3 DEF ConsolidateIfNeeded
<1>4. CASE CheckBalance(d)
  <2>1. PICK enough \in BOOLEAN : os' = [os EXCEPT !.cash = enough]
    BY <1>4 DEF CheckBalance
  <2>2. os' \in LoopType /\ os'.mode = os.mode /\ os'.set = os.set /\ os'.ready = os.ready /\ os'.info = os.info
    BY <1>1, <2>1 DEF LoopType
  <2> QED
    BY <1>1, <1>4, <2>2 DEF CheckBalance, At
<1>5. CASE PrepareOrClean(d)
  <2>1. left' \in BoundType
    BY <1>1, <1>5, UsesType DEF PrepareOrClean
  <2> QED
    BY <1>1, <1>5, <2>1 DEF PrepareOrClean
<1> QED
  BY <1>2, <1>3, <1>4, <1>5 DEF CashGate

LEMMA TypeCashGate ==
    ASSUME TypeInv, NEW d \in step, CashGate(d)
    PROVE  TypeOK'
<1>1. step' \subseteq StepType /\ app' \in {"running", "stopping", "stopped"}
  <2>1. CASE Ends \/ Rests
    BY <2>1, EndsType DEF TypeInv
  <2>2. CASE UNCHANGED app /\ (Goes(d, "balance") \/ Goes(d, "consolidate") \/ Goes(d, "rest"))
    BY <2>2, GoesType DEF TypeInv, TypeOK, Station
  <2> QED
    BY <2>1, <2>2, GateFrame DEF TypeInv
<1>2. /\ UNCHANGED <<wallet, connecting, asking, facade, told, session, ctx, channel, requests, storage,
                     service, keys, published, named, funded, moved, crossed, swapped, late, tainted>>
      /\ client' \in ClientType /\ os' \in LoopType /\ left' \in BoundType
  BY GateFrame DEF TypeInv
<1> QED
  BY <1>1, <1>2 DEF TypeInv, TypeOK, ClientType

LEMMA TypeCheckImpersonationMode ==
    ASSUME TypeInv, NEW d \in step, CheckImpersonationMode(d)
    PROVE  TypeOK'
<1>1. step' \subseteq StepType /\ app' \in {"running", "stopping", "stopped"}
  BY GoesType, EndsType DEF CheckImpersonationMode, TypeInv, TypeOK, Station
<1>2. facade' \in FacadeType /\ client' \in ClientType /\ crossed' \in BOOLEAN
  BY ToldType DEF CheckImpersonationMode, TypeInv
<1>3. os' \in LoopType
  BY DEF CheckImpersonationMode, TypeInv, TypeOK, LoopType
<1>4. Prefix \in Address
  BY InSession, PrefixFacts DEF TypeInv
<1>5. storage' \in [Address -> StoredType] /\ tainted' \subseteq Address
  <2> DEFINE value == [storage[Prefix] EXCEPT !.reg = {[key |-> k, account |-> os.info] : k \in ctx.key}]
  <2>1. {[key |-> k, account |-> os.info] : k \in ctx.key} \subseteq [key : Key, account : SUBSET ProxyAccount]
    BY DEF TypeInv, TypeOK, LoopType
  <2>2. value \in StoredType
    BY <1>4, <2>1 DEF TypeInv, TypeOK, StoredType
  <2>3. Store(Prefix, value) \/ UNCHANGED <<storage, tainted>>
    BY DEF CheckImpersonationMode
  <2> HIDE DEF value
  <2> QED
    BY <1>4, <2>2, <2>3, StoreType DEF TypeInv, TypeOK
<1> QED
  BY <1>1, <1>2, <1>3, <1>5
  DEF CheckImpersonationMode, TypeInv, TypeOK, FacadeType, ClientType, walletVars, outerVars

LEMMA CommandType ==
    ASSUME TypeOK, NEW name, Command(name)
    PROVE  channel' \in Seq({"login", "register", "acquire"})
<1>1. channel \in Seq({"login", "register", "acquire"}) /\ channel # <<>>
  BY DEF TypeOK, Command
<1> QED
  BY <1>1, HeadTailProperties DEF Command

LEMMA TypeCommands ==
    ASSUME TypeInv, Commands
    PROVE  TypeOK'
<1>1. channel' \in Seq({"login", "register", "acquire"})
  BY CommandType DEF Commands, BeginLogin, SignaturePairX, TryAquirePublicKey, TypeInv
<1>2. facade.account.of \in Address /\ Mode \in Modes
  BY AccountFacts DEF TypeInv, TypeOK, Mode
<1>3. CASE BeginLogin
  <2>1. step' \subseteq StepType
    BY <1>2, <1>3 DEF BeginLogin, StepType, Station, TypeInv, TypeOK
  <2> QED
    BY <1>1, <1>3, <2>1 DEF BeginLogin, TypeInv, TypeOK, walletVars, appVars, outerVars, historyVars
<1>4. CASE SignaturePairX
  <2>1. {NewKey(facade.account.of)} \subseteq Key /\ keys' \in Nat
    BY <1>2, <1>4 DEF SignaturePairX, NewKey, Key, TypeInv, TypeOK
  <2>2. step' \subseteq StepType
    BY <1>2, <1>4, <2>1 DEF SignaturePairX, StepType, Station, TypeInv, TypeOK
  <2> QED
    BY <1>1, <1>4, <2>1, <2>2 DEF SignaturePairX, TypeInv, TypeOK, walletVars, appVars, historyVars
<1>5. CASE TryAquirePublicKey
  <2>1. published' \subseteq Address
    BY <1>5 DEF TryAquirePublicKey, TypeInv, TypeOK, ProxyAccount
  <2> QED
    BY <1>1, <1>5, <2>1 DEF TryAquirePublicKey, TypeInv, TypeOK, walletVars, appVars, historyVars
<1> QED
  BY <1>3, <1>4, <1>5 DEF Commands

LEMMA TypeLogin ==
    ASSUME TypeInv, NEW d \in step, Login(d)
    PROVE  TypeOK'
<1>1. d \in StepType
  BY DEF TypeInv, TypeOK
<1>2. step' = {} /\ app' \in {"running", "stopping", "stopped"}
  BY EndsType DEF Login, TypeInv
<1>3. CASE Uses("fails") /\ channel' = Append(channel, "register") /\ UNCHANGED <<facade, ctx>>
  <2>1. left' \in BoundType
    BY <1>3, UsesType DEF TypeInv, TypeOK
  <2>2. channel \in Seq({"login", "register", "acquire"})
    BY DEF TypeInv, TypeOK
  <2>3. channel' \in Seq({"login", "register", "acquire"})
    BY <1>3, <2>2, AppendProperties
  <2> QED
    BY <1>2, <1>3, <2>1, <2>3 DEF Login, TypeInv, TypeOK, walletVars, outerVars, historyVars
<1>4. CASE /\ facade' = [facade EXCEPT !.key = d.key] /\ ctx' = [ctx EXCEPT !.key = d.key]
           /\ UNCHANGED <<channel, left>>
  <2>1. facade' \in FacadeType /\ ctx' \in ContextType
    BY <1>1, <1>4 DEF TypeInv, TypeOK, FacadeType, ContextType, StepType
  <2> QED
    BY <1>2, <1>4, <2>1
    DEF Login, TypeInv, TypeOK, FacadeType, ContextType, walletVars, outerVars, historyVars
<1> QED
  BY <1>3, <1>4 DEF Login

LEMMA TypeRegisterPairX ==
    ASSUME TypeInv, NEW d \in step, RegisterPairX(d)
    PROVE  TypeOK'
<1>1. d \in StepType /\ d.key \subseteq Key /\ d.of \in Address
  BY DEF TypeInv, TypeOK, StepType
<1>2. step' = {} /\ app' \in {"running", "stopping", "stopped"}
  BY EndsType DEF RegisterPairX, TypeInv
<1>3. ctx' \in ContextType /\ os' \in LoopType
  BY <1>1, LoopFacts DEF RegisterPairX, TypeInv, TypeOK, ContextType
<1>4. facade' \in FacadeType
  <2>1. Proxy(d.of, "delegation") \in ProxyAccount
    BY <1>1, ProxyFacts DEF Modes
  <2>2. \/ facade' = [facade EXCEPT !.proxy = {Proxy(d.of, "delegation")}, !.key = d.key]
        \/ facade' = [facade EXCEPT !.key = d.key] \/ facade' = facade
    BY DEF RegisterPairX
  <2> QED
    <3>1. facade \in FacadeType
      BY DEF TypeInv, TypeOK, FacadeType
    <3>2. [facade EXCEPT !.key = d.key] \in FacadeType
      BY <1>1, <3>1 DEF FacadeType
    <3>3. [facade EXCEPT !.proxy = {Proxy(d.of, "delegation")}, !.key = d.key] \in FacadeType
      BY <1>1, <2>1, <3>1 DEF FacadeType
    <3> QED
      BY <2>2, <3>1, <3>2, <3>3
<1>5. client' \in ClientType
  <2>1. Proxy(client.adapter.of, "impersonation") \in ProxyAccount
    BY AccountFacts, ProxyFacts DEF Modes, TypeInv, TypeOK
  <2>2. \/ client' = client
        \/ SwitchAddress({Proxy(client.adapter.of, "impersonation")}, d.key, client.adapter)
    BY DEF RegisterPairX
  <2>3. client \in ClientType
    BY DEF TypeInv, TypeOK, ClientType
  <2>4. CASE SwitchAddress({Proxy(client.adapter.of, "impersonation")}, d.key, client.adapter)
    BY <1>1, <2>1, <2>3, <2>4 DEF ClientType, SwitchAddress
  <2> QED
    BY <2>2, <2>3, <2>4
<1>6. RegistersKey(d) \/ UNCHANGED <<service, crossed, tainted>>
  BY DEF RegisterPairX
<1>7. service' \in [Address -> SUBSET [key : Key, mm : BOOLEAN, tp : BOOLEAN]]
  BY <1>1, <1>6, RegisteredType DEF RegistersKey, TypeInv, TypeOK
<1>8. crossed' \in BOOLEAN /\ tainted' \subseteq Address
  BY <1>1, <1>6 DEF RegistersKey, Tells, TypeInv, TypeOK
<1> QED
  BY <1>2, <1>3, <1>4, <1>5, <1>7, <1>8
  DEF RegisterPairX, TypeInv, TypeOK, FacadeType, ClientType, ContextType, walletVars

LEMMA TypeStepFails ==
    ASSUME TypeInv, NEW d \in step, StepFails(d)
    PROVE  TypeOK'
<1>1. step' = {} /\ app' \in {"running", "stopping", "stopped"}
  BY EndsType DEF StepFails, TypeInv
<1>2. left' \in BoundType
  BY UsesType DEF StepFails, TypeInv, TypeOK
<1> QED
  BY <1>1, <1>2 DEF StepFails, TypeInv, TypeOK, walletVars, outerVars, historyVars

LEMMA TypeProfilesAnswered ==
    ASSUME TypeInv, NEW q \in requests, ProfilesAnswered(q)
    PROVE  TypeOK'
<1>1. Prefix \in Address
  BY InSession, PrefixFacts DEF TypeInv
<1>2. {q.of} \intersect named \subseteq Address
  BY DEF TypeInv, TypeOK
<1>3. ctx' \in ContextType /\ os' \in LoopType
  BY <1>2, LoopFacts DEF ProfilesAnswered, TypeInv, TypeOK, ContextType
<1>4. storage' \in [Address -> StoredType]
  <2>1. storage' = [storage EXCEPT ![Prefix] = [storage[Prefix] EXCEPT !.profile = {q.of} \intersect named]]
    BY DEF ProfilesAnswered
  <2> QED
    BY <1>1, <1>2, <2>1 DEF TypeInv, TypeOK, StoredType
<1>5. tainted' \subseteq Address /\ late' \in BOOLEAN
  BY <1>1 DEF ProfilesAnswered, TypeInv, TypeOK
<1> QED
  BY <1>3, <1>4, <1>5 DEF ProfilesAnswered, TypeInv, TypeOK, ContextType, walletVars, appVars, outerVars

\* What the loop does.
Inner ==
    \/ Poll \/ Commands
    \/ \E d \in step : Step(d) \/ StepFails(d)
    \/ \E q \in requests : ProfilesAnswered(q)

LEMMA TypeInner ==
    ASSUME TypeInv, Inner
    PROVE  TypeOK'
BY TypePoll, TypeCommands, TypeCheckStored, TypeServiceAnswers, TypeChecks, TypeCheckImpersonationMode,
   TypeCashGate, TypeLogin, TypeRegisterPairX, TypeStepFails, TypeProfilesAnswered
DEF Inner, Step, CashGate

LEMMA TypeNext ==
    ASSUME TypeInv, [Next]_vars
    PROVE  TypeOK'
<1>1. CASE UNCHANGED vars
  BY <1>1 DEF vars, TypeInv, TypeOK
<1>2. CASE Next
  BY <1>2, TypeOuter, TypeInner DEF Next, Work, Profiles, Outer, Inner
<1> QED
  BY <1>1, <1>2

LEMMA TypeKept ==
    ASSUME UNCHANGED vars, TypeInv
    PROVE  TypeInv'
BY DEF vars, TypeInv, TypeOK, SessionInv, AtMostOne

-----------------------------------------------------------------------------
(* There is one session and one step.                                      *)

\* The loop does not change whose session it is.
LEMMA InnerFrame ==
    ASSUME TypeInv, Inner
    PROVE  /\ ctx'.account = ctx.account /\ os'.mode = os.mode
           /\ facade'.account = facade.account /\ client'.adapter = client.adapter
           /\ UNCHANGED <<wallet, connecting, asking, told, session, moved>>
<1> USE DEF walletVars, appVars, outerVars, historyVars, TypeInv
<1>1. CASE Poll
  <2>1. os'.mode = os.mode
    BY <1>1 DEF Poll, TypeOK, LoopType
  <2> QED
    BY <1>1, <2>1 DEF Poll
<1>2. CASE Commands
  BY <1>2 DEF Commands, BeginLogin, SignaturePairX, TryAquirePublicKey
<1>3. ASSUME NEW d \in step, CheckStored(d)
      PROVE  ctx'.account = ctx.account /\ os'.mode = os.mode
  BY <1>3 DEF CheckStored, TypeOK, LoopType
<1>4. ASSUME NEW d \in step, CheckStored(d)
      PROVE  UNCHANGED <<facade, client, wallet, connecting, asking, told, session, moved>>
  BY <1>4 DEF CheckStored
<1>5. ASSUME NEW d \in step, ServiceAnswers(d)
      PROVE  UNCHANGED <<facade, client, wallet, connecting, asking, told, session, moved>>
  BY <1>5 DEF ServiceAnswers
<1>6. ASSUME NEW d \in step, ServiceAnswers(d)
      PROVE  ctx'.account = ctx.account /\ os'.mode = os.mode
  BY <1>6 DEF ServiceAnswers, TypeOK, LoopType
<1>7. ASSUME SetProxyModeInfo \/ UNCHANGED <<facade, client, crossed>>
      PROVE  facade'.account = facade.account /\ client'.adapter = client.adapter
  <2>1. CASE UNCHANGED <<facade, client, crossed>>
    BY <2>1
  <2>2. CASE SetProxyModeInfo
    <3>1. facade'.account = facade.account
      BY <2>2 DEF SetProxyModeInfo, TypeOK
    <3>2. client'.adapter = client.adapter
      BY <2>2 DEF SetProxyModeInfo, SwitchAddress
    <3> QED
      BY <3>1, <3>2
  <2> QED
    BY <1>7, <2>1, <2>2
<1>8. ASSUME NEW d \in step, CheckDelegationMode(d)
      PROVE  /\ ctx' = ctx /\ os'.mode = os.mode
             /\ facade'.account = facade.account /\ client'.adapter = client.adapter
             /\ UNCHANGED <<wallet, connecting, asking, told, session, moved>>
  <2>1. os'.mode = os.mode
    BY <1>8 DEF CheckDelegationMode, TypeOK, LoopType
  <2>2. SetProxyModeInfo \/ UNCHANGED <<facade, client, crossed>>
    BY <1>8 DEF CheckDelegationMode
  <2>3. ctx' = ctx /\ UNCHANGED <<wallet, connecting, asking, told, session, moved>>
    BY <1>8 DEF CheckDelegationMode
  <2> QED
    BY <2>1, <2>2, <2>3, <1>7
<1>9. ASSUME NEW d \in step, CheckImpersonationMode(d)
      PROVE  /\ ctx' = ctx /\ os'.mode = os.mode
             /\ facade'.account = facade.account /\ client'.adapter = client.adapter
             /\ UNCHANGED <<wallet, connecting, asking, told, session, moved>>
  <2>1. os'.mode = os.mode
    BY <1>9 DEF CheckImpersonationMode, TypeOK, LoopType
  <2>2. SetProxyModeInfo \/ UNCHANGED <<facade, client, crossed>>
    BY <1>9 DEF CheckImpersonationMode
  <2>3. ctx' = ctx /\ UNCHANGED <<wallet, connecting, asking, told, session, moved>>
    BY <1>9 DEF CheckImpersonationMode
  <2> QED
    BY <2>1, <2>2, <2>3, <1>7
<1>10. ASSUME NEW d \in step, CheckShimmerMode(d) \/ CheckProfile(d) \/ StepFails(d)
       PROVE  /\ UNCHANGED <<ctx, facade, client, wallet, connecting, asking, told, session, moved>>
              /\ os'.mode = os.mode
  BY <1>10 DEF CheckShimmerMode, CheckProfile, StepFails, TypeOK, LoopType
<1>11. ASSUME NEW d \in step, Login(d)
       PROVE  /\ ctx'.account = ctx.account /\ os' = os /\ facade'.account = facade.account
              /\ UNCHANGED <<client, wallet, connecting, asking, told, session, moved>>
  BY <1>11 DEF Login, TypeOK
<1>12. ASSUME NEW d \in step, RegisterPairX(d)
       PROVE  /\ ctx'.account = ctx.account /\ os'.mode = os.mode /\ facade'.account = facade.account
              /\ client'.adapter = client.adapter
              /\ UNCHANGED <<wallet, connecting, asking, told, session, moved>>
  <2>1. ctx'.account = ctx.account /\ os'.mode = os.mode
    BY <1>12 DEF RegisterPairX, TypeOK, LoopType
  <2>2. facade'.account = facade.account
    BY <1>12 DEF RegisterPairX, TypeOK
  <2>3. client'.adapter = client.adapter
    BY <1>12 DEF RegisterPairX, SwitchAddress, TypeOK
  <2>4. UNCHANGED <<wallet, connecting, asking, told, session, moved>>
    BY <1>12 DEF RegisterPairX
  <2> QED
    BY <2>1, <2>2, <2>3, <2>4
<1>13. ASSUME NEW q \in requests, ProfilesAnswered(q)
       PROVE  /\ ctx'.account = ctx.account /\ os'.mode = os.mode
              /\ UNCHANGED <<facade, client, wallet, connecting, asking, told, session, moved>>
  BY <1>13 DEF ProfilesAnswered, TypeOK, LoopType
<1>14. ASSUME NEW d \in step, CashGate(d)
       PROVE  /\ os'.mode = os.mode /\ client'.adapter = client.adapter
              /\ UNCHANGED <<ctx, facade, wallet, connecting, asking, told, session, moved>>
  BY <1>14, GateFrame
<1> QED
  BY <1>1, <1>2, <1>3, <1>4, <1>5, <1>6, <1>8, <1>9, <1>10, <1>11, <1>12, <1>13, <1>14
  DEF Inner, Step, CashGate

\* A step that begins is of the account of the facade, one that goes on of
\* the account it had.
New(e) == e.of = facade.account.of
LEMMA InnerStep ==
    ASSUME TypeInv, Inner
    PROVE  /\ \/ step' = {}
              \/ app' = app /\ app # "stopped"
                 /\ \E e : step' = {e} /\ (New(e) \/ \E d \in step : e = [d EXCEPT !.at = e.at] \/ e = d)
           /\ app' # "stopped" => app # "stopped"
<1>1. ASSUME NEW d \in step, NEW where \in Station, Goes(d, where)
      PROVE  \E e : step' = {e} /\ \E d1 \in step : e = [d1 EXCEPT !.at = e.at]
  <2> DEFINE e == [d EXCEPT !.at = where]
  <2>1. e.at = where
    BY DEF TypeInv, TypeOK, StepType
  <2>2. step' = {e}
    BY <1>1 DEF Goes
  <2>3. e = [d EXCEPT !.at = e.at]
    BY <2>1
  <2> HIDE DEF e
  <2> QED
    BY <2>2, <2>3
<1>2. ASSUME NEW where, Await(where)
      PROVE  \E e : step' = {e} /\ New(e)
  <2> DEFINE e == [at |-> where, of |-> facade.account.of, mode |-> Mode, key |-> {}, proxy |-> {}]
  <2>1. step' = {e} /\ New(e)
    BY <1>2 DEF Await, New
  <2> HIDE DEF e
  <2> QED
    BY <2>1
<1>3. ASSUME NEW d \in step
      PROVE  app # "stopped"
  BY DEF TypeInv, SessionInv
<1>4. CASE Poll
  <2>1. app' = app /\ app # "stopped"
    BY <1>4 DEF Poll, appVars
  <2>2. CASE Await("check") \/ Await("service")
    BY <1>2, <2>1, <2>2
  <2>3. CASE \E r \in Stored : \E p \in {q \in r.account : q.mode = Mode} :
                step' = {[at |-> "stored", of |-> facade.account.of, mode |-> Mode,
                          key |-> {r.key}, proxy |-> {p}]}
    <3>0. PICK r \in Stored : \E p : step' = {[at |-> "stored", of |-> facade.account.of, mode |-> Mode,
                                                key |-> {r.key}, proxy |-> {p}]}
      BY <2>3
    <3>1. PICK p : step' = {[at |-> "stored", of |-> facade.account.of, mode |-> Mode,
                             key |-> {r.key}, proxy |-> {p}]}
      BY <3>0
    <3> DEFINE e == [at |-> "stored", of |-> facade.account.of, mode |-> Mode, key |-> {r.key}, proxy |-> {p}]
    <3>2. step' = {e} /\ New(e)
      BY <3>1 DEF New
    <3> HIDE DEF e
    <3> QED
      BY <2>1, <3>2
  <2> QED
    BY <1>4, <2>2, <2>3 DEF Poll
<1>5. CASE Commands
  <2>1. app' = app /\ app # "stopped" /\ step = {}
    BY <1>5 DEF Commands, BeginLogin, SignaturePairX, TryAquirePublicKey, Command, appVars
  <2>2. CASE BeginLogin
    <3> DEFINE e == [at |-> "login", of |-> facade.account.of, mode |-> Mode, key |-> ctx.enc, proxy |-> {}]
    <3>1. (step' = {e} \/ step' = {}) /\ New(e)
      BY <2>1, <2>2 DEF BeginLogin, New
    <3> HIDE DEF e
    <3> QED
      BY <2>1, <3>1
  <2>3. CASE SignaturePairX
    <3> DEFINE e == [at |-> "register", of |-> facade.account.of, mode |-> Mode, proxy |-> {},
                     key |-> IF ctx.key # {} THEN ctx.key ELSE {NewKey(facade.account.of)}]
    <3>1. step' = {e} /\ New(e)
      BY <2>3 DEF SignaturePairX, New
    <3> HIDE DEF e
    <3> QED
      BY <2>1, <3>1
  <2>4. CASE TryAquirePublicKey
    BY <2>1, <2>4 DEF TryAquirePublicKey
  <2> QED
    BY <1>5, <2>2, <2>3, <2>4 DEF Commands
<1>6. ASSUME NEW d \in step, CheckStored(d)
      PROVE  app' = app /\ \E e : step' = {e} /\ (New(e) \/ \E d1 \in step : e = [d1 EXCEPT !.at = e.at])
  BY <1>1, <1>2, <1>6 DEF CheckStored, appVars, Station
<1>7. ASSUME NEW d \in step, ServiceAnswers(d)
      PROVE  app' = app /\ \E e : step' = {e} /\ \E d1 \in step : e = [d1 EXCEPT !.at = e.at]
  BY <1>1, <1>7 DEF ServiceAnswers, appVars, Station
<1>8. ASSUME NEW d \in step,
             \/ CheckDelegationMode(d) \/ CheckShimmerMode(d) \/ CheckImpersonationMode(d)
             \/ CheckProfile(d) \/ Login(d) \/ RegisterPairX(d) \/ StepFails(d)
      PROVE  \/ Ends \/ Rests
             \/ app' = app /\ \E e : step' = {e} /\ \E d1 \in step : e = [d1 EXCEPT !.at = e.at]
  <2>1. Ends \/ Rests \/ (app' = app /\ (Goes(d, "cash") \/ Goes(d, "last")))
    BY <1>8 DEF CheckDelegationMode, CheckShimmerMode, CheckImpersonationMode, CheckProfile, Login,
                RegisterPairX, StepFails
  <2> QED
    BY <1>1, <2>1 DEF Station
<1>9. CASE \E q \in requests : ProfilesAnswered(q)
  <2>1. app' = app /\ step' = step
    BY <1>9 DEF ProfilesAnswered, appVars
  <2>2. CASE step # {}
    <3>1. PICK d \in step : step = {d}
      BY <2>2 DEF TypeInv, SessionInv, AtMostOne
    <3> QED
      BY <1>3, <2>1, <3>1
  <2> QED
    BY <2>1, <2>2
<1>10. ASSUME NEW d \in step, CashGate(d)
       PROVE  \/ Ends \/ Rests
              \/ app' = app /\ \E e : step' = {e} /\ \E d1 \in step : e = [d1 EXCEPT !.at = e.at]
  <2>1. \/ Ends \/ Rests
        \/ app' = app /\ (Goes(d, "balance") \/ Goes(d, "consolidate") \/ Goes(d, "rest"))
    BY <1>10, GateFrame DEF TypeInv
  <2> QED
    BY <1>1, <2>1 DEF Station
<1> QED
  BY <1>3, <1>4, <1>5, <1>6, <1>7, <1>8, <1>9, <1>10 DEF Inner, Step, CashGate, Ends, Rests

LEMMA InnerRequests ==
    ASSUME TypeInv, Inner
    PROVE  \A q \in requests' : q \in requests \/ (app # "stopped" /\ q.of = facade.account.of /\ q.by = session)
<1>1. Poll \/ (\E q \in requests : ProfilesAnswered(q)) \/ requests' = requests
  BY DEF Inner, Commands, BeginLogin, SignaturePairX, TryAquirePublicKey, Step, CheckStored, ServiceAnswers,
         CheckDelegationMode, CheckShimmerMode, CheckImpersonationMode, CheckProfile, Login, RegisterPairX,
         StepFails,
         CashInit, ConsolidateIfNeeded, CheckBalance, PrepareOrClean
<1> QED
  BY <1>1 DEF Poll, TryRefreshProfileList, ProfilesAnswered

LEMMA SessionInner ==
    ASSUME TypeInv, Inner
    PROVE  SessionInv'
<1>1. /\ ctx'.account = ctx.account /\ os'.mode = os.mode
      /\ facade'.account = facade.account /\ client'.adapter = client.adapter
      /\ UNCHANGED <<wallet, connecting, asking, told, session, moved>>
  BY InnerFrame
<1>2. /\ \/ step' = {}
         \/ app' = app /\ app # "stopped"
            /\ \E e : step' = {e} /\ (New(e) \/ \E d \in step : e = [d EXCEPT !.at = e.at] \/ e = d)
      /\ app' # "stopped" => app # "stopped"
  BY InnerStep
<1>3. \A q \in requests' : q \in requests \/ (app # "stopped" /\ q.of = facade.account.of /\ q.by = session)
  BY InnerRequests
<1>4. ASSUME NEW d \in step, NEW e, e = [d EXCEPT !.at = e.at] \/ e = d
      PROVE  e.of = d.of
  BY <1>4 DEF TypeInv, TypeOK, StepType
<1>5. AtMostOne(step)' /\ (app' = "stopped" => step' = {})
  BY <1>2 DEF AtMostOne
<1>6. AtMostOne(ctx.account)' /\ AtMostOne(told)' /\ client'.adapter = facade'.account
  BY <1>1 DEF TypeInv, SessionInv, AtMostOne
<1>7. app' # "stopped" \/ requests' # {} => ctx'.account # {}
  BY <1>1, <1>2, <1>3 DEF TypeInv, SessionInv
<1>8. ~moved' => asking' = {} /\ \A a \in ctx'.account : facade'.account = a /\ os'.mode = a.mode
  BY <1>1 DEF TypeInv, SessionInv
<1>9. \A q \in requests' : q.by <= session' /\ (q.by = session' /\ ~moved' => \A a \in ctx'.account : q.of = a.of)
  BY <1>1, <1>3 DEF TypeInv, SessionInv, TypeOK
<1>10. ASSUME NEW e \in step', NEW a \in ctx'.account, ~moved'
       PROVE  e.of = a.of
  <2>1. New(e) \/ \E d \in step : e = [d EXCEPT !.at = e.at] \/ e = d
    BY <1>2
  <2> QED
    BY <1>1, <1>4, <1>10, <2>1 DEF New, TypeInv, SessionInv
<1> QED
  BY <1>5, <1>6, <1>7, <1>8, <1>9, <1>10 DEF SessionInv

LEMMA SessionOuter ==
    ASSUME TypeInv, Outer
    PROVE  SessionInv'
<1> USE DEF walletVars, appVars, outerVars, historyVars, TypeInv
<1>1. CASE Stop
  BY <1>1 DEF Stop, SessionInv, AtMostOne
<1>2. CASE CallLogin \/ CallRegister
  BY <1>2 DEF CallLogin, CallRegister, SessionInv, AtMostOne
<1>3. CASE TimePasses
  <2>1. os'.mode = os.mode
    BY <1>3 DEF TimePasses, TypeOK, LoopType
  <2> QED
    BY <1>3, <2>1 DEF TimePasses, SessionInv, AtMostOne
<1>4. ASSUME NEW a \in Account, WalletChanges(a)
      PROVE  SessionInv'
  BY <1>4 DEF WalletChanges, SessionInv, AtMostOne
<1>5. ASSUME NEW a \in Account, MetaMaskAccountChanged(a) \/ AccountsChanged(a)
      PROVE  SessionInv'
  <2>1. Switch(a)
    BY <1>5 DEF MetaMaskAccountChanged, AccountsChanged
  <2>2. facade'.account = a /\ client'.adapter = a /\ moved' = TRUE
    BY <2>1 DEF Switch, ClearAddress, SwitchAddress, TypeOK
  <2>3. AtMostOne(told)'
    BY <2>1 DEF Switch, AtMostOne, SessionInv
  <2> QED
    BY <1>5, <2>2, <2>3 DEF MetaMaskAccountChanged, AccountsChanged, SessionInv, AtMostOne
<1>6. ASSUME NEW a \in Account, ProxyAnswered(a)
      PROVE  SessionInv'
  <2>1. facade'.account = facade.account /\ AtMostOne(told)'
    BY <1>6 DEF ProxyAnswered, TypeOK, AtMostOne
  <2> QED
    BY <1>6, <2>1 DEF ProxyAnswered, SessionInv, AtMostOne
<1>7. ASSUME NEW a \in Account, ChangeFails(a)
      PROVE  SessionInv'
  BY <1>7 DEF ChangeFails, SessionInv, AtMostOne
<1>8. ASSUME NEW a \in Account, Start(a)
      PROVE  SessionInv'
  <2>1. ctx'.account = {a} /\ os'.mode = Mode /\ step' = {} /\ told' = {} /\ session' = session + 1
    BY <1>8 DEF Start, SessionInv, Context, Loop
  <2>2. \A q \in requests' : q.by < session'
    BY <1>8, <2>1 DEF Start, SessionInv, TypeOK
  <2>3. facade' = facade /\ client' = client /\ asking' = asking /\ requests' = requests
        /\ (moved' <=> (facade.account # a \/ asking # {}))
    BY <1>8 DEF Start
  <2>4. \A q \in requests' : q.by <= session' /\ q.by # session'
    BY <1>8, <2>1, <2>2 DEF Start, TypeOK
  <2>5. ~moved' => asking' = {} /\ \A x \in ctx'.account : facade'.account = x /\ os'.mode = x.mode
    BY <2>1, <2>3 DEF Mode
  <2>6. AtMostOne(step)' /\ AtMostOne(ctx.account)' /\ AtMostOne(told)'
    BY <2>1 DEF AtMostOne
  <2>7. client'.adapter = facade'.account
    BY <2>3 DEF SessionInv
  <2> QED
    BY <2>1, <2>4, <2>5, <2>6, <2>7 DEF SessionInv
<1>9. ASSUME NEW q \in requests, ProfilesFail(q)
      PROVE  SessionInv'
  BY <1>9 DEF ProfilesFail, SessionInv, AtMostOne
<1>10. ASSUME NEW a \in Address, ForeignRegister(a) \/ ForeignProfile(a) \/ ForeignFunds(a)
       PROVE  SessionInv'
  BY <1>10 DEF ForeignRegister, ForeignProfile, ForeignFunds, SessionInv, AtMostOne
<1> QED
  BY <1>1, <1>2, <1>3, <1>4, <1>5, <1>6, <1>7, <1>8, <1>9, <1>10 DEF Outer

LEMMA TypeInvInit ==
    ASSUME Init
    PROVE  TypeInv
<1>1. SessionInv
  BY DEF Init, SessionInv, AtMostOne, Context
<1> QED
  BY <1>1, TypeInit DEF TypeInv

LEMMA NextIs ==
    ASSUME Next
    PROVE  Inner \/ Outer
BY DEF Next, Work, Profiles, Outer, Inner

LEMMA TypeInvNext ==
    ASSUME TypeInv, [Next]_vars
    PROVE  TypeInv'
BY TypeNext, TypeKept, SessionInner, SessionOuter, NextIs DEF TypeInv

\* The types are right, in every state.
THEOREM TypeCorrect == Spec => []TypeOK
<1>1. Init => TypeInv
  BY TypeInvInit
<1>2. TypeInv /\ [Next]_vars => TypeInv'
  BY TypeInvNext
<1>3. TypeInv => TypeOK
  BY DEF TypeInv
<1> QED
  BY <1>1, <1>2, <1>3, PTL DEF Spec

-----------------------------------------------------------------------------
(* Where what a session holds comes from.                                  *)

LEMMA ContextFrame ==
    ASSUME Inner
    PROVE  \/ ctx' = ctx
           \/ \E d \in step : CheckStored(d) \/ ServiceAnswers(d) \/ Login(d) \/ RegisterPairX(d)
           \/ \E q \in requests : ProfilesAnswered(q)
BY DEF Inner, Commands, Poll, BeginLogin, SignaturePairX, TryAquirePublicKey, Step, CheckDelegationMode,
       CheckShimmerMode, CheckImpersonationMode, CheckProfile, StepFails,
       CashInit, ConsolidateIfNeeded, CheckBalance, PrepareOrClean

LEMMA ServiceFrame ==
    ASSUME Inner
    PROVE  service' = service \/ \E d \in step : RegisterPairX(d)
BY DEF Inner, Commands, Poll, BeginLogin, SignaturePairX, TryAquirePublicKey, Step, CheckDelegationMode,
       CheckShimmerMode, CheckImpersonationMode, CheckProfile, StepFails, CheckStored, ServiceAnswers, Login,
       ProfilesAnswered, outerVars,
       CashInit, ConsolidateIfNeeded, CheckBalance, PrepareOrClean

LEMMA StorageFrame ==
    ASSUME Inner
    PROVE  \/ UNCHANGED storage /\ \A x \in tainted : x \in tainted'
           \/ \E d \in step : CheckStored(d) \/ CheckImpersonationMode(d)
           \/ \E q \in requests : ProfilesAnswered(q)
BY DEF Inner, Commands, Poll, BeginLogin, SignaturePairX, TryAquirePublicKey, Step, CheckDelegationMode,
       CheckShimmerMode, CheckProfile, StepFails, ServiceAnswers, Login, RegisterPairX, RegistersKey,
       historyVars,
       CashInit, ConsolidateIfNeeded, CheckBalance, PrepareOrClean

\* A key comes from the step that waited.
LEMMA KeyNext ==
    ASSUME TypeInv, Inner
    PROVE  \A k \in ctx'.key : k \in ctx.key \/ \E d \in step : k \in d.key
<1>1. ASSUME NEW d \in step, CheckStored(d) \/ Login(d) \/ RegisterPairX(d)
      PROVE  ctx'.key = ctx.key \/ ctx'.key = d.key
  BY <1>1 DEF CheckStored, Login, RegisterPairX, TypeInv, TypeOK
<1>2. ASSUME NEW d \in step, ServiceAnswers(d)
      PROVE  ctx'.key = ctx.key
  BY <1>2 DEF ServiceAnswers, TypeInv, TypeOK
<1>3. ASSUME NEW q \in requests, ProfilesAnswered(q)
      PROVE  ctx'.key = ctx.key
  BY <1>3 DEF ProfilesAnswered, TypeInv, TypeOK
<1> QED
  BY <1>1, <1>2, <1>3, ContextFrame

\* A key to decrypt, and the proxies with it, come from the service.
LEMMA EncNext ==
    ASSUME TypeInv, Inner
    PROVE  \A k \in ctx'.enc : k \in ctx.enc \/ \E d \in step : \E r \in service[d.of] : k = r.key
<1>1. ASSUME NEW d \in step, CheckStored(d) \/ Login(d) \/ RegisterPairX(d)
      PROVE  ctx'.enc = ctx.enc
  BY <1>1 DEF CheckStored, Login, RegisterPairX, TypeInv, TypeOK
<1>2. ASSUME NEW d \in step, ServiceAnswers(d)
      PROVE  \A k \in ctx'.enc : k \in ctx.enc \/ \E r \in service[d.of] : k = r.key
  BY <1>2 DEF ServiceAnswers, TypeInv, TypeOK
<1>3. ASSUME NEW q \in requests, ProfilesAnswered(q)
      PROVE  ctx'.enc = ctx.enc
  BY <1>3 DEF ProfilesAnswered, TypeInv, TypeOK
<1> QED
  BY <1>1, <1>2, <1>3, ContextFrame

LEMMA InfoNext ==
    ASSUME TypeInv, Inner
    PROVE  \A p \in os'.info : p \in os.info \/ \E d \in step : p.of = d.of
<1> USE DEF TypeInv, TypeOK, LoopType
<1>1. ASSUME NEW d \in step, ServiceAnswers(d)
      PROVE  \A p \in os'.info : p \in os.info \/ p.of = d.of
  <2> DEFINE known == {r \in service[d.of] : Valid({r.key}, IF r.mm THEN {Proxy(d.of, "delegation")} ELSE {})}
             mm == IF \E r \in known : r.mm THEN {Proxy(d.of, "delegation")} ELSE {}
             tp == IF \E r \in known : r.tp THEN {Proxy(d.of, "impersonation")} ELSE {}
  <2>1. os' = [os EXCEPT !.due = FALSE,
                         !.info = mm \union tp \union {p \in @ : p.mode \notin {q.mode : q \in mm \union tp}}]
    BY <1>1 DEF ServiceAnswers
  <2>2. \A p \in mm \union tp : p.of = d.of
    BY DEF Proxy
  <2> HIDE DEF mm, tp
  <2> QED
    BY <2>1, <2>2
<1>2. ASSUME NEW d \in step, CheckStored(d) \/ RegisterPairX(d)
      PROVE  os'.info = os.info
  BY <1>2 DEF CheckStored, RegisterPairX
<1>3. ASSUME NEW d \in step, \/ CheckDelegationMode(d) \/ CheckShimmerMode(d) \/ CheckImpersonationMode(d)
                             \/ CheckProfile(d)
      PROVE  os'.info = os.info
  BY <1>3 DEF CheckDelegationMode, CheckShimmerMode, CheckImpersonationMode, CheckProfile
<1>4. ASSUME NEW q \in requests, ProfilesAnswered(q)
      PROVE  os'.info = os.info
  BY <1>4 DEF ProfilesAnswered
<1>5. CASE Poll
  BY <1>5 DEF Poll
<1>6. ASSUME NEW d \in step, Login(d) \/ StepFails(d)
      PROVE  os' = os
  BY <1>6 DEF Login, StepFails
<1>7. ASSUME Commands
      PROVE  os' = os
  BY <1>7 DEF Commands, BeginLogin, SignaturePairX, TryAquirePublicKey
<1>8. ASSUME NEW d \in step, CashGate(d)
      PROVE  os'.info = os.info
  BY <1>8, GateFrame
<1> QED
  BY <1>1, <1>2, <1>3, <1>4, <1>5, <1>6, <1>7, <1>8 DEF Inner, Step, CashGate

LEMMA ProfileNext ==
    ASSUME TypeInv, Inner
    PROVE  /\ late => late'
           /\ \/ ctx'.profile = ctx.profile
              \/ \E q \in requests : /\ ctx'.profile \subseteq {q.of}
                                     /\ late' \/ q.by = session
<1>1. ASSUME NEW d \in step, CheckStored(d) \/ Login(d) \/ RegisterPairX(d)
      PROVE  ctx'.profile = ctx.profile
  BY <1>1 DEF CheckStored, Login, RegisterPairX, TypeInv, TypeOK
<1>2. ASSUME NEW d \in step, ServiceAnswers(d)
      PROVE  ctx'.profile = ctx.profile
  BY <1>2 DEF ServiceAnswers, TypeInv, TypeOK
<1>3. ASSUME NEW q \in requests, ProfilesAnswered(q)
      PROVE  ctx'.profile \subseteq {q.of} /\ (late' \/ q.by = session)
  BY <1>3 DEF ProfilesAnswered, TypeInv, TypeOK
<1>4. late => late'
  BY DEF Inner, Commands, Poll, BeginLogin, SignaturePairX, TryAquirePublicKey, Step, CheckDelegationMode,
         CheckShimmerMode, CheckImpersonationMode, CheckProfile, StepFails, CheckStored, ServiceAnswers, Login,
         RegisterPairX, ProfilesAnswered, historyVars,
         CashInit, ConsolidateIfNeeded, CheckBalance, PrepareOrClean
<1> QED
  BY <1>1, <1>2, <1>3, <1>4, ContextFrame

LEMMA StepNext ==
    ASSUME TypeInv, Inner, NEW e \in step'
    PROVE  /\ \A k \in e.key : \/ k \in ctx.key \/ k \in ctx.enc \/ k.of = facade.account.of
                               \/ \E d \in step : k \in d.key
                               \/ \E r \in storage[Prefix].reg : k = r.key
           /\ \A p \in e.proxy : \/ \E d \in step : p \in d.proxy
                                 \/ \E r \in storage[Prefix].reg : p \in r.account /\ p.mode = Mode
<1>1. ASSUME NEW d \in step, NEW where, Goes(d, where)
      PROVE  e.key = d.key /\ e.proxy = d.proxy
  BY <1>1 DEF Goes, TypeInv, TypeOK, StepType
<1>2. ASSUME NEW where, Await(where)
      PROVE  e.key = {} /\ e.proxy = {}
  BY <1>2 DEF Await
<1>3. CASE Poll
  <2>1. CASE Await("check") \/ Await("service")
    BY <1>2, <2>1
  <2>2. CASE \E r \in Stored : \E p \in {q \in r.account : q.mode = Mode} :
                step' = {[at |-> "stored", of |-> facade.account.of, mode |-> Mode,
                          key |-> {r.key}, proxy |-> {p}]}
    BY <2>2 DEF Stored
  <2> QED
    BY <1>3, <2>1, <2>2 DEF Poll
<1>4. CASE BeginLogin
  BY <1>4 DEF BeginLogin, Command
<1>5. CASE SignaturePairX
  BY <1>5 DEF SignaturePairX, NewKey
<1>6. CASE TryAquirePublicKey
  BY <1>6 DEF TryAquirePublicKey
<1>7. ASSUME NEW d \in step, CheckStored(d)
      PROVE  \/ e.key = d.key /\ e.proxy = d.proxy
             \/ e.key = {} /\ e.proxy = {}
  BY <1>1, <1>2, <1>7 DEF CheckStored
<1>8. ASSUME NEW d \in step, ServiceAnswers(d)
      PROVE  e.key = d.key /\ e.proxy = d.proxy
  BY <1>1, <1>8 DEF ServiceAnswers
<1>9. ASSUME NEW d \in step, \/ CheckDelegationMode(d) \/ CheckShimmerMode(d) \/ CheckImpersonationMode(d)
                             \/ CheckProfile(d) \/ Login(d) \/ RegisterPairX(d) \/ StepFails(d)
      PROVE  e.key = d.key /\ e.proxy = d.proxy
  <2>1. Goes(d, "cash") \/ Goes(d, "last")
    BY <1>9 DEF CheckDelegationMode, CheckShimmerMode, CheckImpersonationMode, CheckProfile, Login,
                RegisterPairX, StepFails, Ends, Rests
  <2> QED
    BY <1>1, <2>1
<1>10. CASE \E q \in requests : ProfilesAnswered(q)
  BY <1>10 DEF ProfilesAnswered
<1>11. ASSUME NEW d \in step, CashGate(d)
       PROVE  e.key = d.key /\ e.proxy = d.proxy
  <2>1. Goes(d, "balance") \/ Goes(d, "consolidate") \/ Goes(d, "rest")
    BY <1>11, GateFrame DEF TypeInv, Ends, Rests
  <2> QED
    BY <1>1, <2>1
<1> QED
  BY <1>3, <1>4, <1>5, <1>6, <1>7, <1>8, <1>9, <1>10, <1>11 DEF Inner, Step, CashGate, Commands

\* What a moved loop registers or stores taints the address.
LEMMA ServiceNext ==
    ASSUME TypeInv, Inner, NEW x \in Address
    PROVE  /\ \A y \in tainted : y \in tainted'
           /\ \A r \in service'[x] : \/ \E r0 \in service[x] : r.key = r0.key
                                     \/ \E d \in step : x = d.of /\ r.key \in d.key /\ (moved => x \in tainted')
<1>1. ASSUME NEW d \in step, RegisterPairX(d)
      PROVE  \A r \in service'[x] : \/ \E r0 \in service[x] : r.key = r0.key
                                    \/ x = d.of /\ r.key \in d.key /\ (moved => x \in tainted')
  <2>1. CASE UNCHANGED service
    BY <2>1
  <2>2. CASE RegistersKey(d)
    <3>1. PICK k \in d.key : Registered(d.of, k, d.mode)
      BY <2>2 DEF RegistersKey
    <3>2. x # d.of => service'[x] = service[x]
      BY <3>1 DEF Registered, TypeInv, TypeOK
    <3>3. x = d.of => \A r \in service'[x] : r.key = k
      BY <3>1 DEF Registered, TypeInv, TypeOK
    <3>4. moved => d.of \in tainted'
      BY <2>2 DEF RegistersKey
    <3> QED
      BY <3>1, <3>2, <3>3, <3>4
  <2> QED
    BY <1>1, <2>1, <2>2 DEF RegisterPairX
<1>2. \A y \in tainted : y \in tainted'
  BY StorageFrame DEF CheckStored, CheckImpersonationMode, ProfilesAnswered, Store
<1> QED
  BY <1>1, <1>2, ServiceFrame

LEMMA StorageNext ==
    ASSUME TypeInv, Inner, NEW x \in Address
    PROVE  /\ \A r \in storage'[x].reg : \/ r \in storage[x].reg
                                         \/ /\ x = Prefix /\ (moved => x \in tainted')
                                            /\ r.key \in ctx.key /\ r.account = os.info
           /\ \/ storage'[x].profile = storage[x].profile
              \/ \E q \in requests : /\ x = Prefix /\ (moved \/ q.by # session => x \in tainted')
                                     /\ storage'[x].profile \subseteq {q.of}
<1>1. storage[x] \in StoredType /\ storage \in [Address -> StoredType]
  BY DEF TypeInv, TypeOK
<1>2. ASSUME NEW a \in Address, NEW regs, Store(a, [storage[a] EXCEPT !.reg = regs])
      PROVE  /\ x # a => storage'[x] = storage[x]
             /\ x = a => storage'[x].reg = regs /\ storage'[x].profile = storage[x].profile
             /\ moved => a \in tainted'
  BY <1>1, <1>2 DEF Store, StoredType
<1>3. step # {} \/ requests # {} => Prefix \in Address
  BY InSession, PrefixFacts DEF TypeInv
<1>4. ASSUME NEW d \in step, CheckStored(d)
      PROVE  storage'[x].profile = storage[x].profile /\ \A r \in storage'[x].reg : r \in storage[x].reg
  BY <1>2, <1>3, <1>4 DEF CheckStored
<1>5. ASSUME NEW d \in step, CheckImpersonationMode(d)
      PROVE  /\ storage'[x].profile = storage[x].profile
             /\ \A r \in storage'[x].reg : \/ r \in storage[x].reg
                                           \/ /\ x = Prefix /\ (moved => x \in tainted')
                                              /\ r.key \in ctx.key /\ r.account = os.info
  <2> DEFINE regs == {[key |-> k, account |-> os.info] : k \in ctx.key}
  <2>1. Store(Prefix, [storage[Prefix] EXCEPT !.reg = regs]) \/ UNCHANGED <<storage, tainted>>
    BY <1>5 DEF CheckImpersonationMode
  <2>2. \A r \in regs : r.key \in ctx.key /\ r.account = os.info
    OBVIOUS
  <2> HIDE DEF regs
  <2> QED
    BY <1>2, <1>3, <2>1, <2>2
<1>6. ASSUME NEW q \in requests, ProfilesAnswered(q)
      PROVE  /\ storage'[x].reg = storage[x].reg
             /\ x # Prefix => storage'[x] = storage[x]
             /\ x = Prefix => /\ moved \/ q.by # session => x \in tainted'
                              /\ storage'[x].profile \subseteq {q.of}
  <2>1. storage' = [storage EXCEPT ![Prefix] = [storage[Prefix] EXCEPT !.profile = {q.of} \intersect named]]
    BY <1>6 DEF ProfilesAnswered
  <2>2. moved \/ q.by # session => Prefix \in tainted'
    BY <1>6 DEF ProfilesAnswered
  <2> QED
    BY <1>1, <1>3, <2>1, <2>2 DEF StoredType
<1> QED
  BY <1>4, <1>5, <1>6, StorageFrame

-----------------------------------------------------------------------------
(* What is stored under an address is its own.                             *)

LEMMA OwnInner ==
    ASSUME StoreInv, Inner
    PROVE  OwnInv' /\ StoredIsOwn'
<1>1. ctx'.account = ctx.account /\ facade'.account = facade.account /\ session' = session /\ moved' = moved
  BY InnerFrame DEF StoreInv
<1>2. \A y \in tainted : y \in tainted'
  <2>1. ASSUME NEW y \in tainted
        PROVE  y \in tainted'
    BY ServiceNext DEF StoreInv, TypeInv, TypeOK
  <2> QED
    BY <2>1
<1>3. ASSUME NEW a \in ctx.account, ~moved, a.of \notin tainted
      PROVE  /\ Own(ctx.key, a) /\ Own(ctx.enc, a) /\ Own(os.info, a) /\ (ctx.profile \subseteq {a.of} \/ late)
             /\ \A d \in step : d.of = a.of /\ Own(d.key, a) /\ Own(d.proxy, a)
             /\ \A r \in service[a.of] : r.key.of = a.of
             /\ \A r \in storage[a.of].reg : r.key.of = a.of /\ \A p \in r.account : p.of = a.of
             /\ storage[a.of].profile \subseteq {a.of}
             /\ facade.account = a /\ Prefix = a.of
             /\ \A q \in requests : q.by = session => q.of = a.of
  <2>1. a.of \in Address
    BY AccountFacts DEF StoreInv, TypeInv, TypeOK
  <2>2. Prefix = a.of
    BY PrefixFacts DEF StoreInv, TypeInv, SessionInv
  <2> QED
    BY <1>3, <2>1, <2>2 DEF StoreInv, OwnInv, StoredIsOwn, TypeInv, SessionInv
<1>4. ASSUME NEW a \in ctx'.account, ~moved', a.of \notin tainted'
      PROVE  /\ Own(ctx'.key, a) /\ Own(ctx'.enc, a) /\ Own(os'.info, a)
             /\ ctx'.profile \subseteq {a.of} \/ late'
             /\ \A d \in step' : Own(d.key, a) /\ Own(d.proxy, a)
  <2>1. a \in ctx.account /\ ~moved /\ a.of \notin tainted
    BY <1>1, <1>2, <1>4
  <2>2. Own(ctx'.key, a)
    BY <1>3, <2>1, KeyNext DEF Own, StoreInv
  <2>3. Own(ctx'.enc, a)
    <3>1. ASSUME NEW d \in step, NEW r \in service[d.of]
          PROVE  r.key.of = a.of
      BY <1>3, <2>1
    <3> QED
      BY <1>3, <2>1, <3>1, EncNext DEF Own, StoreInv
  <2>4. Own(os'.info, a)
    BY <1>3, <2>1, InfoNext DEF Own, StoreInv
  <2>5. ctx'.profile \subseteq {a.of} \/ late'
    BY <1>3, <2>1, ProfileNext DEF StoreInv
  <2>6. ASSUME NEW e \in step'
        PROVE  Own(e.key, a) /\ Own(e.proxy, a)
    <3>1. \A r \in storage[Prefix].reg : r.key.of = a.of /\ \A p \in r.account : p.of = a.of
      BY <1>3, <2>1
    <3>2. facade.account = a
      BY <1>3, <2>1
    <3> QED
      BY <1>3, <2>1, <3>1, <3>2, StepNext DEF Own, StoreInv
  <2> QED
    BY <2>2, <2>3, <2>4, <2>5, <2>6
<1>5. ASSUME NEW d \in step, NEW x \in Address, d.of = x, x \notin tainted, ~moved
      PROVE  Own(d.key, [of |-> x])
  <2>1. PICK a \in ctx.account : TRUE
    BY InSession DEF StoreInv, TypeInv
  <2> QED
    BY <1>3, <1>5, <2>1 DEF Own, StoreInv, TypeInv, SessionInv
<1>6. ASSUME NEW x \in Address \ tainted', NEW r \in service'[x]
      PROVE  r.key.of = x
  <2>1. CASE \E r0 \in service[x] : r.key = r0.key
    BY <1>2, <2>1 DEF StoreInv, OwnInv
  <2>2. CASE \E d \in step : x = d.of /\ r.key \in d.key /\ (moved => x \in tainted')
    BY <1>2, <1>5, <2>2 DEF Own
  <2> QED
    BY <2>1, <2>2, ServiceNext DEF StoreInv
<1>7. ASSUME NEW x \in Address \ tainted', x = Prefix, ~moved, step # {} \/ requests # {}
      PROVE  /\ \A k \in ctx.key : k.of = x
             /\ \A p \in os.info : p.of = x
             /\ \A q \in requests : q.by = session => q.of = x
  <2>1. PICK a \in ctx.account : TRUE
    BY <1>7, InSession DEF StoreInv, TypeInv
  <2>2. a.of = x
    BY <1>7, <2>1, PrefixFacts DEF StoreInv, TypeInv, SessionInv
  <2> QED
    BY <1>2, <1>3, <1>7, <2>1, <2>2 DEF Own
<1>8. ASSUME NEW x \in Address \ tainted', NEW r \in storage'[x].reg
      PROVE  r.key.of = x /\ \A p \in r.account : p.of = x
  <2>1. CASE r \in storage[x].reg
    BY <1>2, <2>1 DEF StoreInv, StoredIsOwn
  <2>2. CASE x = Prefix /\ (moved => x \in tainted') /\ r.key \in ctx.key /\ r.account = os.info
    <3>1. CASE r \notin storage[x].reg
      <4>1. step # {} \/ requests # {}
        BY <3>1, StorageFrame
      <4> QED
        BY <1>7, <2>2, <4>1
    <3> QED
      BY <2>1, <3>1
  <2> QED
    BY <2>1, <2>2, StorageNext DEF StoreInv
<1>9. ASSUME NEW x \in Address \ tainted'
      PROVE  storage'[x].profile \subseteq {x}
  <2>1. CASE storage'[x].profile = storage[x].profile
    BY <1>2, <2>1 DEF StoreInv, StoredIsOwn
  <2>2. CASE \E q \in requests : /\ x = Prefix /\ (moved \/ q.by # session => x \in tainted')
                                 /\ storage'[x].profile \subseteq {q.of}
    BY <1>7, <2>2
  <2> QED
    BY <2>1, <2>2, StorageNext DEF StoreInv
<1> QED
  BY <1>4, <1>6, <1>8, <1>9 DEF OwnInv, StoredIsOwn

LEMMA OwnOuter ==
    ASSUME StoreInv, Outer
    PROVE  OwnInv' /\ StoredIsOwn'
<1> USE DEF walletVars, appVars, outerVars, historyVars
<1>1. ASSUME UNCHANGED <<ctx, step, service, storage, tainted, late>>, os'.info = os.info,
             ~moved' => ~moved
      PROVE  OwnInv' /\ StoredIsOwn'
  BY <1>1 DEF StoreInv, OwnInv, StoredIsOwn, Own
<1>2. CASE Stop \/ CallLogin \/ CallRegister
  BY <1>1, <1>2 DEF Stop, CallLogin, CallRegister
<1>3. CASE TimePasses
  <2>1. os'.info = os.info
    BY <1>3 DEF TimePasses, StoreInv, TypeInv, TypeOK, LoopType
  <2> QED
    BY <1>1, <1>3, <2>1 DEF TimePasses
<1>4. ASSUME NEW a \in Account, \/ WalletChanges(a) \/ MetaMaskAccountChanged(a) \/ AccountsChanged(a)
                                \/ ProxyAnswered(a) \/ ChangeFails(a)
      PROVE  OwnInv' /\ StoredIsOwn'
  BY <1>1, <1>4 DEF WalletChanges, MetaMaskAccountChanged, AccountsChanged, ProxyAnswered, ChangeFails, Switch
<1>5. ASSUME NEW q \in requests, ProfilesFail(q)
      PROVE  OwnInv' /\ StoredIsOwn'
  BY <1>1, <1>5 DEF ProfilesFail
<1>6. ASSUME NEW a \in Address, ForeignProfile(a) \/ ForeignFunds(a)
      PROVE  OwnInv' /\ StoredIsOwn'
  BY <1>1, <1>6 DEF ForeignProfile, ForeignFunds
<1>7. ASSUME NEW a \in Address, ForeignRegister(a)
      PROVE  OwnInv' /\ StoredIsOwn'
  <2>1. \A x \in Address : \A r \in service'[x] : (\E r0 \in service[x] : r.key = r0.key) \/ r.key.of = x
    <3>1. Registered(a, NewKey(a), "delegation") /\ NewKey(a).of = a
      BY <1>7 DEF ForeignRegister, NewKey
    <3> QED
      BY <3>1 DEF Registered, StoreInv, TypeInv, TypeOK
  <2>2. UNCHANGED <<ctx, step, os, storage, tainted, late, moved>>
    BY <1>7 DEF ForeignRegister
  <2>3. \A x \in Address \ tainted' : \A r \in service'[x] : r.key.of = x
    BY <2>1, <2>2 DEF StoreInv, OwnInv
  <2>4. StoredIsOwn'
    BY <2>2 DEF StoreInv, StoredIsOwn
  <2>5. OwnInv'
    BY <2>2, <2>3 DEF StoreInv, OwnInv, Own
  <2> QED
    BY <2>4, <2>5
<1>8. ASSUME NEW a \in Account, Start(a)
      PROVE  OwnInv' /\ StoredIsOwn'
  <2>1. UNCHANGED <<service, storage, tainted>> /\ step' = {}
    BY <1>8 DEF Start, StoreInv, TypeInv, SessionInv
  <2>2. StoredIsOwn'
    BY <2>1 DEF StoreInv, StoredIsOwn
  <2>3. /\ ctx'.account = {a} /\ ctx'.key = {} /\ ctx'.enc = {} /\ ctx'.profile = storage[a.of].profile
        /\ os'.info = {}
    BY <1>8 DEF Start, Context, Loop
  <2>4. a.of \notin tainted => storage[a.of].profile \subseteq {a.of}
    BY AccountFacts DEF StoreInv, StoredIsOwn
  <2>5. OwnInv'
    BY <2>1, <2>3, <2>4 DEF StoreInv, OwnInv, Own
  <2> QED
    BY <2>2, <2>5
<1> QED
  BY <1>2, <1>3, <1>4, <1>5, <1>6, <1>7, <1>8 DEF Outer

LEMMA OwnInit ==
    ASSUME Init
    PROVE  OwnInv /\ StoredIsOwn
<1>1. TypeOK
  BY TypeInit
<1>2. ASSUME NEW a \in Address
      PROVE  \A r \in service[a] : r.key.of = a
  <2>1. service[a] \subseteq Registration(a)
    BY BoundsAssumption DEF Init
  <2> QED
    BY <2>1 DEF Registration
<1>3. PICK known : storage = [a \in Address |->
               IF a \in known
               THEN [reg |-> {[key |-> r.key, account |-> {Proxy(a, "delegation")}] : r \in service[a]},
                     profile |-> {a} \intersect left.named]
               ELSE NothingStored]
  BY DEF Init
<1>4. StoredIsOwn
  BY <1>2, <1>3 DEF StoredIsOwn, NothingStored, Proxy
<1>5. OwnInv
  BY <1>2 DEF Init, OwnInv, Context
<1> QED
  BY <1>4, <1>5

LEMMA StoreInvNext ==
    ASSUME StoreInv, [Next]_vars
    PROVE  StoreInv'
<1>1. TypeInv'
  BY TypeInvNext DEF StoreInv
<1>2. CASE UNCHANGED vars
  BY <1>1, <1>2 DEF vars, StoreInv, OwnInv, Own, StoredIsOwn
<1>3. CASE Next
  BY <1>1, <1>3, NextIs, OwnInner, OwnOuter DEF StoreInv
<1> QED
  BY <1>2, <1>3

\* What is stored under an address (the key, the proxies, the profile) is of
\* the address, whatever accounts are used in turn, unless a loop of a moved
\* facade stored something there or registered a key for it.
THEOREM StoredRight == Spec => []StoredIsOwn
<1>1. Init => StoreInv
  BY TypeInvInit, OwnInit DEF StoreInv
<1>2. StoreInv /\ [Next]_vars => StoreInv'
  BY StoreInvNext
<1>3. StoreInv => StoredIsOwn
  BY DEF StoreInv
<1> QED
  BY <1>1, <1>2, <1>3, PTL DEF Spec

-----------------------------------------------------------------------------
(* What a waiting step holds.                                              *)

LEMMA LoggedFrame ==
    ASSUME ctx'.key = ctx.key, ctx'.proxy = ctx.proxy
    PROVE  IsLoggedIn' <=> IsLoggedIn
BY DEF IsLoggedIn

LEMMA GoesFacts ==
    ASSUME TypeInv, NEW d \in step, NEW where \in Station, Goes(d, where)
    PROVE  \A e \in step' : e.at = where /\ e.of = d.of /\ e.key = d.key /\ e.proxy = d.proxy
BY DEF Goes, TypeInv, TypeOK, StepType

LEMMA AwaitFacts ==
    ASSUME NEW where, Await(where)
    PROVE  \A e \in step' : e.at = where /\ e.key = {} /\ e.proxy = {}
BY DEF Await

\* A step that waits and those that may go on.
StationOf(e) ==
    /\ e.at \in {"stored", "login", "register"} => e.key # {}
    /\ e.at = "stored" => e.proxy # {}
    /\ e.at = "register" /\ ctx.key # {} => e.key = ctx.key
    /\ e.at \in {"stored", "service"} => ~IsLoggedIn
    /\ e.at \in {"cash", "balance", "rest"} /\ os.mode = "delegation" => os.set
    /\ e.at = "last" /\ os.mode # "shimmer" => os.set
Flags ==
    /\ os.ready /\ os.mode # "shimmer" => os.set
    /\ os.set => os.mode # "shimmer" /\ IsLoggedIn

LEMMA StationIs == StationInv <=> (\A e \in step : StationOf(e)) /\ Flags
BY DEF StationInv, StationOf, Flags

LEMMA StationInner ==
    ASSUME TypeInv, StationInv, Inner
    PROVE  StationInv'
<1> DEFINE Goal == (\A e \in step' : StationOf(e)') /\ Flags'
<1>1. (\A e \in step : StationOf(e)) /\ Flags
  BY StationIs
<1>2. os'.mode = os.mode
  BY InnerFrame
<1>3. ASSUME Poll
      PROVE  Goal
  <2>1. ctx' = ctx /\ os'.set = os.set /\ os'.ready = os.ready
    BY <1>3 DEF Poll, TypeInv, TypeOK, LoopType
  <2>2. Flags'
    BY <1>1, <1>2, <2>1, LoggedFrame DEF Flags
  <2>3. ASSUME NEW e \in step'
        PROVE  StationOf(e)'
    <3>1. CASE Await("check")
      BY <3>1, AwaitFacts DEF StationOf
    <3>2. CASE Await("service") /\ ~(~(IsCanLoad /\ os.due))
      <4>1. e.at = "service" /\ ~IsLoggedIn
        BY <3>2, AwaitFacts DEF IsCanLoad
      <4> QED
        BY <2>1, <4>1, LoggedFrame DEF StationOf
    <3>3. CASE /\ IsCanLoad
               /\ \E r \in Stored : \E p \in {q \in r.account : q.mode = Mode} :
                     step' = {[at |-> "stored", of |-> facade.account.of, mode |-> Mode,
                               key |-> {r.key}, proxy |-> {p}]}
      <4>1. e.at = "stored" /\ e.key # {} /\ e.proxy # {} /\ ~IsLoggedIn
        BY <3>3 DEF IsCanLoad
      <4> QED
        BY <2>1, <4>1, LoggedFrame DEF StationOf
    <3> QED
      BY <1>3, <3>1, <3>2, <3>3 DEF Poll
  <2> QED
    BY <2>2, <2>3
<1>4. ASSUME Commands
      PROVE  Goal
  <2>1. ctx' = ctx /\ os' = os
    BY <1>4 DEF Commands, BeginLogin, SignaturePairX, TryAquirePublicKey
  <2>2. Flags'
    BY <1>1, <2>1, LoggedFrame DEF Flags
  <2>3. ASSUME NEW e \in step'
        PROVE  StationOf(e)'
    <3>1. CASE BeginLogin
      <4>1. e.at = "login" /\ e.key # {}
        BY <3>1 DEF BeginLogin, Command
      <4> QED
        BY <4>1 DEF StationOf
    <3>2. CASE SignaturePairX
      <4>1. e.at = "register" /\ e.key # {} /\ (ctx.key # {} => e.key = ctx.key)
        BY <3>2 DEF SignaturePairX
      <4> QED
        BY <2>1, <4>1 DEF StationOf
    <3>3. CASE TryAquirePublicKey
      BY <3>3 DEF TryAquirePublicKey, Command
    <3> QED
      BY <1>4, <3>1, <3>2, <3>3 DEF Commands
  <2> QED
    BY <2>2, <2>3
<1>5. ASSUME NEW d \in step, CheckStored(d)
      PROVE  Goal
  <2>1. d.at = "stored" /\ ~IsLoggedIn /\ ~os.set /\ StationOf(d)
    BY <1>1, <1>5 DEF CheckStored, At, StationOf, Flags
  <2>2. os'.set = os.set /\ os'.ready = os.ready
    BY <1>5 DEF CheckStored, TypeInv, TypeOK, LoopType
  <2>3. Flags'
    BY <1>1, <1>2, <2>1, <2>2 DEF Flags
  <2>4. ASSUME NEW e \in step'
        PROVE  StationOf(e)'
    <3>1. CASE Goes(d, "check")
      BY <3>1, GoesFacts DEF StationOf, Station
    <3>2. CASE Await("service") /\ UNCHANGED ctx
      BY <2>1, <3>2, AwaitFacts, LoggedFrame DEF StationOf
    <3> QED
      BY <1>5, <3>1, <3>2 DEF CheckStored
  <2> QED
    BY <2>3, <2>4
<1>6. ASSUME NEW d \in step, ServiceAnswers(d)
      PROVE  Goal
  <2>1. d.at = "service" /\ ~os.set /\ Goes(d, "check")
    BY <1>1, <1>6 DEF ServiceAnswers, At, StationOf, Flags
  <2>2. os'.set = os.set /\ os'.ready = os.ready
    BY <1>6 DEF ServiceAnswers, TypeInv, TypeOK, LoopType
  <2>3. Flags'
    BY <1>1, <1>2, <2>1, <2>2 DEF Flags
  <2> QED
    BY <2>1, <2>3, GoesFacts DEF StationOf, Station
<1>7. ASSUME NEW d \in step, CheckDelegationMode(d)
      PROVE  Goal
  <2>1. ctx' = ctx /\ os'.ready = os.ready
    BY <1>7 DEF CheckDelegationMode, TypeInv, TypeOK, LoopType
  <2>2. CASE Goes(d, "cash") /\ os' = os /\ (os.mode # "delegation" \/ (IsLoggedIn /\ os.set))
    <3>1. Flags'
      BY <1>1, <2>1, <2>2, LoggedFrame DEF Flags
    <3> QED
      BY <2>2, <3>1, GoesFacts DEF StationOf, Station
  <2>3. CASE Rests /\ os' = [os EXCEPT !.set = @ \/ IsLoggedIn] /\ os.mode = "delegation"
    <3>1. os'.set <=> os.set \/ IsLoggedIn
      BY <2>3 DEF TypeInv, TypeOK, LoopType
    <3>2. Flags'
      BY <1>1, <1>2, <2>1, <2>3, <3>1, LoggedFrame DEF Flags
    <3> QED
      BY <2>3, <3>2 DEF Ends, Rests
  <2> QED
    BY <1>7, <2>2, <2>3 DEF CheckDelegationMode
<1>8. ASSUME NEW d \in step, CheckShimmerMode(d)
      PROVE  Goal
  <2>1. ctx' = ctx /\ os'.ready = os.ready /\ os'.set = os.set /\ os.mode = "shimmer"
    BY <1>8 DEF CheckShimmerMode, TypeInv, TypeOK, LoopType
  <2>2. Flags'
    BY <1>1, <1>2, <2>1, LoggedFrame DEF Flags
  <2>3. Goes(d, "last") \/ step' = {}
    BY <1>8 DEF CheckShimmerMode, Ends, Rests
  <2> QED
    BY <1>2, <2>1, <2>2, <2>3, GoesFacts DEF StationOf, Station
<1>9. ASSUME NEW d \in step, CheckImpersonationMode(d)
      PROVE  Goal
  <2>1. ctx' = ctx /\ os'.ready = os.ready /\ os.mode # "shimmer" /\ os.mode \in Modes
    BY <1>9 DEF CheckImpersonationMode, TypeInv, TypeOK, LoopType
  <2>2. CASE Rests /\ os' = os
    <3>1. Flags'
      BY <1>1, <2>1, <2>2, LoggedFrame DEF Flags
    <3> QED
      BY <2>2, <3>1 DEF Ends, Rests
  <2>3. CASE /\ IsLoggedIn \/ os.mode = "delegation"
             /\ Goes(d, "last")
             /\ os' = [os EXCEPT !.set = @ \/ (os.mode = "impersonation" /\ ~os.set), !.need = FALSE]
    <3>1. d.at = "rest" /\ StationOf(d)
      BY <1>1, <1>9 DEF CheckImpersonationMode, At
    <3>2. os'.set <=> os.set \/ os.mode = "impersonation"
      BY <2>3 DEF TypeInv, TypeOK, LoopType
    <3>3. os'.set
      BY <2>1, <3>1, <3>2 DEF StationOf, Modes
    <3>4. IsLoggedIn
      BY <1>1, <2>1, <2>3, <3>1 DEF StationOf, Flags
    <3>5. Flags'
      BY <1>2, <2>1, <3>3, <3>4, LoggedFrame DEF Flags
    <3> QED
      BY <2>3, <3>3, <3>5, GoesFacts DEF StationOf, Station
  <2> QED
    BY <1>9, <2>2, <2>3 DEF CheckImpersonationMode
<1>10. ASSUME NEW d \in step, CheckProfile(d)
       PROVE  Goal
  <2>1. ctx' = ctx /\ os'.set = os.set /\ step' = {}
    BY <1>10 DEF CheckProfile, Ends, Rests, TypeInv, TypeOK, LoopType
  <2>2. os.mode # "shimmer" => os.set
    BY <1>1, <1>10 DEF CheckProfile, At, StationOf
  <2>3. Flags'
    BY <1>1, <1>2, <2>1, <2>2, LoggedFrame DEF Flags
  <2> QED
    BY <2>1, <2>3
<1>11. ASSUME NEW d \in step, StepFails(d)
       PROVE  Goal
  BY <1>1, <1>11, LoggedFrame DEF StepFails, Ends, Rests, Flags
<1>12. ASSUME NEW d \in step, Login(d) \/ RegisterPairX(d)
       PROVE  Goal
  <2>1. d.key # {}
    BY <1>1, <1>12 DEF Login, RegisterPairX, At, StationOf
  <2>2. os'.set = os.set /\ os'.ready = os.ready /\ step' = {}
    BY <1>12 DEF Login, RegisterPairX, Ends, Rests, TypeInv, TypeOK, LoopType
  <2>3. (ctx'.key = d.key \/ ctx'.key = ctx.key) /\ ctx'.proxy = ctx.proxy
    BY <1>12 DEF Login, RegisterPairX, TypeInv, TypeOK
  <2>4. IsLoggedIn => IsLoggedIn'
    BY <2>1, <2>3 DEF IsLoggedIn
  <2>5. Flags'
    BY <1>1, <1>2, <2>2, <2>4 DEF Flags
  <2> QED
    BY <2>2, <2>5
<1>13. ASSUME NEW q \in requests, ProfilesAnswered(q)
       PROVE  Goal
  <2>1. /\ os'.set = os.set /\ os'.ready = os.ready /\ step' = step
        /\ ctx'.key = ctx.key /\ ctx'.proxy = ctx.proxy
    BY <1>13 DEF ProfilesAnswered, TypeInv, TypeOK, LoopType
  <2>2. Flags'
    BY <1>1, <1>2, <2>1, LoggedFrame DEF Flags
  <2> QED
    BY <1>1, <1>2, <2>1, <2>2, LoggedFrame DEF StationOf
<1>15. ASSUME NEW d \in step, CashGate(d)
       PROVE  Goal
  <2>1. ctx' = ctx /\ os'.set = os.set /\ os'.ready = os.ready
    BY <1>15, GateFrame DEF TypeInv
  <2>2. Flags'
    BY <1>1, <1>2, <2>1, LoggedFrame DEF Flags
  <2>3. \/ step' = {}
        \/ d.at = "cash" /\ (Goes(d, "balance") \/ Goes(d, "consolidate"))
        \/ d.at = "balance" /\ Goes(d, "rest")
    BY <1>15, GateFrame DEF TypeInv, Ends, Rests
  <2>4. \A e \in step' : /\ e.at \in {"balance", "consolidate", "rest"}
                         /\ d.at \in {"cash", "balance"}
    BY <2>3, GoesFacts DEF Station
  <2>5. \A e \in step' : StationOf(e)'
    BY <1>1, <1>2, <2>1, <2>4 DEF StationOf
  <2> QED
    BY <2>2, <2>5
<1> HIDE DEF Goal
<1>14. Goal
  BY <1>3, <1>4, <1>5, <1>6, <1>7, <1>8, <1>9, <1>10, <1>11, <1>12, <1>13, <1>15 DEF Inner, Step, CashGate
<1> QED
  BY <1>14 DEF Goal, StationInv, StationOf, Flags

LEMMA StationOuter ==
    ASSUME TypeInv, StationInv, Outer
    PROVE  StationInv'
<1> USE DEF walletVars, appVars, outerVars, historyVars
<1>1. ASSUME UNCHANGED <<ctx, step>>, os'.mode = os.mode, os'.set = os.set, os'.ready = os.ready
      PROVE  StationInv'
  BY <1>1, LoggedFrame DEF StationInv
<1>2. CASE TimePasses
  <2>1. os'.mode = os.mode /\ os'.set = os.set /\ os'.ready = os.ready
    BY <1>2 DEF TimePasses, TypeInv, TypeOK, LoopType
  <2> QED
    BY <1>1, <1>2, <2>1 DEF TimePasses
<1>3. CASE Stop \/ CallLogin \/ CallRegister
  BY <1>1, <1>3 DEF Stop, CallLogin, CallRegister
<1>4. ASSUME NEW a \in Account, \/ WalletChanges(a) \/ MetaMaskAccountChanged(a) \/ AccountsChanged(a)
                                \/ ProxyAnswered(a) \/ ChangeFails(a)
      PROVE  StationInv'
  BY <1>1, <1>4 DEF WalletChanges, MetaMaskAccountChanged, AccountsChanged, ProxyAnswered, ChangeFails
<1>5. ASSUME NEW q \in requests, ProfilesFail(q)
      PROVE  StationInv'
  BY <1>1, <1>5 DEF ProfilesFail
<1>6. ASSUME NEW a \in Address, ForeignRegister(a) \/ ForeignProfile(a) \/ ForeignFunds(a)
      PROVE  StationInv'
  BY <1>1, <1>6 DEF ForeignRegister, ForeignProfile, ForeignFunds
<1>7. ASSUME NEW a \in Account, Start(a)
      PROVE  StationInv'
  <2>1. step' = {} /\ ~os'.ready /\ ~os'.set
    BY <1>7 DEF Start, TypeInv, SessionInv, Loop
  <2> QED
    BY <2>1 DEF StationInv
<1> QED
  BY <1>2, <1>3, <1>4, <1>5, <1>6, <1>7 DEF Outer

-----------------------------------------------------------------------------
(* What is found, and in which order.                                      *)

LEMMA LoginsGrow ==
    ASSUME TypeOK, NEW name \in {"login", "register", "acquire"}, channel' = Append(channel, name),
           name # "login"
    PROVE  Logins' => Logins
<1>1. channel \in Seq({"login", "register", "acquire"})
  BY DEF TypeOK
<1>2. Len(channel') = Len(channel) + 1 /\ \A i \in 1..Len(channel) : channel'[i] = channel[i]
  BY <1>1, AppendProperties
<1>3. channel'[Len(channel) + 1] = name
  BY <1>1, AppendProperties
<1>4. DOMAIN channel' = 1..(Len(channel) + 1) /\ DOMAIN channel = 1..Len(channel)
  BY <1>1, AppendProperties
<1>5. ASSUME NEW i \in DOMAIN channel', channel'[i] = "login"
      PROVE  i \in DOMAIN channel /\ channel[i] = "login"
  <2>1. i # Len(channel) + 1
    BY <1>3, <1>5
  <2>2. Len(channel) \in Nat
    BY <1>1, LenProperties
  <2>3. i \in 1..Len(channel)
    BY <1>4, <2>1, <2>2
  <2> QED
    BY <1>2, <1>4, <1>5, <2>3
<1> QED
  BY <1>5 DEF Logins

LEMMA LoginsShrink ==
    ASSUME TypeOK, channel # <<>>, channel' = Tail(channel)
    PROVE  Logins' => Logins
<1>1. channel \in Seq({"login", "register", "acquire"})
  BY DEF TypeOK
<1>2. Len(channel') = Len(channel) - 1 /\ Len(channel) \in Nat
      /\ \A i \in 1..Len(channel') : channel'[i] = channel[i + 1]
  BY <1>1, HeadTailProperties, LenProperties
<1>3. DOMAIN channel' = 1..Len(channel') /\ DOMAIN channel = 1..Len(channel)
  BY <1>1, HeadTailProperties, LenProperties
<1>4. ASSUME NEW i \in DOMAIN channel', channel'[i] = "login"
      PROVE  i + 1 \in DOMAIN channel /\ channel[i + 1] = "login"
  BY <1>2, <1>3, <1>4
<1> QED
  BY <1>4 DEF Logins

\* Nothing but a command to log in is one.
LEMMA LoginsNext ==
    ASSUME TypeInv, Inner \/ CallRegister
    PROVE  Logins' => Logins
<1>1. TypeOK
  BY DEF TypeInv
<1>2. \/ channel' = channel
      \/ channel' = Append(channel, "acquire") \/ channel' = Append(channel, "register")
      \/ channel # <<>> /\ channel' = Tail(channel)
  BY DEF Inner, Commands, Poll, BeginLogin, SignaturePairX, TryAquirePublicKey, Command, Step,
         CheckDelegationMode, CheckShimmerMode, CheckImpersonationMode, CheckProfile, StepFails, CheckStored,
         ServiceAnswers, Login, RegisterPairX, ProfilesAnswered, CallRegister,
         CashInit, ConsolidateIfNeeded, CheckBalance, PrepareOrClean
<1>3. channel' = channel => (Logins' => Logins)
  BY DEF Logins
<1> QED
  BY <1>1, <1>2, <1>3, LoginsGrow, LoginsShrink

FlowOf(a) ==
    /\ HasStored(a) /\ ctx.enc # {} => IsLoggedIn
    /\ \A d \in step : /\ d.at = "service" => ~HasStored(a)
                       /\ d.at = "stored" => ctx.enc = {} /\ ~Logins
                       /\ d.at \in {"service", "check", "cash", "balance", "rest", "last"} /\ ctx.key # {} => ~Logins
                       /\ \A p \in d.proxy : p.mode = a.mode

LEMMA SwappedNext ==
    ASSUME Inner
    PROVE  swapped => swapped'
BY DEF Inner, Commands, Poll, BeginLogin, SignaturePairX, TryAquirePublicKey, Step, CheckDelegationMode,
       CheckShimmerMode, CheckImpersonationMode, CheckProfile, StepFails, CheckStored, ServiceAnswers, Login,
       RegisterPairX, ProfilesAnswered, historyVars,
       CashInit, ConsolidateIfNeeded, CheckBalance, PrepareOrClean

LEMMA StoredFrame ==
    ASSUME NEW a, storage'[a.of].reg = storage[a.of].reg
    PROVE  HasStored(a)' <=> HasStored(a)
BY DEF HasStored

\* The loop of the account of the facade looks under the address for its
\* mode.
LEMMA AccountOfLoop ==
    ASSUME TypeInv, NEW a \in ctx.account, ~moved
    PROVE  /\ Prefix = a.of /\ Mode = a.mode /\ facade.account = a /\ client.adapter = a /\ os.mode = a.mode
           /\ a \in Account /\ a.of \in Address /\ a.mode \in Modes /\ asking = {}
           /\ \A d \in step : d.of = a.of
           /\ \A x \in ctx.account : x = a
BY PrefixFacts, AccountFacts DEF TypeInv, TypeOK, SessionInv, AtMostOne, Mode

LEMMA FlowInner ==
    ASSUME TypeInv, StationInv, FlowInv, Inner
    PROVE  FlowInv'
<1> SUFFICES ASSUME NEW a \in ctx'.account, ~moved', ~swapped'
             PROVE  FlowOf(a)'
  BY DEF FlowInv, FlowOf
<1> DEFINE Goal == FlowOf(a)'
<1>1. a \in ctx.account /\ ~moved /\ ~swapped
  BY InnerFrame, SwappedNext
<1>2. FlowOf(a)
  BY <1>1 DEF FlowInv, FlowOf
<1>3. Prefix = a.of /\ Mode = a.mode /\ os.mode = a.mode /\ a.of \in Address
  BY <1>1, AccountOfLoop
<1>4. (\A e \in step : StationOf(e)) /\ Flags
  BY StationIs
<1>5. Logins' => Logins
  BY LoginsNext
<1>6. ASSUME Poll
      PROVE  Goal
  <2>1. UNCHANGED <<ctx, storage, channel>> /\ channel = <<>>
    BY <1>6 DEF Poll
  <2>2. ~Logins'
    BY <1>5, <2>1 DEF Logins
  <2>3. (HasStored(a)' <=> HasStored(a)) /\ (IsLoggedIn' <=> IsLoggedIn)
    BY <2>1, StoredFrame, LoggedFrame
  <2>4. Stored = {} <=> ~HasStored(a)
    BY <1>3 DEF Stored, HasStored
  <2>5. ASSUME NEW e \in step'
        PROVE  /\ e.at = "service" => ~HasStored(a)'
               /\ e.at = "stored" => ctx'.enc = {}
               /\ \A p \in e.proxy : p.mode = a.mode
    <3>1. CASE Await("check")
      BY <3>1, AwaitFacts
    <3>2. CASE Await("service") /\ Stored = {}
      BY <2>3, <2>4, <3>2, AwaitFacts
    <3>3. CASE /\ IsCanLoad /\ Stored # {}
               /\ \E r \in Stored : \E p \in {q \in r.account : q.mode = Mode} :
                     step' = {[at |-> "stored", of |-> facade.account.of, mode |-> Mode,
                               key |-> {r.key}, proxy |-> {p}]}
      <4>1. e.at = "stored" /\ \A p \in e.proxy : p.mode = a.mode
        BY <1>3, <3>3
      <4>2. ctx.enc = {}
        BY <1>2, <2>4, <3>3 DEF FlowOf, IsCanLoad
      <4> QED
        BY <2>1, <4>1, <4>2
    <3> QED
      BY <1>6, <3>1, <3>2, <3>3 DEF Poll
  <2> QED
    BY <1>2, <2>1, <2>2, <2>3, <2>5 DEF FlowOf
<1>7. ASSUME Commands
      PROVE  Goal
  <2>1. UNCHANGED <<ctx, storage>>
    BY <1>7 DEF Commands, BeginLogin, SignaturePairX, TryAquirePublicKey
  <2>2. (HasStored(a)' <=> HasStored(a)) /\ (IsLoggedIn' <=> IsLoggedIn)
    BY <2>1, StoredFrame, LoggedFrame
  <2>3. \A e \in step' : e.at \in {"login", "register"} /\ e.proxy = {}
    BY <1>7 DEF Commands, BeginLogin, SignaturePairX, TryAquirePublicKey, Command
  <2> QED
    BY <1>2, <2>1, <2>2, <2>3 DEF FlowOf
<1>8. ASSUME NEW d \in step, CheckStored(d)
      PROVE  Goal
  <2>1. d.at = "stored" /\ ctx.enc = {} /\ ~Logins' /\ \A p \in d.proxy : p.mode = a.mode
    BY <1>2, <1>5, <1>8 DEF CheckStored, At, FlowOf
  <2>2. ctx'.enc = ctx.enc
    BY <1>8 DEF CheckStored, TypeInv, TypeOK
  <2>3. CASE Goes(d, "check")
    BY <2>1, <2>2, <2>3, GoesFacts DEF FlowOf, Station
  <2>4. CASE Await("service") /\ Store(Prefix, [storage[Prefix] EXCEPT !.reg = {}])
    <3>1. storage'[a.of].reg = {}
      BY <1>3, <2>4 DEF Store, TypeInv, TypeOK, StoredType
    <3> QED
      BY <2>1, <2>2, <2>4, <3>1, AwaitFacts DEF FlowOf, HasStored
  <2> QED
    BY <1>8, <2>3, <2>4 DEF CheckStored
<1>9. ASSUME NEW d \in step, ServiceAnswers(d)
      PROVE  Goal
  <2>1. d.at = "service" /\ Goes(d, "check") /\ UNCHANGED storage
    BY <1>9 DEF ServiceAnswers, At
  <2>2. ctx'.key = ctx.key
    BY <1>9 DEF ServiceAnswers, TypeInv, TypeOK
  <2>3. ~HasStored(a)'
    BY <1>2, <2>1, StoredFrame DEF FlowOf
  <2>4. \A e \in step' : e.at = "check" /\ e.proxy = d.proxy
    BY <2>1, GoesFacts DEF Station
  <2> QED
    BY <1>2, <1>5, <2>1, <2>2, <2>3, <2>4 DEF FlowOf
<1>10. ASSUME NEW d \in step, CheckDelegationMode(d) \/ CheckShimmerMode(d)
       PROVE  Goal
  <2>1. UNCHANGED <<ctx, storage>>
    BY <1>10 DEF CheckDelegationMode, CheckShimmerMode
  <2>2. (HasStored(a)' <=> HasStored(a)) /\ (IsLoggedIn' <=> IsLoggedIn)
    BY <2>1, StoredFrame, LoggedFrame
  <2>3. d.at \in {"check", "rest"} /\ (step' = {} \/ Goes(d, "cash") \/ Goes(d, "last"))
    BY <1>10 DEF CheckDelegationMode, CheckShimmerMode, At, Ends, Rests
  <2>4. \A e \in step' : e.at \in {"cash", "last"} /\ e.proxy = d.proxy
    BY <2>3, GoesFacts DEF Station
  <2> QED
    BY <1>2, <1>5, <2>1, <2>2, <2>3, <2>4 DEF FlowOf
<1>11. ASSUME NEW d \in step, CheckImpersonationMode(d)
       PROVE  Goal
  <2>1. UNCHANGED ctx /\ d.at = "rest" /\ StationOf(d)
    BY <1>4, <1>11 DEF CheckImpersonationMode, At
  <2>2. IsLoggedIn' <=> IsLoggedIn
    BY <2>1, LoggedFrame
  <2>3. CASE Rests /\ UNCHANGED storage
    BY <1>2, <2>1, <2>2, <2>3, StoredFrame DEF FlowOf, Ends, Rests
  <2>4. CASE Goes(d, "last") /\ (IsLoggedIn \/ os.mode = "delegation")
    <3>1. IsLoggedIn
      BY <1>4, <2>1, <2>4 DEF StationOf, Flags
    <3>2. \A e \in step' : e.at = "last" /\ e.proxy = d.proxy
      BY <2>4, GoesFacts DEF Station
    <3> QED
      BY <1>2, <1>5, <2>1, <2>2, <3>1, <3>2 DEF FlowOf
  <2> QED
    BY <1>11, <2>3, <2>4 DEF CheckImpersonationMode
<1>12. ASSUME NEW d \in step, CheckProfile(d) \/ StepFails(d)
       PROVE  Goal
  <2>1. UNCHANGED <<ctx, storage>> /\ step' = {}
    BY <1>12 DEF CheckProfile, StepFails, Ends, Rests
  <2> QED
    BY <1>2, <2>1, StoredFrame, LoggedFrame DEF FlowOf
<1>13. ASSUME NEW d \in step, Login(d) \/ RegisterPairX(d)
       PROVE  Goal
  <2>1. d.key # {}
    BY <1>4, <1>13 DEF Login, RegisterPairX, At, StationOf
  <2>2. UNCHANGED storage /\ step' = {}
    BY <1>13 DEF Login, RegisterPairX, Ends, Rests
  <2>3. (ctx'.key = d.key \/ ctx'.key = ctx.key) /\ ctx'.proxy = ctx.proxy /\ ctx'.enc = ctx.enc
    BY <1>13 DEF Login, RegisterPairX, TypeInv, TypeOK
  <2>4. IsLoggedIn => IsLoggedIn'
    BY <2>1, <2>3 DEF IsLoggedIn
  <2> QED
    BY <1>2, <2>2, <2>3, <2>4, StoredFrame DEF FlowOf
<1>14. ASSUME NEW q \in requests, ProfilesAnswered(q)
       PROVE  Goal
  <2>1. step' = step /\ ctx'.key = ctx.key /\ ctx'.proxy = ctx.proxy /\ ctx'.enc = ctx.enc
    BY <1>14 DEF ProfilesAnswered, TypeInv, TypeOK
  <2>2. storage'[a.of].reg = storage[a.of].reg
    BY <1>3, <1>14 DEF ProfilesAnswered, TypeInv, TypeOK, StoredType
  <2> QED
    BY <1>2, <1>5, <2>1, <2>2, StoredFrame, LoggedFrame DEF FlowOf
<1>16. ASSUME NEW d \in step, CashGate(d)
       PROVE  Goal
  <2>1. UNCHANGED <<ctx, storage>>
    BY <1>16, GateFrame DEF TypeInv
  <2>2. (HasStored(a)' <=> HasStored(a)) /\ (IsLoggedIn' <=> IsLoggedIn)
    BY <2>1, StoredFrame, LoggedFrame
  <2>3. \/ step' = {}
        \/ d.at \in {"cash", "balance"} /\ (Goes(d, "balance") \/ Goes(d, "consolidate") \/ Goes(d, "rest"))
    BY <1>16, GateFrame DEF TypeInv, Ends, Rests
  <2>4. \A e \in step' : /\ e.at \in {"balance", "consolidate", "rest"} /\ e.proxy = d.proxy
                         /\ d.at \in {"cash", "balance"}
    BY <2>3, GoesFacts DEF Station
  <2> QED
    BY <1>2, <1>5, <2>1, <2>2, <2>4 DEF FlowOf
<1> HIDE DEF Goal
<1>15. Goal
  BY <1>6, <1>7, <1>8, <1>9, <1>10, <1>11, <1>12, <1>13, <1>14, <1>16 DEF Inner, Step, CashGate
<1> QED
  BY <1>15 DEF Goal

LEMMA FlowOuter ==
    ASSUME TypeInv, FlowInv, Outer
    PROVE  FlowInv'
<1> USE DEF walletVars, appVars, outerVars, historyVars
<1>1. ASSUME UNCHANGED <<ctx, step, storage, swapped>>, Logins' => Logins, ~moved' => ~moved
      PROVE  FlowInv'
  <2>1. \A a : (HasStored(a)' <=> HasStored(a))
    BY <1>1 DEF HasStored
  <2>2. IsLoggedIn' <=> IsLoggedIn
    BY <1>1, LoggedFrame
  <2> QED
    BY <1>1, <2>1, <2>2 DEF FlowInv
<1>2. channel' = channel => (Logins' => Logins)
  BY DEF Logins
<1>3. CASE Stop \/ TimePasses
  BY <1>1, <1>2, <1>3 DEF Stop, TimePasses
<1>4. CASE CallRegister
  BY <1>1, <1>4, LoginsNext DEF CallRegister
<1>5. CASE CallLogin
  <2>1. UNCHANGED <<ctx, step, storage, swapped, moved>> /\ ctx.key = {} /\ ctx.enc # {}
    BY <1>5 DEF CallLogin
  <2>2. \A a : (HasStored(a)' <=> HasStored(a))
    BY <2>1 DEF HasStored
  <2>3. IsLoggedIn' <=> IsLoggedIn
    BY <2>1, LoggedFrame
  <2> QED
    BY <2>1, <2>2, <2>3 DEF FlowInv
<1>6. ASSUME NEW a \in Account, \/ WalletChanges(a) \/ MetaMaskAccountChanged(a) \/ AccountsChanged(a)
                                \/ ProxyAnswered(a) \/ ChangeFails(a)
      PROVE  FlowInv'
  BY <1>1, <1>2, <1>6
  DEF WalletChanges, MetaMaskAccountChanged, AccountsChanged, ProxyAnswered, ChangeFails, Switch
<1>7. ASSUME NEW q \in requests, ProfilesFail(q)
      PROVE  FlowInv'
  BY <1>1, <1>2, <1>7 DEF ProfilesFail
<1>8. ASSUME NEW a \in Address, ForeignRegister(a) \/ ForeignProfile(a) \/ ForeignFunds(a)
      PROVE  FlowInv'
  BY <1>1, <1>2, <1>8 DEF ForeignRegister, ForeignProfile, ForeignFunds
<1>9. ASSUME NEW a \in Account, Start(a)
      PROVE  FlowInv'
  <2>1. step' = {} /\ ctx'.enc = {}
    BY <1>9 DEF Start, TypeInv, SessionInv, Context
  <2> QED
    BY <2>1 DEF FlowInv
<1> QED
  BY <1>3, <1>4, <1>5, <1>6, <1>7, <1>8, <1>9 DEF Outer

-----------------------------------------------------------------------------
(* What the facade and the client were told.                               *)

ToldOf(a) ==
    /\ \A p \in ctx.proxy : p = Proxy(a.of, a.mode)
    /\ os.set => /\ client.key = ctx.key /\ facade.key = ctx.key /\ ctx.key # {} /\ ctx.proxy # {}
                 /\ facade.proxy = ctx.proxy /\ client.proxy = ctx.proxy
                 /\ ~Logins /\ \A d \in step : d.at # "login"

LEMMA ToldInner ==
    ASSUME StoreInv, StationInv, FlowInv, ToldInv, Inner
    PROVE  ToldInv'
<1> SUFFICES ASSUME NEW a \in ctx'.account, ~moved', a.of \notin tainted', ~swapped'
             PROVE  ToldOf(a)'
  BY DEF ToldInv, ToldOf
<1> USE DEF StoreInv
<1> DEFINE Goal == ToldOf(a)'
<1>1. a \in ctx.account /\ ~moved /\ ~swapped
  BY InnerFrame, SwappedNext
<1>2. a.of \notin tainted
  BY <1>1, AccountOfLoop, ServiceNext
<1>3. ToldOf(a) /\ FlowOf(a)
  BY <1>1, <1>2 DEF ToldInv, ToldOf, FlowInv, FlowOf
<1>4. /\ Prefix = a.of /\ Mode = a.mode /\ os.mode = a.mode /\ a.of \in Address /\ a.mode \in Modes
      /\ facade.account = a /\ client.adapter = a /\ \A d \in step : d.of = a.of
  BY <1>1, AccountOfLoop
<1>5. (\A e \in step : StationOf(e)) /\ Flags
  BY StationIs
<1>6. Logins' => Logins
  BY LoginsNext
<1>7. \A d \in step : Own(d.proxy, a)
  BY <1>1, <1>2 DEF OwnInv
<1>8. ASSUME Poll
      PROVE  Goal
  <2>1. UNCHANGED <<ctx, facade, client>> /\ os'.set = os.set
    BY <1>8 DEF Poll, TypeInv, TypeOK, LoopType
  <2>2. \A e \in step' : e.at # "login"
    BY <1>8 DEF Poll, Await
  <2> QED
    BY <1>3, <1>6, <2>1, <2>2 DEF ToldOf
<1>9. ASSUME Commands
      PROVE  Goal
  <2>1. UNCHANGED <<ctx, facade, client, os>>
    BY <1>9 DEF Commands, BeginLogin, SignaturePairX, TryAquirePublicKey
  <2>2. CASE BeginLogin
    <3>1. channel # <<>> /\ channel[1] = "login" /\ channel \in Seq({"login", "register", "acquire"})
      BY <2>2 DEF BeginLogin, Command, TypeInv, TypeOK
    <3>2. 1 \in DOMAIN channel
      BY <3>1, LenProperties
    <3>3. Logins
      BY <3>1, <3>2 DEF Logins
    <3> QED
      BY <1>3, <2>1, <3>3 DEF ToldOf
  <2>3. CASE SignaturePairX \/ TryAquirePublicKey
    <3>1. \A e \in step' : e.at # "login"
      BY <2>3 DEF SignaturePairX, TryAquirePublicKey, Command
    <3> QED
      BY <1>3, <1>6, <2>1, <3>1 DEF ToldOf
  <2> QED
    BY <1>9, <2>2, <2>3 DEF Commands
<1>10. ASSUME NEW d \in step, CheckStored(d)
       PROVE  Goal
  <2>1. d.at = "stored" /\ ~os.set /\ \A p \in d.proxy : p.mode = a.mode
    BY <1>3, <1>5, <1>10 DEF CheckStored, At, FlowOf, StationOf, Flags
  <2>2. ASSUME NEW p \in d.proxy
        PROVE  p = Proxy(a.of, a.mode)
    <3>1. p \in ProxyAccount
      BY DEF TypeInv, TypeOK, StepType
    <3>2. p.of = a.of /\ p.mode = a.mode
      BY <1>7, <2>1 DEF Own
    <3> QED
      BY <3>1, <3>2 DEF ProxyAccount, Proxy
  <2>3. ctx'.proxy = d.proxy \/ ctx'.proxy = ctx.proxy
    BY <1>10 DEF CheckStored, TypeInv, TypeOK
  <2>4. ~os'.set
    BY <1>10, <2>1 DEF CheckStored, TypeInv, TypeOK, LoopType
  <2> QED
    BY <1>3, <2>2, <2>3, <2>4 DEF ToldOf
<1>11. ASSUME NEW d \in step, ServiceAnswers(d)
       PROVE  Goal
  <2> DEFINE known == {r \in service[d.of] : Valid({r.key}, IF r.mm THEN {Proxy(d.of, "delegation")} ELSE {})}
             mm == IF \E r \in known : r.mm THEN {Proxy(d.of, "delegation")} ELSE {}
             tp == IF \E r \in known : r.tp THEN {Proxy(d.of, "impersonation")} ELSE {}
             mine == (os.mode = "delegation" /\ mm # {}) \/ (os.mode = "impersonation" /\ tp # {})
  <2>1. d.at = "service" /\ ~os.set
    BY <1>5, <1>11 DEF ServiceAnswers, At, StationOf, Flags
  <2>2. ~os'.set
    BY <1>11, <2>1 DEF ServiceAnswers, TypeInv, TypeOK, LoopType
  <2>3. \A p \in mm : p = Proxy(d.of, "delegation")
    OBVIOUS
  <2>4. swapped' <=> (swapped \/ (os.mode = "impersonation" /\ mine))
    BY <1>11 DEF ServiceAnswers
  <2>5. ctx' = IF known = {} THEN ctx
               ELSE [ctx EXCEPT !.enc = {r.key : r \in known}, !.proxy = IF mine THEN mm ELSE @]
    BY <1>11 DEF ServiceAnswers
  <2>6. ctx'.proxy = ctx.proxy \/ (mine /\ ctx'.proxy = mm)
    <3> HIDE DEF known, mm, mine
    <3> QED
      BY <2>5 DEF TypeInv, TypeOK
  <2>7. mine => os.mode = "delegation"
    BY <2>4
  <2> HIDE DEF known, mm, tp, mine
  <2>8. \A p \in ctx'.proxy : p = Proxy(a.of, a.mode)
    BY <1>3, <1>4, <2>3, <2>6, <2>7 DEF ToldOf
  <2> QED
    BY <2>2, <2>8 DEF ToldOf
\* They are told what the context holds.
<1>12. ASSUME SetProxyModeInfo, ctx' = ctx, IsLoggedIn, ~Logins', \A e \in step' : e.at # "login"
       PROVE  Goal
  <2>1. client'.key = ctx.key /\ client'.proxy = ctx.proxy
    BY <1>12 DEF SetProxyModeInfo, SwitchAddress
  <2>2. facade'.key = ctx.key /\ facade'.proxy = ctx.proxy
    BY <1>12 DEF SetProxyModeInfo, TypeInv, TypeOK
  <2> QED
    BY <1>3, <1>12, <2>1, <2>2 DEF ToldOf, IsLoggedIn
<1>13. ASSUME UNCHANGED <<facade, client>>, ctx'.key = ctx.key, ctx'.proxy = ctx.proxy, os'.set = os.set,
              \A e \in step' : e.at # "login" \/ e \in step
       PROVE  Goal
  BY <1>3, <1>6, <1>13 DEF ToldOf
<1>14. ASSUME NEW d \in step, CheckDelegationMode(d)
       PROVE  Goal
  <2>1. d.at = "check" /\ ctx' = ctx
    BY <1>14 DEF CheckDelegationMode, At
  <2>2. \A e \in step' : e.at # "login"
    BY <1>14, GoesFacts DEF CheckDelegationMode, Ends, Rests, Station
  <2>3. CASE IsLoggedIn /\ SetProxyModeInfo
    <3>1. ~Logins'
      BY <1>3, <1>6, <2>1, <2>3 DEF FlowOf, IsLoggedIn
    <3> QED
      BY <1>12, <2>1, <2>2, <2>3, <3>1
  <2>4. CASE ~IsLoggedIn /\ UNCHANGED <<facade, client>> /\ os' = [os EXCEPT !.set = @ \/ IsLoggedIn]
    <3>1. os'.set = os.set
      BY <2>4 DEF TypeInv, TypeOK, LoopType
    <3> QED
      BY <1>13, <2>1, <2>2, <2>4, <3>1
  <2>5. CASE UNCHANGED <<facade, client, os>>
    BY <1>13, <2>1, <2>2, <2>5
  <2> QED
    BY <1>14, <2>3, <2>4, <2>5 DEF CheckDelegationMode
<1>15. ASSUME NEW d \in step, CheckImpersonationMode(d)
       PROVE  Goal
  <2>1. d.at = "rest" /\ ctx' = ctx
    BY <1>15 DEF CheckImpersonationMode, At
  <2>2. \A e \in step' : e.at # "login"
    BY <1>15, GoesFacts DEF CheckImpersonationMode, Ends, Rests, Station
  <2>3. CASE os.mode = "impersonation" /\ ~os.set /\ SetProxyModeInfo /\ (IsLoggedIn \/ os.mode = "delegation")
    <3>1. ~Logins'
      BY <1>3, <1>6, <2>1, <2>3 DEF FlowOf, IsLoggedIn
    <3> QED
      BY <1>12, <2>1, <2>2, <2>3, <3>1
  <2>4. CASE /\ ~(os.mode = "impersonation" /\ ~os.set) /\ UNCHANGED <<facade, client>>
             /\ os' = [os EXCEPT !.set = @ \/ (os.mode = "impersonation" /\ ~os.set), !.need = FALSE]
    <3>1. os'.set = os.set
      BY <2>4 DEF TypeInv, TypeOK, LoopType
    <3> QED
      BY <1>13, <2>1, <2>2, <2>4, <3>1
  <2>5. CASE UNCHANGED <<facade, client, os>>
    BY <1>13, <2>1, <2>2, <2>5
  <2> QED
    BY <1>15, <2>3, <2>4, <2>5 DEF CheckImpersonationMode
<1>16. ASSUME NEW d \in step, CheckShimmerMode(d) \/ CheckProfile(d) \/ StepFails(d)
       PROVE  Goal
  <2>1. UNCHANGED <<ctx, facade, client>> /\ os'.set = os.set
    BY <1>16 DEF CheckShimmerMode, CheckProfile, StepFails, TypeInv, TypeOK, LoopType
  <2>2. \A e \in step' : e.at # "login"
    BY <1>16, GoesFacts DEF CheckShimmerMode, CheckProfile, StepFails, Ends, Rests, Station
  <2> QED
    BY <1>13, <2>1, <2>2
<1>17. ASSUME NEW d \in step, Login(d)
       PROVE  Goal
  <2>1. ~os.set /\ ~os'.set
    BY <1>3, <1>17 DEF Login, At, ToldOf
  <2>2. ctx'.proxy = ctx.proxy
    BY <1>17 DEF Login, TypeInv, TypeOK
  <2> QED
    BY <1>3, <2>1, <2>2 DEF ToldOf
<1>18. ASSUME NEW d \in step, RegisterPairX(d)
       PROVE  Goal
  <2>1. os'.set = os.set /\ step' = {} /\ ctx'.proxy = ctx.proxy /\ ctx'.key = d.key
    BY <1>18 DEF RegisterPairX, Ends, Rests, TypeInv, TypeOK, LoopType
  <2>2. ASSUME os.set
        PROVE  /\ client'.key = ctx'.key /\ facade'.key = ctx'.key /\ ctx'.key # {}
               /\ facade'.proxy = ctx.proxy /\ client'.proxy = ctx.proxy
    <3>1. ctx.proxy = {Proxy(a.of, a.mode)} /\ d.key = ctx.key
      BY <1>3, <1>5, <1>18, <2>2 DEF ToldOf, StationOf, RegisterPairX, At
    <3>2. CASE Mode = "delegation"
      <4>1. facade' = [facade EXCEPT !.proxy = {Proxy(d.of, "delegation")}, !.key = d.key] /\ client' = client
        BY <1>18, <3>2 DEF RegisterPairX
      <4>2. facade'.key = d.key /\ facade'.proxy = {Proxy(a.of, a.mode)}
        BY <1>4, <3>2, <4>1 DEF TypeInv, TypeOK
      <4> QED
        BY <1>3, <2>1, <2>2, <3>1, <4>1, <4>2 DEF ToldOf
    <3>3. CASE Mode = "impersonation"
      <4>1. /\ SwitchAddress({Proxy(client.adapter.of, "impersonation")}, d.key, client.adapter)
            /\ facade' = [facade EXCEPT !.key = d.key]
        BY <1>18, <3>3 DEF RegisterPairX
      <4>2. facade'.key = d.key /\ facade'.proxy = facade.proxy
        BY <4>1 DEF TypeInv, TypeOK
      <4>3. client'.key = d.key /\ client'.proxy = {Proxy(a.of, a.mode)}
        BY <1>4, <3>3, <4>1 DEF SwitchAddress
      <4> QED
        BY <1>3, <2>1, <2>2, <3>1, <4>2, <4>3 DEF ToldOf
    <3>4. CASE Mode = "shimmer"
      BY <1>4, <1>5, <2>2, <3>4 DEF Flags
    <3> QED
      BY <1>4, <3>2, <3>3, <3>4 DEF Modes
  <2> QED
    BY <1>3, <1>6, <2>1, <2>2 DEF ToldOf
<1>19. ASSUME NEW q \in requests, ProfilesAnswered(q)
       PROVE  Goal
  <2>1. /\ step' = step /\ ctx'.key = ctx.key /\ ctx'.proxy = ctx.proxy /\ os'.set = os.set
        /\ UNCHANGED <<facade, client>>
    BY <1>19 DEF ProfilesAnswered, TypeInv, TypeOK, LoopType
  <2> QED
    BY <1>13, <2>1
<1>21. ASSUME NEW d \in step, CashGate(d)
       PROVE  Goal
  <2>1. /\ UNCHANGED <<ctx, facade>> /\ os'.set = os.set
        /\ client'.key = client.key /\ client'.proxy = client.proxy
    BY <1>21, GateFrame DEF TypeInv
  <2>2. step' = {} \/ Goes(d, "balance") \/ Goes(d, "consolidate") \/ Goes(d, "rest")
    BY <1>21, GateFrame DEF TypeInv, Ends, Rests
  <2>3. \A e \in step' : e.at # "login"
    BY <2>2, GoesFacts DEF Station
  <2> QED
    BY <1>3, <1>6, <2>1, <2>3 DEF ToldOf
<1> HIDE DEF Goal
<1>20. Goal
  BY <1>8, <1>9, <1>10, <1>11, <1>14, <1>15, <1>16, <1>17, <1>18, <1>19, <1>21 DEF Inner, Step, CashGate
<1> QED
  BY <1>20 DEF Goal

LEMMA ToldOuter ==
    ASSUME StoreInv, ToldInv, Outer
    PROVE  ToldInv'
<1> USE DEF walletVars, appVars, outerVars, historyVars
<1>1. ASSUME UNCHANGED <<ctx, step, facade, client, swapped, tainted>>, os'.set = os.set,
             Logins' => Logins, moved' = moved
      PROVE  ToldInv'
  BY <1>1 DEF ToldInv
<1>2. channel' = channel => (Logins' => Logins)
  BY DEF Logins
<1>3. CASE TimePasses
  <2>1. os'.set = os.set
    BY <1>3 DEF TimePasses, StoreInv, TypeInv, TypeOK, LoopType
  <2> QED
    BY <1>1, <1>2, <1>3, <2>1 DEF TimePasses
<1>4. CASE Stop
  BY <1>1, <1>2, <1>4 DEF Stop
<1>5. CASE CallRegister
  BY <1>1, <1>5, LoginsNext DEF CallRegister, StoreInv
<1>6. CASE CallLogin
  <2>1. UNCHANGED <<ctx, step, facade, client, swapped, tainted, moved, os>> /\ ctx.key = {}
    BY <1>6 DEF CallLogin
  <2> QED
    BY <2>1 DEF ToldInv
<1>7. ASSUME NEW a \in Account, MetaMaskAccountChanged(a) \/ AccountsChanged(a)
      PROVE  ToldInv'
  <2>1. moved'
    BY <1>7 DEF MetaMaskAccountChanged, AccountsChanged, Switch
  <2> QED
    BY <2>1 DEF ToldInv
<1>8. ASSUME NEW a \in Account, ProxyAnswered(a)
      PROVE  ToldInv'
  <2>1. moved'
    BY <1>8 DEF ProxyAnswered, StoreInv, TypeInv, SessionInv
  <2> QED
    BY <2>1 DEF ToldInv
<1>9. ASSUME NEW a \in Account, WalletChanges(a) \/ ChangeFails(a)
      PROVE  ToldInv'
  BY <1>1, <1>2, <1>9 DEF WalletChanges, ChangeFails
<1>10. ASSUME NEW q \in requests, ProfilesFail(q)
       PROVE  ToldInv'
  BY <1>1, <1>2, <1>10 DEF ProfilesFail
<1>11. ASSUME NEW a \in Address, ForeignRegister(a) \/ ForeignProfile(a) \/ ForeignFunds(a)
       PROVE  ToldInv'
  BY <1>1, <1>2, <1>11 DEF ForeignRegister, ForeignProfile, ForeignFunds
<1>12. ASSUME NEW a \in Account, Start(a)
       PROVE  ToldInv'
  <2>1. ctx'.proxy = {} /\ ~os'.set
    BY <1>12 DEF Start, Context, Loop
  <2> QED
    BY <2>1 DEF ToldInv
<1> QED
  BY <1>3, <1>4, <1>5, <1>6, <1>7, <1>8, <1>9, <1>10, <1>11, <1>12 DEF Outer

-----------------------------------------------------------------------------
(* The switch to shimmer mode gives the facade and the client their proxy. *)

\* A loop that tells them another one is not of the account.
LEMMA GivenNext ==
    ASSUME TypeInv, Inner, ~crossed', ~moved \/ app = "stopped", NEW a \in Account, a = facade.account,
           a.mode = "shimmer", Given(a)
    PROVE  Given(a)'
<1>1. ASSUME NEW d \in step
      PROVE  ~moved /\ os.mode # "delegation" /\ os.mode # "impersonation"
  <2>1. ~moved /\ ctx.account # {}
    BY InSession DEF TypeInv, SessionInv
  <2>2. PICK x \in ctx.account : TRUE
    BY <2>1
  <2> QED
    BY <2>1, <2>2, AccountOfLoop
<1>2. ASSUME NEW d \in step, CheckDelegationMode(d) \/ CheckImpersonationMode(d)
      PROVE  facade' = facade /\ client' = client
  BY <1>1, <1>2 DEF CheckDelegationMode, CheckImpersonationMode
<1>3. ASSUME NEW d \in step, RegisterPairX(d)
      PROVE  facade' = facade /\ client' = client
  BY <1>3 DEF RegisterPairX, Mode
<1>4. ASSUME NEW d \in step, Login(d)
      PROVE  facade'.proxy = facade.proxy /\ client' = client
  BY <1>4 DEF Login, TypeInv, TypeOK
<1>5. ASSUME NEW d \in step, \/ CheckStored(d) \/ ServiceAnswers(d) \/ CheckShimmerMode(d) \/ CheckProfile(d)
                             \/ StepFails(d)
      PROVE  facade' = facade /\ client' = client
  BY <1>5 DEF CheckStored, ServiceAnswers, CheckShimmerMode, CheckProfile, StepFails
<1>6. ASSUME \/ Poll \/ Commands \/ \E q \in requests : ProfilesAnswered(q)
      PROVE  facade' = facade /\ client' = client
  BY <1>6 DEF Poll, Commands, BeginLogin, SignaturePairX, TryAquirePublicKey, ProfilesAnswered
<1>8. ASSUME NEW d \in step, CashGate(d)
      PROVE  facade' = facade /\ client'.proxy = client.proxy
  BY <1>8, GateFrame DEF TypeInv
<1>7. facade'.proxy = facade.proxy /\ client'.proxy = client.proxy
  BY <1>2, <1>3, <1>4, <1>5, <1>6, <1>8 DEF Inner, Step, CashGate
<1> QED
  BY <1>7 DEF Given

\* A loop of a moved facade that tells them something crosses.
LEMMA CrossNext ==
    ASSUME TypeInv, Inner
    PROVE  /\ crossed => crossed'
           /\ moved /\ ~crossed' => facade'.proxy = facade.proxy /\ client'.proxy = client.proxy
<1> USE DEF historyVars
<1>1. ASSUME NEW d \in step, CheckDelegationMode(d) \/ CheckImpersonationMode(d)
      PROVE  SetProxyModeInfo \/ UNCHANGED <<facade, client, crossed>>
  BY <1>1 DEF CheckDelegationMode, CheckImpersonationMode
<1>2. ASSUME SetProxyModeInfo \/ UNCHANGED <<facade, client, crossed>>
      PROVE  /\ crossed => crossed'
             /\ moved /\ ~crossed' => facade' = facade /\ client' = client
  <2>1. crossed \in BOOLEAN /\ moved \in BOOLEAN
    BY DEF TypeInv, TypeOK
  <2>2. CASE SetProxyModeInfo
    BY <2>1, <2>2 DEF SetProxyModeInfo, Tells
  <2>3. CASE UNCHANGED <<facade, client, crossed>>
    BY <2>3
  <2> QED
    BY <1>2, <2>2, <2>3
<1>3. ASSUME NEW d \in step, RegisterPairX(d)
      PROVE  /\ crossed => crossed'
             /\ moved /\ ~crossed' => facade' = facade /\ client' = client
  BY <1>3 DEF RegisterPairX, RegistersKey, Tells
<1>4. ASSUME NEW d \in step, Login(d)
      PROVE  facade'.proxy = facade.proxy /\ client' = client /\ crossed' = crossed
  BY <1>4 DEF Login, TypeInv, TypeOK
<1>5. ASSUME NEW d \in step, \/ CheckStored(d) \/ ServiceAnswers(d) \/ CheckShimmerMode(d) \/ CheckProfile(d)
                             \/ StepFails(d)
      PROVE  facade' = facade /\ client' = client /\ crossed' = crossed
  BY <1>5 DEF CheckStored, ServiceAnswers, CheckShimmerMode, CheckProfile, StepFails
<1>6. ASSUME \/ Poll \/ Commands \/ \E q \in requests : ProfilesAnswered(q)
      PROVE  facade' = facade /\ client' = client /\ crossed' = crossed
  BY <1>6 DEF Poll, Commands, BeginLogin, SignaturePairX, TryAquirePublicKey, ProfilesAnswered
<1>7. ASSUME NEW d \in step, CashGate(d)
      PROVE  facade' = facade /\ client'.proxy = client.proxy /\ crossed' = crossed
  BY <1>7, GateFrame DEF TypeInv
<1> QED
  BY <1>1, <1>2, <1>3, <1>4, <1>5, <1>6, <1>7 DEF Inner, Step, CashGate

LEMMA ShimmerInner ==
    ASSUME TypeInv, ShimmerInv, Inner
    PROVE  ShimmerInv'
<1>1. /\ ctx'.account = ctx.account /\ facade'.account = facade.account
      /\ UNCHANGED <<asking, told, moved>> /\ facade.account \in Account
  BY InnerFrame DEF TypeInv, TypeOK
<1>2. told' # {} => moved' \/ app' = "stopped"
  BY <1>1, InnerStep DEF ShimmerInv
<1>3. ASSUME NEW a \in Account, a = facade.account, a.mode = "shimmer", told = {a}, ~crossed'
      PROVE  Given(a)'
  <2>1. Given(a)
    BY <1>1, <1>3, CrossNext DEF ShimmerInv
  <2>2. moved \/ app = "stopped"
    BY <1>1, <1>3 DEF ShimmerInv
  <2>3. CASE moved
    BY <1>1, <1>3, <2>1, <2>3, CrossNext DEF Given
  <2>4. CASE ~moved
    BY <1>1, <1>3, <2>1, <2>4, GivenNext DEF Given
  <2> QED
    BY <2>3, <2>4
<1>4. ASSUME NEW a \in ctx'.account, ~moved', a.mode = "shimmer", ~crossed'
      PROVE  Given(a)'
  <2>1. a \in ctx.account /\ ~moved /\ a = facade.account /\ a \in Account
    BY <1>1, <1>4, AccountOfLoop
  <2>2. Given(a)
    BY <1>4, <2>1, CrossNext DEF ShimmerInv
  <2> QED
    BY <1>4, <2>1, <2>2, GivenNext
<1>5. \A a \in asking' : a.mode = "impersonation"
  BY <1>1 DEF ShimmerInv
<1>6. facade'.account.mode = "shimmer" /\ told' = {facade'.account} /\ ~crossed' =>
          /\ facade'.proxy = {Proxy(facade'.account.of, facade'.account.mode)}
          /\ client'.proxy = {Proxy(facade'.account.of, facade'.account.mode)}
  BY <1>1, <1>3 DEF Given
<1>7. \A a \in ctx'.account : ~moved' /\ a.mode = "shimmer" /\ ~crossed' =>
          /\ facade'.proxy = {Proxy(a.of, a.mode)}
          /\ client'.proxy = {Proxy(a.of, a.mode)}
  BY <1>4 DEF Given
<1> QED
  BY <1>2, <1>5, <1>6, <1>7 DEF ShimmerInv, Given

LEMMA ShimmerOuter ==
    ASSUME TypeInv, ShimmerInv, Outer
    PROVE  ShimmerInv'
<1> USE DEF walletVars, appVars, outerVars, historyVars
<1>1. ASSUME UNCHANGED <<facade, client, told, ctx, moved, crossed>>, asking' \subseteq asking,
             app = "stopped" => app' = "stopped"
      PROVE  ShimmerInv'
  BY <1>1 DEF ShimmerInv, Given
<1>2. CASE Stop \/ CallLogin \/ CallRegister \/ TimePasses
  BY <1>1, <1>2 DEF Stop, CallLogin, CallRegister, TimePasses
<1>3. ASSUME NEW a \in Account, WalletChanges(a) \/ ChangeFails(a)
      PROVE  ShimmerInv'
  BY <1>1, <1>3 DEF WalletChanges, ChangeFails
<1>4. ASSUME NEW q \in requests, ProfilesFail(q)
      PROVE  ShimmerInv'
  BY <1>1, <1>4 DEF ProfilesFail
<1>5. ASSUME NEW a \in Address, ForeignRegister(a) \/ ForeignProfile(a) \/ ForeignFunds(a)
      PROVE  ShimmerInv'
  BY <1>1, <1>5 DEF ForeignRegister, ForeignProfile, ForeignFunds
<1>6. ASSUME NEW a \in Account, MetaMaskAccountChanged(a) \/ AccountsChanged(a)
      PROVE  ShimmerInv'
  <2>1. Switch(a)
    BY <1>6 DEF MetaMaskAccountChanged, AccountsChanged
  <2>2. moved' /\ facade'.account = a
    BY <2>1 DEF Switch, ClearAddress
  <2>3. \A x \in asking' : x.mode = "impersonation"
    BY <2>1 DEF Switch, ShimmerInv
  <2>4. a.mode = "shimmer" => Given(a)'
    BY <2>1 DEF Switch, ClearAddress, SwitchAddress, Given
  <2> QED
    BY <2>2, <2>3, <2>4 DEF ShimmerInv
<1>7. ASSUME NEW a \in Account, ProxyAnswered(a)
      PROVE  ShimmerInv'
  <2>1. a \in asking /\ a.mode = "impersonation"
    BY <1>7 DEF ProxyAnswered, ShimmerInv
  <2>2. moved /\ moved'
    BY <1>7, <2>1 DEF ProxyAnswered, TypeInv, SessionInv
  <2>3. told' = {a} /\ asking' \subseteq asking
    BY <1>7 DEF ProxyAnswered
  <2>4. told' = {facade'.account} => facade'.account = a
    BY <2>3
  <2> QED
    BY <2>1, <2>2, <2>3, <2>4 DEF ShimmerInv
<1>8. ASSUME NEW a \in Account, Start(a)
      PROVE  ShimmerInv'
  <2>1. told' = {} /\ ctx'.account = {a} /\ UNCHANGED <<facade, client, asking, crossed>>
    BY <1>8 DEF Start, Context
  <2>2. ~moved' => facade.account = a /\ told = {a}
    BY <1>8 DEF Start
  <2>3. ASSUME NEW x \in ctx'.account, ~moved', x.mode = "shimmer", ~crossed'
        PROVE  Given(x)'
    <3>1. Given(x)
      BY <2>1, <2>2, <2>3 DEF ShimmerInv
    <3> QED
      BY <2>1, <3>1 DEF Given
  <2> QED
    BY <2>1, <2>3 DEF ShimmerInv
<1> QED
  BY <1>2, <1>3, <1>4, <1>5, <1>6, <1>7, <1>8 DEF Outer

-----------------------------------------------------------------------------
(* Who is ready.                                                           *)

LEMMA ReadyInit ==
    ASSUME Init
    PROVE  StationInv /\ FlowInv /\ ToldInv /\ ShimmerInv
<1>1. step = {} /\ asking = {} /\ ctx.account = {} /\ ~os.set /\ ~os.ready /\ app = "stopped"
  BY DEF Init, Context, Loop
<1>2. facade.account = wallet /\ wallet.mode = "shimmer" => Given(wallet)
  BY DEF Init, Given
<1>3. facade.account = wallet /\ told = {wallet}
  BY DEF Init
<1>4. ShimmerInv
  BY <1>1, <1>2, <1>3 DEF ShimmerInv
<1> QED
  BY <1>1, <1>4 DEF StationInv, FlowInv, ToldInv

LEMMA ReadyKept ==
    ASSUME UNCHANGED vars, StationInv, FlowInv, ToldInv, ShimmerInv
    PROVE  StationInv' /\ FlowInv' /\ ToldInv' /\ ShimmerInv'
<1>1. IsLoggedIn' <=> IsLoggedIn
  BY DEF vars, IsLoggedIn
<1>2. Logins' <=> Logins
  BY DEF vars, Logins
<1>3. StationInv'
  BY <1>1 DEF vars, StationInv
<1>4. FlowInv'
  BY <1>1, <1>2 DEF vars, FlowInv, HasStored
<1>5. ToldInv'
  BY <1>2 DEF vars, ToldInv
<1>6. ShimmerInv'
  BY DEF vars, ShimmerInv, Given
<1> QED
  BY <1>3, <1>4, <1>5, <1>6

LEMMA ReadyInvNext ==
    ASSUME ReadyInv, [Next]_vars
    PROVE  ReadyInv'
<1>1. StoreInv'
  BY StoreInvNext DEF ReadyInv
<1>2. CASE UNCHANGED vars
  BY <1>1, <1>2, ReadyKept DEF ReadyInv
<1>3. CASE Inner
  BY <1>1, <1>3, StationInner, FlowInner, ToldInner, ShimmerInner DEF ReadyInv, StoreInv
<1>4. CASE Outer
  BY <1>1, <1>4, StationOuter, FlowOuter, ToldOuter, ShimmerOuter DEF ReadyInv, StoreInv
<1> QED
  BY <1>2, <1>3, <1>4, NextIs

LEMMA ReadyInvSuffices ==
    ASSUME ReadyInv
    PROVE  ReadyIsRight
<1> SUFFICES ASSUME NEW a \in ctx.account, os.ready, app = "running", ~moved, ~swapped, a.of \notin tainted,
                    a.mode = "shimmer" => ~crossed
             PROVE  /\ facade.account = a /\ client.adapter = a
                    /\ facade.proxy = {Proxy(a.of, a.mode)} /\ client.proxy = facade.proxy
                    /\ a.mode # "shimmer" => /\ client.key = facade.key /\ ctx.key = facade.key
                                             /\ \A k \in ctx.key : k.of = a.of
                    /\ ctx.profile \subseteq {a.of} \/ late
  BY DEF ReadyIsRight
<1>1. facade.account = a /\ client.adapter = a /\ os.mode = a.mode
  BY AccountOfLoop DEF ReadyInv, StoreInv
<1>2. Own(ctx.key, a) /\ (ctx.profile \subseteq {a.of} \/ late)
  BY DEF ReadyInv, StoreInv, OwnInv
<1>3. CASE a.mode = "shimmer"
  BY <1>1, <1>2, <1>3 DEF ReadyInv, ShimmerInv, Given
<1>4. CASE a.mode # "shimmer"
  <2>1. os.set
    BY <1>1, <1>4 DEF ReadyInv, StationInv
  <2>2. ToldOf(a)
    BY DEF ReadyInv, ToldInv, ToldOf
  <2>3. ctx.proxy = {Proxy(a.of, a.mode)}
    BY <2>1, <2>2 DEF ToldOf
  <2> QED
    BY <1>1, <1>2, <2>1, <2>2, <2>3 DEF ToldOf, Own
<1> QED
  BY <1>3, <1>4

\* When the loop says that the user can chat, the facade, the client and the
\* context are of the account of the session, with its proxy and one key of
\* its own, unless the facade was moved meanwhile.
THEOREM ReadyRight == Spec => []ReadyIsRight
<1>1. Init => ReadyInv
  BY TypeInvInit, OwnInit, ReadyInit DEF ReadyInv, StoreInv
<1>2. ReadyInv /\ [Next]_vars => ReadyInv'
  BY ReadyInvNext
<1>3. ReadyInv => ReadyIsRight
  BY ReadyInvSuffices
<1> QED
  BY <1>1, <1>2, <1>3, PTL DEF Spec
=============================================================================
