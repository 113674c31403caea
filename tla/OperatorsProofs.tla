--------------------------- MODULE OperatorsProofs ---------------------------
(***************************************************************************)
(* Proofs about what operators see and do before the ledger is reached,    *)
(* for any number of requests, wallets, chains, loads, faults and late     *)
(* answers.  Each part has an inductive invariant of its own:              *)
(*                                                                         *)
(*   - AccessInv: whoever is past the onboarding gate has a wallet, and a  *)
(*     link that runs alone repairs what overlapping ones left             *)
(*     (OperatorAccess);                                                   *)
(*   - PanelInv, HookInv: what the two places of the console that link a   *)
(*     wallet hold while their answers are under way (WalletPanel,         *)
(*     ConsoleWallet);                                                     *)
(*   - TabInv: whose data a page shows (ConsoleSession);                   *)
(*   - ReadyInv: what a report and a refusal say of the settings           *)
(*     (Readiness).                                                        *)
(***************************************************************************)
EXTENDS MCOperators, TLAPS

-----------------------------------------------------------------------------
(***************************************************************************)
(* The profile and its wallets (OperatorAccess).                           *)
(***************************************************************************)
RequestRecords ==
    [step : {"idle", "user", "profile", "provision", "reread", "clear", "upsert", "name",
             "gate", "govern"},
     route : {"none", "link", "govern"}, wallet : Wallets \cup {NoWallet},
     saw : Statuses \cup {"none"}, clean : BOOLEAN]

IsProfile(p) == p = [status |-> p.status, wallet |-> p.wallet, onboarding |-> p.onboarding]

AccessTypeOK ==
    /\ request \in [Requests -> RequestRecords]
    /\ accounts \in [Wallets -> {"none", "primary", "secondary"}]
    /\ IsProfile(profile)
    /\ user \in Statuses

\* Before the last migration nothing is linked and nobody is served.
NotYetServed ==
    schema # 4 => /\ \A r \in Requests : request[r] = Idle
                  /\ lone = NoWallet
                  /\ profile.onboarding # "complete"

\* An account is not taken away again, and the profile is completed after one
\* was written.
CompleteHasAccount ==
    /\ profile.onboarding = "complete" => HasAccount
    /\ \A r \in Requests :
         /\ request[r].step \in {"name", "govern"} => HasAccount
         /\ request[r].step # "idle" => request[r].wallet \in Wallets

\* A link that has had no company so far has the wallets to itself.
CleanRunsAlone ==
    \A r \in Requests : request[r].clean =>
      /\ request[r].step \in LinkSteps
      /\ \A q \in Requests : request[q].step \in LinkSteps => q = r
      /\ request[r].step = "upsert" => \A w \in Wallets : accounts[w] # "primary"
      /\ request[r].step = "name"
           => \A w \in Wallets : accounts[w] = "primary" <=> w = request[r].wallet

LoneIsDone ==
    lone # NoWallet => \A r \in Requests : request[r].step \notin LinkSteps

AccessInv ==
    /\ AccessTypeOK
    /\ NotYetServed
    /\ CompleteHasAccount
    /\ CleanRunsAlone
    /\ LoneIsDone
    /\ LoneLinkRepairs

-----------------------------------------------------------------------------
(***************************************************************************)
(* The console and the report: invariants.                                 *)
(***************************************************************************)
\* The binding that a record of the form, of a request or of the database
\* holds was made for the record's wallet and chain.
MadeFor(binding, record) ==
    binding.wallet = record.wallet /\ binding.chain = record.chain

FormFits(f) ==
    /\ f = [provider |-> f.provider, wallet |-> f.wallet, chain |-> f.chain,
            draft |-> f.draft, typed |-> f.typed]
    /\ f.typed \in BOOLEAN
    /\ ~ f.typed /\ f.draft # NoWallet => MadeFor(f.draft, f)

SavedFits(saved) ==
    /\ saved.typed \in BOOLEAN
    /\ ~ saved.typed => /\ MadeFor(saved.binding, saved)
                        /\ saved.binding.kind = Panel!KindOf[saved.provider]

PanelInv ==
    /\ FormFits(form)
    /\ panel.call = "save" => SavedFits(panel.body)
    /\ row # NoWallet => SavedFits(row)

Known == Wallets \cup {NoWallet}

HookRecords ==
    [ready : BOOLEAN, authenticated : BOOLEAN, requested : BOOLEAN,
     primary : Known, external : Known]
LinkRecords == [step : {"none", "post", "reload"}, wallet : Known]

HookTypeOK ==
    /\ hook \in HookRecords
    /\ first \in [step : {"sent", "served", "done"}, wallet : Known]
    /\ link \in LinkRecords
    /\ linked \in Known
    /\ arrived \in Known
    /\ behind \in BOOLEAN

\* The wallet that the operator asked for and got is in the rendered state;
\* unless it came behind another one, it is the one that is linked.
ArrivedIsRendered ==
    /\ hook.requested => hook.ready
    /\ arrived # NoWallet =>
         /\ hook.external = arrived
         /\ ~ behind => hook.requested /\ (link # Hook!NoLink => link.wallet = arrived)

HookInv == HookTypeOK /\ ArrivedIsRendered /\ ArrivedIsLinked

IsLoad(load) == load = [step |-> load.step, user |-> load.user, live |-> load.live]

\* A page of the console holds and loads only what its holders may see, and a
\* page that the layout does not show holds and loads nothing.
PageFits ==
    /\ layout = "checking"
         => held = NoWallet /\ dashboard = NoWallet /\ \A l \in Tab!Loads : ~ loads[l].live
    /\ held # NoWallet => held \in holders
    /\ dashboard # NoWallet => dashboard \in holders
    /\ \A l \in Tab!Loads :
         loads[l].live /\ loads[l].step \in {"profile", "data"} => loads[l].user \in holders

TabInv ==
    /\ loads = [l \in Tab!Loads |-> loads[l]]
    /\ \A l \in Tab!Loads : IsLoad(loads[l])
    /\ place = "console" => PageFits

\* Operations are refused for the settings alone, which do not change; a
\* report that was "ok" was so for settings with which nothing is refused.
AllAccepted == \A operation \in DOMAIN Ready!Accepts : Ready!Accepts[operation]

SettingsTypeOK ==
    /\ env.registry \in Ready!Given
    /\ env.privateKey \in {"unset", "placeholder", "malformed", "valid"}
    /\ \A setting \in Ready!TreasurySettings : env.treasury[setting] \in Ready!Given

ReadyInv ==
    /\ SettingsTypeOK
    /\ "refused" \in outcomes => ~ AllAccepted
    /\ report.status = "ok" /\ Ready!SettingsAreWellFormed => AllAccepted

-----------------------------------------------------------------------------
LEMMA LoadFields ==
    ASSUME NEW load, IsLoad(load), NEW x
    PROVE  /\ IsLoad([load EXCEPT !.live = x]) /\ [load EXCEPT !.live = x].live = x
           /\ [load EXCEPT !.step = x] = [step |-> x, user |-> load.user, live |-> load.live]
  <1>1. PICK a, b, c : load = [step |-> a, user |-> b, live |-> c]
    BY DEF IsLoad
  <1>2. [load EXCEPT !.live = x] = [step |-> a, user |-> b, live |-> x]
    BY <1>1
  <1>3. [load EXCEPT !.step = x] = [step |-> x, user |-> b, live |-> c]
    BY <1>1
  <1>4. QED
    BY <1>1, <1>2, <1>3 DEF IsLoad

\* What becomes of the loads of a page that is closed.
LEMMA AbandonedLoads ==
    ASSUME NEW rest, \A l \in Tab!Loads : IsLoad(rest[l])
    PROVE  /\ Tab!Abandon(rest) = [l \in Tab!Loads |-> Tab!Abandon(rest)[l]]
           /\ \A l \in Tab!Loads : IsLoad(Tab!Abandon(rest)[l]) /\ ~ Tab!Abandon(rest)[l].live
  <1> SUFFICES ASSUME NEW l \in Tab!Loads
               PROVE  /\ IsLoad([rest[l] EXCEPT !.live = FALSE])
                      /\ ~ [rest[l] EXCEPT !.live = FALSE].live
    BY DEF Tab!Abandon
  <1>1. IsLoad(rest[l])
    OBVIOUS
  <1> QED
    BY <1>1, LoadFields

LEMMA ClosedFits ==
    ASSUME NEW rest, \A l \in Tab!Loads : IsLoad(rest[l]), Tab!ClosePage(rest)
    PROVE  TabInv'
  <1>1. held' = NoWallet /\ dashboard' = NoWallet /\ loads' = Tab!Abandon(rest)
    BY DEF Tab!ClosePage, Tab!Empty
  <1>2. /\ loads' = [l \in Tab!Loads |-> loads'[l]]
        /\ \A l \in Tab!Loads : IsLoad(loads'[l]) /\ ~ loads'[l].live
    BY <1>1, AbandonedLoads
  <1>3. (\A l \in Tab!Loads : IsLoad(loads[l]))'
    BY <1>2 DEF IsLoad
  <1>4. QED
    BY <1>1, <1>2, <1>3 DEF TabInv, PageFits

LEMMA OpenedFits ==
    ASSUME NEW rest, \A l \in Tab!Loads : IsLoad(rest[l]), Tab!OpenPage(rest),
           place' = "console" => layout' # "checking"
    PROVE  TabInv'
  <1>1. PICK n \in Tab!Loads : loads' = [Tab!Abandon(rest) EXCEPT ![n] = Tab!Reading]
    BY DEF Tab!OpenPage
  <1>2. held' = NoWallet /\ dashboard' = NoWallet
    BY DEF Tab!OpenPage, Tab!Empty
  <1>3. /\ loads' = [l \in Tab!Loads |-> loads'[l]]
        /\ \A l \in Tab!Loads :
             loads'[l] = IF l = n THEN Tab!Reading ELSE Tab!Abandon(rest)[l]
    BY <1>1, AbandonedLoads
  <1>4. \A l \in Tab!Loads :
          IsLoad(loads'[l]) /\ (loads'[l].live => loads'[l].step = "session")
    <2>1. IsLoad(Tab!Reading) /\ Tab!Reading.step = "session"
      BY DEF IsLoad, Tab!Reading
    <2>2. QED
      BY <1>3, <2>1, AbandonedLoads
  <1>5. (\A l \in Tab!Loads : IsLoad(loads[l]))'
    BY <1>4 DEF IsLoad
  <1>6. QED
    BY <1>2, <1>3, <1>4, <1>5 DEF TabInv, PageFits

\* What a page goes on with when it hears of a session; rest loads no more
\* than before.
LEMMA GateFits ==
    ASSUME TabInv, NEW u, NEW rest,
           rest = [l \in Tab!Loads |-> rest[l]],
           \A l \in Tab!Loads : IsLoad(rest[l]) /\ (rest[l] = loads[l] \/ ~ rest[l].live),
           Tab!PageGate(u, rest), place' = place,
           place = "console" => u # NoWallet /\ layout' # "checking"
    PROVE  TabInv'
  <1>1. held' = u /\ loads' = rest
    BY DEF Tab!PageGate
  <1>2. CASE u = NoWallet
    BY <1>1, <1>2 DEF TabInv
  <1>3. CASE u # NoWallet
    <2>1. holders' = holders \cup {u} /\ dashboard' = dashboard
      BY <1>3 DEF Tab!PageGate, Tab!Holds
    <2>2. QED
      BY <1>1, <1>3, <2>1 DEF TabInv, PageFits
  <1>4. QED
    BY <1>2, <1>3

LEMMA HeardFits ==
    ASSUME TabInv, NEW u, NEW rest,
           rest = [l \in Tab!Loads |-> rest[l]],
           \A l \in Tab!Loads : IsLoad(rest[l]) /\ (rest[l] = loads[l] \/ ~ rest[l].live),
           Tab!Hears(u, rest), place' = place
    PROVE  TabInv'
  <1>1. CASE place = "operator"
    BY <1>1, GateFits DEF Tab!Hears
  <1>2. CASE place # "operator" /\ layout' = "checking"
    BY <1>2, ClosedFits DEF Tab!Hears, Tab!StaysOpen, Tab!OpensOrCloses
  <1>3. CASE place # "operator" /\ layout' # "checking" /\ layout = "checking"
    BY <1>3, OpenedFits DEF Tab!Hears, Tab!StaysOpen, Tab!OpensOrCloses
  <1>4. CASE place # "operator" /\ layout' # "checking" /\ layout # "checking"
    BY <1>4, GateFits DEF Tab!Hears, Tab!StaysOpen, Tab!OpensOrCloses, Tab!LayoutGate
  <1>5. QED
    BY <1>1, <1>2, <1>3, <1>4

\* A step of one load.
LEMMA LoadMoves ==
    ASSUME TabInv, NEW n \in Tab!Loads, NEW load, IsLoad(load),
           loads' = [loads EXCEPT ![n] = load],
           UNCHANGED <<place, layout>>, holders \subseteq holders',
           place = "console" =>
             /\ load.live => layout # "checking"
             /\ load.live /\ load.step \in {"profile", "data"} => load.user \in holders'
             /\ held' = held \/ held' = NoWallet \/ (layout # "checking" /\ held' \in holders')
             /\ dashboard' = dashboard \/ dashboard' = NoWallet
                \/ (layout # "checking" /\ dashboard' \in holders')
    PROVE  TabInv'
  <1>1. /\ loads' = [l \in Tab!Loads |-> loads'[l]]
        /\ \A l \in Tab!Loads : loads'[l] = IF l = n THEN load ELSE loads[l]
    BY DEF TabInv
  <1>2. \A l \in Tab!Loads : IsLoad(loads'[l])
    BY <1>1 DEF TabInv
  <1>3. ASSUME place' = "console" PROVE PageFits'
    BY <1>1, <1>3 DEF TabInv, PageFits
  <1>4. (\A l \in Tab!Loads : IsLoad(loads[l]))'
    BY <1>2 DEF IsLoad
  <1>5. QED
    BY <1>1, <1>3, <1>4 DEF TabInv

LEMMA LoadStep ==
    ASSUME TabInv, NEW l \in Tab!Loads,
           \/ \E u \in Wallets : Tab!SignIn(l, u)
           \/ Tab!ReadSession(l) \/ Tab!Refresh(l) \/ Tab!ProvisionProfile(l) \/ Tab!SignsOut(l)
           \/ Tab!DashboardArrives(l) \/ Tab!DashboardFails(l) \/ Tab!Unauthorized(l)
    PROVE  TabInv'
  <1>0. /\ IsLoad(loads[l]) /\ IsLoad(Tab!NoLoad) /\ ~ Tab!NoLoad.live
        /\ place = "console" /\ loads[l].live => layout # "checking"
        /\ \A step, u, live : IsLoad([step |-> step, user |-> u, live |-> live])
    BY DEF TabInv, PageFits, IsLoad, Tab!NoLoad
  <1>1. ASSUME NEW u \in Wallets, Tab!SignIn(l, u) PROVE TabInv'
    <2>1. /\ loads' = [loads EXCEPT ![l] = [step |-> "profile", user |-> u, live |-> TRUE]]
          /\ held' = u /\ holders \subseteq holders' /\ dashboard' = dashboard
          /\ UNCHANGED <<place, layout>> /\ (place = "console" => layout # "checking")
          /\ u # NoWallet => u \in holders'
      BY <1>1 DEF Tab!SignIn, Tab!Holds, Tab!Starts, Tab!Shown
    <2>2. QED
      BY <1>0, <2>1, NoWalletAssumption, LoadMoves
  <1>2. CASE Tab!ReadSession(l)
    <2>1. CASE stored = NoWallet
      <3>1. /\ loads' = [loads EXCEPT ![l] = Tab!NoLoad] /\ holders' = holders
            /\ held' = held \/ held' = NoWallet
        BY <1>2, <2>1 DEF Tab!ReadSession, Tab!Ended, Tab!Holds
      <3>2. QED
        BY <1>0, <1>2, <3>1, LoadMoves DEF Tab!ReadSession
    <2>2. CASE stored # NoWallet
      <3> DEFINE load == [step |-> "profile", user |-> stored, live |-> loads[l].live]
      <3>1. loads' = [loads EXCEPT ![l] = load]
        BY <1>2, <2>2 DEF Tab!ReadSession
      <3>2. /\ holders \subseteq holders'
            /\ loads[l].live => held' = stored /\ stored \in holders'
            /\ ~ loads[l].live => held' = held
        BY <1>2, <2>2 DEF Tab!ReadSession, Tab!Holds
      <3>3. IsLoad(load) /\ UNCHANGED <<place, layout, dashboard>>
        BY <1>0, <1>2 DEF Tab!ReadSession
      <3>4. /\ load.live = loads[l].live /\ load.user = stored
            /\ place = "console" /\ load.live => layout # "checking"
        BY <1>0
      <3> HIDE DEF load
      <3>5. QED
        BY <3>1, <3>2, <3>3, <3>4, LoadMoves
    <2>3. QED
      BY <2>1, <2>2
  <1>3. CASE Tab!Refresh(l)
    <2>1. loads' = [loads EXCEPT ![l] = [step |-> "data", user |-> held, live |-> TRUE]]
      BY <1>3 DEF Tab!Refresh, Tab!Starts
    <2>2. place = "console" => held \in holders /\ layout # "checking"
      BY <1>3 DEF Tab!Refresh, TabInv, PageFits
    <2>3. QED
      BY <1>0, <1>3, <2>1, <2>2, LoadMoves DEF Tab!Refresh
  <1>4. CASE Tab!ProvisionProfile(l) \/ Tab!DashboardFails(l)
    <2>1. /\ \/ loads' = [loads EXCEPT ![l] = Tab!NoLoad]
             \/ /\ loads[l].step = "profile"
                /\ loads' = [loads EXCEPT ![l] = [step |-> "data", user |-> loads[l].user,
                                                  live |-> loads[l].live]]
          /\ UNCHANGED <<place, layout, held, dashboard, holders>>
      BY <1>0, <1>4
      DEF Tab!ProvisionProfile, Tab!DashboardFails, Tab!Step, Tab!Ended, IsLoad, TabInv
    <2>2. CASE loads' = [loads EXCEPT ![l] = Tab!NoLoad]
      BY <1>0, <2>1, <2>2, LoadMoves
    <2>3. CASE /\ loads[l].step = "profile"
               /\ loads' = [loads EXCEPT ![l] = [step |-> "data", user |-> loads[l].user,
                                                 live |-> loads[l].live]]
      <3>1. place = "console" /\ loads[l].live => loads[l].user \in holders
        BY <2>3 DEF TabInv, PageFits
      <3>2. QED
        BY <1>0, <2>1, <2>3, <3>1, LoadMoves
    <2>4. QED
      BY <2>1, <2>2, <2>3
  <1>5. CASE Tab!SignsOut(l)
    <2>1. /\ Tab!Ended(l) = [k \in Tab!Loads |-> Tab!Ended(l)[k]]
          /\ \A k \in Tab!Loads :
               IsLoad(Tab!Ended(l)[k]) /\ (Tab!Ended(l)[k] = loads[k] \/ ~ Tab!Ended(l)[k].live)
      <3>1. /\ Tab!Ended(l) = [k \in Tab!Loads |-> Tab!Ended(l)[k]]
            /\ \A k \in Tab!Loads : Tab!Ended(l)[k] = IF k = l THEN Tab!NoLoad ELSE loads[k]
        BY DEF Tab!Ended, TabInv
      <3>2. QED
        BY <1>0, <3>1 DEF TabInv
    <2>2. CASE Tab!Hears(NoWallet, Tab!Ended(l))
      BY <1>5, <2>1, <2>2, HeardFits DEF Tab!SignsOut
    <2>3. CASE loads' = Tab!Ended(l) /\ UNCHANGED <<layout, held, dashboard, holders>>
      BY <1>0, <1>5, <2>3, LoadMoves DEF Tab!SignsOut, Tab!Ended
    <2>4. QED
      BY <1>5, <2>2, <2>3 DEF Tab!SignsOut
  <1>6. CASE Tab!DashboardArrives(l)
    <2>1. place = "console" /\ loads[l].live => loads[l].user \in holders
      BY <1>6 DEF Tab!DashboardArrives, TabInv, PageFits
    <2>2. QED
      BY <1>0, <1>6, <2>1, LoadMoves DEF Tab!DashboardArrives, Tab!Ended
  <1>7. CASE Tab!Unauthorized(l)
    <2>1. loads' = [loads EXCEPT ![l] = [step |-> "out", user |-> loads[l].user,
                                         live |-> loads[l].live]]
      BY <1>0, <1>7, LoadFields DEF Tab!Unauthorized, Tab!Step, TabInv
    <2>2. QED
      BY <1>0, <1>7, <2>1, LoadMoves DEF Tab!Unauthorized
  <1>8. QED
    BY <1>1, <1>2, <1>3, <1>4, <1>5, <1>6, <1>7

LEMMA TabStep == TabInv /\ [Tab!SessionNext]_tabVars => TabInv'
  <1> SUFFICES ASSUME TabInv, [Tab!SessionNext]_tabVars PROVE TabInv'
    OBVIOUS
  <1>1. loads = [l \in Tab!Loads |-> loads[l]] /\ \A l \in Tab!Loads : IsLoad(loads[l])
    BY DEF TabInv
  <1>2. CASE Tab!CheckSession
    <2>1. CASE UNCHANGED <<layout, Tab!pageVars>>
      BY <1>2, <2>1 DEF Tab!CheckSession, Tab!pageVars, TabInv, PageFits, IsLoad
    <2>2. CASE /\ Tab!LayoutGate(stored)
               /\ IF Tab!StaysOpen THEN UNCHANGED Tab!pageVars ELSE Tab!OpensOrCloses(loads)
      <3>1. CASE layout' = "checking"
        BY <1>1, <2>2, <3>1, ClosedFits DEF Tab!StaysOpen, Tab!OpensOrCloses
      <3>2. CASE layout' # "checking" /\ ~ Tab!StaysOpen
        BY <1>1, <2>2, <3>2, OpenedFits DEF Tab!OpensOrCloses
      <3>3. CASE layout' # "checking" /\ Tab!StaysOpen
        BY <1>2, <2>2, <3>3
        DEF Tab!CheckSession, Tab!StaysOpen, Tab!pageVars, TabInv, PageFits, IsLoad
      <3>4. QED
        BY <3>1, <3>2, <3>3
    <2>3. QED
      BY <1>2, <2>1, <2>2 DEF Tab!CheckSession
  <1>3. CASE Tab!SessionEnds
    BY <1>1, <1>3, HeardFits DEF Tab!SessionEnds
  <1>4. CASE Tab!HearNews
    BY <1>1, <1>4, HeardFits DEF Tab!HearNews
  <1>5. ASSUME NEW to \in {"operator", "console"}, Tab!Navigate(to) PROVE TabInv'
    <2>1. CASE Tab!ClosePage(loads)
      BY <1>1, <2>1, ClosedFits
    <2>2. CASE Tab!OpenPage(loads) /\ (to = "operator" \/ layout' = "allowed")
      BY <1>1, <1>5, <2>2, OpenedFits DEF Tab!Navigate
    <2>3. QED
      BY <1>5, <2>1, <2>2 DEF Tab!Navigate
  <1>6. ASSUME NEW u \in Wallets \cup {NoWallet}, Tab!OtherTab(u) PROVE TabInv'
    BY <1>6 DEF Tab!OtherTab, Tab!pageVars, TabInv, PageFits, IsLoad
  <1>7. ASSUME NEW l \in Tab!Loads,
               \/ \E u \in Wallets : Tab!SignIn(l, u)
               \/ Tab!ReadSession(l) \/ Tab!Refresh(l) \/ Tab!ProvisionProfile(l)
               \/ Tab!SignsOut(l) \/ Tab!DashboardArrives(l) \/ Tab!DashboardFails(l)
               \/ Tab!Unauthorized(l)
        PROVE  TabInv'
    BY <1>7, LoadStep
  <1>8. CASE UNCHANGED tabVars
    BY <1>8 DEF tabVars, TabInv, PageFits, IsLoad
  <1>9. QED
    BY <1>2, <1>3, <1>4, <1>5, <1>6, <1>7, <1>8 DEF Tab!SessionNext

\* Whatever order answers, sign-outs and news of other tabs come in, a page
\* of the console shows the data of users whose sessions it has held since the
\* last sign-out it heard of, and of nobody else.
THEOREM DataStayOfSession == OperatorsSpec => []DataIsOfSession
  <1>1. OperatorsInit => TabInv
    <2> SUFFICES ASSUME Tab!SessionInit PROVE TabInv
      BY DEF OperatorsInit
    <2>1. /\ held = NoWallet /\ dashboard = NoWallet
          /\ loads = [l \in Tab!Loads |->
                        IF place = "operator" /\ l = 1 THEN Tab!Reading ELSE Tab!NoLoad]
      BY DEF Tab!SessionInit
    <2>2. IsLoad(Tab!Reading) /\ IsLoad(Tab!NoLoad) /\ ~ Tab!NoLoad.live
      BY DEF IsLoad, Tab!Reading, Tab!NoLoad
    <2>3. QED
      BY <2>1, <2>2 DEF TabInv, PageFits
  <1>2. TabInv /\ [OperatorsNext]_operatorsVars => TabInv'
    <2>1. [OperatorsNext]_operatorsVars => [Tab!SessionNext]_tabVars
      BY DEF OperatorsNext, OfAccess, OfPanel, OfHook, OfTab, OfReadiness, operatorsVars
    <2>2. QED
      BY <2>1, TabStep
  <1>3. TabInv => DataIsOfSession
    BY DEF TabInv, PageFits, DataIsOfSession, Tab!DataIsOfSession
  <1>4. QED
    BY <1>1, <1>2, <1>3, PTL DEF OperatorsSpec

-----------------------------------------------------------------------------
\* The effect starts a link for a wallet that waits for one.
LEMMA EffectLinks ==
    ASSUME hook' \in HookRecords, Hook!Effect
    PROVE  /\ link' \in LinkRecords
           /\ hook'.requested /\ hook'.ready /\ hook'.external # NoWallet
                => link' # Hook!NoLink \/ hook'.primary # NoWallet
           /\ link' # Hook!NoLink => link'.wallet = hook'.external
  BY DEF Hook!Effect, Hook!NoLink, Hook!Unset, HookRecords, LinkRecords, Known

LEMMA RendersLinks ==
    ASSUME link \in LinkRecords, hook' \in HookRecords, Hook!Renders
    PROVE  /\ link' \in LinkRecords
           /\ hook'.requested /\ hook'.ready /\ hook'.external # NoWallet
                => link' # Hook!NoLink \/ hook'.primary # NoWallet
           /\ link # Hook!NoLink => link' = link
           /\ link = Hook!NoLink /\ link' # Hook!NoLink => link'.wallet = hook'.external
  BY EffectLinks DEF Hook!Renders

\* After a step that runs the effect, a wallet that is rendered and waits is
\* linked.
LEMMA WaitingIsLinked ==
    ASSUME ArrivedIsRendered',
           hook'.requested /\ hook'.ready /\ hook'.external # NoWallet
             => link' # Hook!NoLink \/ hook'.primary # NoWallet
    PROVE  ArrivedIsLinked'
  BY DEF ArrivedIsRendered, ArrivedIsLinked, Hook!ArrivedIsLinked, Hook!Unset

LEMMA HookStep == HookInv /\ [Hook!HookNext]_hookVars => HookInv'
  <1> SUFFICES ASSUME HookInv, [Hook!HookNext]_hookVars PROVE HookInv'
    OBVIOUS
  <1> USE DEF HookInv, Hook!histories
  <1>1. CASE Hook!BecomeReady \/ Hook!LogIn \/ Hook!FirstLoad
    <2>1. /\ hook' \in HookRecords /\ Hook!Renders
          /\ hook'.requested = hook.requested /\ hook'.external = hook.external
          /\ hook.ready => hook'.ready
      BY <1>1 DEF Hook!BecomeReady, Hook!LogIn, Hook!FirstLoad, HookTypeOK, HookRecords
    <2>2. UNCHANGED <<linked, arrived, behind>>
          /\ first' \in [step : {"sent", "served", "done"}, wallet : Known]
      BY <1>1
      DEF Hook!BecomeReady, Hook!LogIn, Hook!FirstLoad, HookTypeOK, Hook!Unset, Known
    <2>3. HookTypeOK' /\ ArrivedIsRendered'
      BY <2>1, <2>2, RendersLinks DEF HookTypeOK, ArrivedIsRendered
    <2>4. QED
      BY <2>1, <2>3, RendersLinks, WaitingIsLinked DEF HookTypeOK
  <1>2. CASE Hook!ConnectExternalWallet
    <2>1. hook' \in HookRecords /\ hook'.ready
      BY <1>2 DEF Hook!ConnectExternalWallet, HookTypeOK, HookRecords
    <2>2. UNCHANGED <<first, link, linked>> /\ arrived' = NoWallet /\ behind' = FALSE
      BY <1>2 DEF Hook!ConnectExternalWallet, Hook!Unset
    <2>3. QED
      BY <2>1, <2>2
      DEF HookTypeOK, Known, ArrivedIsRendered, ArrivedIsLinked, Hook!ArrivedIsLinked,
          Hook!Unset
  <1>3. CASE Hook!ServeFirstLoad
    BY <1>3
    DEF Hook!ServeFirstLoad, HookTypeOK, Known, ArrivedIsRendered, ArrivedIsLinked,
        Hook!ArrivedIsLinked
  <1>4. ASSUME NEW wallet \in Wallets \cup {NoWallet}, Hook!WalletsChange(wallet)
        PROVE  HookInv'
    <2>1. /\ hook' \in HookRecords /\ Hook!Renders /\ UNCHANGED <<first, linked>>
          /\ hook'.requested = hook.requested /\ hook'.ready = hook.ready
          /\ hook'.external = wallet
      BY <1>4 DEF Hook!WalletsChange, HookTypeOK, HookRecords, Known
    <2>2. /\ arrived' = IF hook.requested THEN wallet ELSE NoWallet
          /\ behind' \in BOOLEAN
          /\ arrived' # NoWallet /\ ~ behind' => link = Hook!NoLink \/ link.wallet = wallet
      BY <1>4 DEF Hook!WalletsChange, Hook!Unset
    <2>3. ArrivedIsRendered'
      BY <2>1, <2>2, RendersLinks DEF HookTypeOK, ArrivedIsRendered
    <2>4. HookTypeOK'
      BY <2>1, <2>2, RendersLinks DEF HookTypeOK, Known
    <2>5. QED
      BY <2>1, <2>3, <2>4, RendersLinks, WaitingIsLinked DEF HookTypeOK
  <1>5. ASSUME NEW done \in BOOLEAN, Hook!LinkFails(done) PROVE HookInv'
    <2>1. Hook!Effect /\ UNCHANGED <<hook, first, arrived, behind>> /\ linked' \in Known
      BY <1>5 DEF Hook!LinkFails, HookTypeOK, LinkRecords
    <2>2. HookTypeOK' /\ ArrivedIsRendered'
      BY <2>1, EffectLinks DEF HookTypeOK, ArrivedIsRendered
    <2>3. QED
      BY <2>1, <2>2, EffectLinks, WaitingIsLinked DEF HookTypeOK
  <1>6. CASE Hook!LinkSucceeds
    <2>1. /\ link' \in LinkRecords /\ link' # Hook!NoLink /\ link # Hook!NoLink
          /\ link'.wallet = link.wallet /\ linked' \in Known
          /\ UNCHANGED <<hook, first, arrived, behind>>
      BY <1>6 DEF Hook!LinkSucceeds, Hook!NoLink, HookTypeOK, LinkRecords
    <2>2. QED
      BY <2>1
      DEF HookTypeOK, ArrivedIsRendered, ArrivedIsLinked, Hook!ArrivedIsLinked
  <1>7. CASE Hook!Reload
    <2>1. Hook!Effect /\ UNCHANGED <<first, linked, behind>> /\ link # Hook!NoLink
      BY <1>7 DEF Hook!Reload, Hook!NoLink
    <2>2. CASE UNCHANGED <<hook, arrived>>
      <3>1. HookTypeOK' /\ ArrivedIsRendered'
        BY <2>1, <2>2, EffectLinks DEF HookTypeOK, ArrivedIsRendered
      <3>2. QED
        BY <2>1, <2>2, <3>1, EffectLinks, WaitingIsLinked DEF HookTypeOK
    <2>3. CASE /\ \E primary \in {linked, link.wallet, hook.primary} :
                    hook' = [hook EXCEPT !.primary = primary, !.requested = FALSE]
               /\ arrived' = IF arrived = link.wallet THEN NoWallet ELSE arrived
      <3>1. PICK primary \in Known :
              hook' = [hook EXCEPT !.primary = primary, !.requested = FALSE]
        BY <2>3 DEF HookTypeOK, HookRecords, LinkRecords
      <3>2. /\ hook' \in HookRecords /\ ~ hook'.requested /\ hook'.external = hook.external
            /\ hook'.ready = hook.ready
        BY <3>1 DEF HookTypeOK, HookRecords
      <3>3. arrived' # NoWallet => arrived' = arrived /\ behind
        BY <2>1, <2>3 DEF ArrivedIsRendered
      <3>4. HookTypeOK' /\ ArrivedIsRendered'
        BY <2>1, <2>3, <3>2, <3>3, EffectLinks DEF HookTypeOK, Known, ArrivedIsRendered
      <3>5. QED
        BY <3>2, <3>4, WaitingIsLinked
    <2>4. QED
      BY <1>7, <2>2, <2>3 DEF Hook!Reload, Hook!Unset
  <1>8. ASSUME NEW wallet \in Wallets, Hook!LinkedByOthers(wallet) PROVE HookInv'
    BY <1>8
    DEF Hook!LinkedByOthers, HookTypeOK, Known, ArrivedIsRendered, ArrivedIsLinked,
        Hook!ArrivedIsLinked
  <1>9. CASE UNCHANGED hookVars
    BY <1>9
    DEF hookVars, HookTypeOK, ArrivedIsRendered, ArrivedIsLinked, Hook!ArrivedIsLinked
  <1>10. QED
    BY <1>1, <1>2, <1>3, <1>4, <1>5, <1>6, <1>7, <1>8, <1>9 DEF Hook!HookNext, Hook!Unset

\* The wallet that connects for a link is the one that is linked, and linked
\* again after every failure, although the effect that links it does not run
\* for the flag alone; only one that came behind another may be forgotten.
THEOREM ArrivedStaysLinked == OperatorsSpec => []ArrivedIsLinked
  <1>1. OperatorsInit => HookInv
    <2>1. Hook!HookInit => HookTypeOK
      <3> SUFFICES ASSUME Hook!HookInit PROVE HookTypeOK
        OBVIOUS
      <3> USE DEF Hook!HookInit, Hook!Unset, Known
      <3>1. hook \in HookRecords
        BY DEF HookRecords
      <3>2. link \in LinkRecords
        BY DEF LinkRecords, Hook!NoLink
      <3>3. QED
        BY <3>1, <3>2 DEF HookTypeOK
    <2>2. QED
      BY <2>1
      DEF OperatorsInit, Hook!HookInit, HookInv, ArrivedIsRendered, ArrivedIsLinked,
          Hook!ArrivedIsLinked, Hook!Unset
  <1>2. HookInv /\ [OperatorsNext]_operatorsVars => HookInv'
    <2>1. [OperatorsNext]_operatorsVars => [Hook!HookNext]_hookVars
      BY DEF OperatorsNext, OfAccess, OfPanel, OfHook, OfTab, OfReadiness, operatorsVars
    <2>2. QED
      BY <2>1, HookStep
  <1>3. HookInv => ArrivedIsLinked
    BY DEF HookInv
  <1>4. QED
    BY <1>1, <1>2, <1>3, PTL DEF OperatorsSpec

-----------------------------------------------------------------------------
LEMMA FilledFits ==
    ASSUME FormFits(form), NEW wallet, NEW c, NEW draft,
           draft # NoWallet => draft.wallet = wallet /\ draft.chain = c,
           Panel!Fill(wallet, c, draft)
    PROVE  FormFits(form)'
  <1>1. form' = [provider |-> form.provider, wallet |-> wallet, chain |-> c,
                 draft |-> draft, typed |-> FALSE]
    BY DEF FormFits, Panel!Fill
  <1>2. QED
    BY <1>1 DEF FormFits, MadeFor

\* What is sent to be saved is the form's wallet with the form's binding.
LEMMA SentFits == ASSUME FormFits(form), Panel!CompleteLink PROVE SavedFits(panel'.body)
  <1> DEFINE body == [provider |-> form.provider, wallet |-> form.wallet,
                      chain |-> form.chain, binding |-> Panel!ComputedBinding,
                      typed |-> form.provider # "turnkey" /\ form.typed]
  <1>1. panel'.body = body
    BY DEF Panel!CompleteLink, Panel!SetPanel
  <1>2. /\ Panel!ComputedBinding # NoWallet
        /\ Panel!ComputedBinding.kind = Panel!KindOf[form.provider]
    BY DEF Panel!CompleteLink, Panel!ReadyToLink
  <1>3. ~ body.typed => MadeFor(Panel!ComputedBinding, form)
    <2>1. CASE form.provider = "turnkey"
      BY <2>1 DEF Panel!ComputedBinding, Panel!Binding, MadeFor
    <2>2. CASE form.provider # "turnkey"
      BY <1>2, <2>2 DEF FormFits, Panel!ComputedBinding
    <2>3. QED
      BY <2>1, <2>2
  <1>4. body.typed \in BOOLEAN
    OBVIOUS
  <1>5. SavedFits(body)
    BY <1>2, <1>3, <1>4 DEF SavedFits, MadeFor
  <1>6. QED
    BY <1>1, <1>5

LEMMA PanelStep == PanelInv /\ [Panel!PanelNext]_panelVars => PanelInv'
  <1> SUFFICES ASSUME PanelInv, [Panel!PanelNext]_panelVars PROVE PanelInv'
    OBVIOUS
  <1> USE DEF PanelInv
  <1>1. ASSUME NEW provider \in Panel!Providers, Panel!SelectMode(provider) PROVE PanelInv'
    <2>1. FormFits(form')
      BY <1>1 DEF Panel!SelectMode, FormFits, MadeFor
    <2>2. QED
      BY <1>1, <2>1 DEF Panel!SelectMode
  <1>2. CASE \/ \E wallet \in Wallets : Panel!TypeAddress(wallet)
             \/ \E c \in Chains : Panel!SelectChain(c)
    <2>1. FormFits(form')
      BY <1>2 DEF Panel!TypeAddress, Panel!SelectChain, FormFits, MadeFor
    <2>2. QED
      BY <1>2, <2>1 DEF Panel!TypeAddress, Panel!SelectChain
  <1>3. ASSUME NEW wallet \in Wallets,
               Panel!UseConnectedWallet(wallet) \/ Panel!PreparePrivyWallet(wallet)
        PROVE  PanelInv'
    <2>1. FormFits(form)'
      BY <1>3, FilledFits DEF Panel!UseConnectedWallet, Panel!PreparePrivyWallet
    <2>2. QED
      BY <1>3, <2>1 DEF Panel!UseConnectedWallet, Panel!PreparePrivyWallet
  <1>4. CASE Panel!ReadBrowserWallet
    BY <1>4 DEF Panel!ReadBrowserWallet, Panel!SetPanel
  <1>5. CASE Panel!BrowserWalletAnswers \/ Panel!PrivyAnswers
    <2>1. ASSUME NEW binding, Panel!FillIn(binding) PROVE FormFits(form)'
      BY <2>1, FilledFits DEF Panel!FillIn
    <2>2. FormFits(form)'
      BY <1>5, <2>1 DEF Panel!BrowserWalletAnswers, Panel!PrivyAnswers
    <2>3. QED
      BY <1>5, <2>2 DEF Panel!BrowserWalletAnswers, Panel!PrivyAnswers, Panel!SetPanel
  <1>6. CASE Panel!CompleteLink
    BY <1>6, SentFits DEF Panel!CompleteLink
  <1>7. CASE Panel!SaveAnswers
    BY <1>7 DEF Panel!SaveAnswers, Panel!SetPanel
  <1>8. ASSUME NEW wallet \in Wallets, NEW c \in Chains, Panel!LinkedElsewhere(wallet, c)
        PROVE  PanelInv'
    <2>1. SavedFits(row')
      BY <1>8 DEF Panel!LinkedElsewhere, Panel!Binding, Panel!KindOf, SavedFits, MadeFor
    <2>2. QED
      BY <1>8, <2>1 DEF Panel!LinkedElsewhere
  <1>9. CASE Panel!LoadAccessState
    <2>1. FormFits(form')
      <3>1. CASE UNCHANGED form
        BY <3>1
      <3>2. CASE row # NoWallet /\ form' = [provider |-> row.provider, wallet |-> row.wallet,
                                            chain |-> row.chain, draft |-> row.binding,
                                            typed |-> row.typed]
        BY <3>2 DEF FormFits, SavedFits, MadeFor
      <3>3. QED
        BY <1>9, <3>1, <3>2 DEF Panel!LoadAccessState, Panel!ApplyPrimaryWallet
    <2>2. QED
      BY <1>9, <2>1 DEF Panel!LoadAccessState, Panel!SetPanel
  <1>10. CASE UNCHANGED panelVars
    BY <1>10 DEF panelVars
  <1>11. QED
    BY <1>1, <1>2, <1>3, <1>4, <1>5, <1>6, <1>7, <1>8, <1>9, <1>10 DEF Panel!PanelNext

\* Whatever answers come late and however the operator switches meanwhile, a
\* saved wallet has a binding that was made for it, on its chain, by its
\* provider, unless the operator typed over them.
THEOREM SavedBindingStaysItsWallets == OperatorsSpec => []SavedBindingIsItsWallets
  <1>1. OperatorsInit => PanelInv
    BY DEF OperatorsInit, Panel!PanelInit, PanelInv, FormFits
  <1>2. PanelInv /\ [OperatorsNext]_operatorsVars => PanelInv'
    <2>1. [OperatorsNext]_operatorsVars => [Panel!PanelNext]_panelVars
      BY DEF OperatorsNext, OfAccess, OfPanel, OfHook, OfTab, OfReadiness, operatorsVars
    <2>2. QED
      BY <2>1, PanelStep
  <1>3. PanelInv => SavedBindingIsItsWallets
    BY DEF PanelInv, SavedFits, MadeFor, SavedBindingIsItsWallets, Panel!SavedBindingIsItsWallets
  <1>4. QED
    BY <1>1, <1>2, <1>3, PTL DEF OperatorsSpec

-----------------------------------------------------------------------------
\* What a report that is "ok" says of the settings.
LEMMA ReportImplies ==
    ASSUME NEW seen, NEW postgres, Ready!SystemOk(seen, postgres)
    PROVE  /\ Ready!StoreOpens /\ Ready!OperatorAuthReady /\ Ready!AnchoringReady
           /\ Ready!IsProduction /\ env.workerToken
           /\ \A v \in Vendors : Ready!HasEndpoint(v)
  <1>1. Ready!ReadinessOk(seen, postgres) /\ Ready!BlockchainReady(seen.probe)
    BY DEF Ready!SystemOk
  <1>2. Ready!IsProduction /\ Ready!StoreOpens /\ Ready!OperatorAuthReady /\ Ready!AnchoringReady
        /\ Ready!PrimaryVendorsReady /\ Ready!WorkerReady(seen, postgres)
    BY <1>1 DEF Ready!ReadinessOk, Ready!BlockchainReady
  <1>3. QED
    BY <1>2 DEF Ready!PrimaryVendorsReady, Ready!WorkerReady

\* The checks of the report and those of the operations agree.
LEMMA ReportAgrees ==
    ASSUME NEW seen, NEW postgres, Ready!SystemOk(seen, postgres),
           Ready!SettingsAreWellFormed, ReadyInv
    PROVE  AllAccepted
  <1>1. /\ Ready!StoreOpens /\ Ready!OperatorAuthReady /\ Ready!AnchoringReady
        /\ Ready!IsProduction /\ env.workerToken
        /\ \A v \in Vendors : Ready!HasEndpoint(v)
    BY ReportImplies
  <1>2. env.privateKey = "valid" /\ env.registry = "valid" /\ Ready!HasChainId
        /\ Ready!HasActiveRpc /\ Ready!ActiveChainId # "none" /\ Ready!HasSigner
        /\ env.rpcUrl # "unset"
    BY <1>1 DEF Ready!AnchoringReady, Ready!HasSigner, Ready!RegistryConfigured,
                Ready!SettingsAreWellFormed, ReadyInv, SettingsTypeOK
  <1>3. Ready!AnchorAccepts
    BY <1>2 DEF Ready!AnchorAccepts, Ready!AnchorConfigured
  <1>4. Ready!TreasuryAccepts
    <2>1. SUFFICES ASSUME Ready!TreasuryMode = "enabled"
                   PROVE  env.treasury["token"] # "unset" /\ env.treasury["facilitator"] # "unset"
      BY <1>2 DEF Ready!TreasuryAccepts, Ready!SettingsAreWellFormed, Ready!TreasurySettings,
                  Ready!Given, ReadyInv, SettingsTypeOK
    <2>2. Ready!Provided("token") /\ Ready!Provided("facilitator")
      BY <2>1 DEF Ready!TreasuryMode, Ready!TreasurySettings
    <2>3. QED
      BY <2>2 DEF Ready!Provided
  <1>5. \A v \in Vendors : Ready!CanAsk(v)
    BY <1>1 DEF Ready!CanAsk, Ready!HasEndpoint, Ready!SettingsAreWellFormed
  <1>6. Ready!DispatchAccepts /\ Ready!AuthAccepts /\ Ready!StoreOpens /\ env.workerToken
    BY <1>1, <1>2, <1>5
    DEF Ready!DispatchAccepts, Ready!AuthAccepts, Ready!SettingsAreWellFormed
  <1>7. DOMAIN Ready!Accepts = {"sign_in", "create_mandate", "run_attempt", "dispatch",
                                "reconcile", "drain"}
    BY DEF Ready!Accepts
  <1>8. Ready!Accepts["sign_in"] /\ Ready!Accepts["drain"]
    BY <1>6 DEF Ready!Accepts
  <1>9. Ready!Accepts["create_mandate"] /\ Ready!Accepts["run_attempt"]
    BY <1>3, <1>4, <1>6 DEF Ready!Accepts
  <1>10. Ready!Accepts["dispatch"] /\ Ready!Accepts["reconcile"]
    BY <1>5, <1>6 DEF Ready!Accepts
  <1>11. QED
    BY <1>7, <1>8, <1>9, <1>10 DEF AllAccepted

\* The settings do not change, and neither do the checks that read only them.
LEMMA SettingsStay ==
    ASSUME env' = env
    PROVE  /\ AllAccepted' <=> AllAccepted
           /\ Ready!SettingsAreWellFormed' <=> Ready!SettingsAreWellFormed
  BY DEF AllAccepted, Ready!Accepts, Ready!OperatorAuthReady, Ready!IsProduction,
         Ready!StoreOpens, Ready!PersistenceMode, Ready!AnchorAccepts, Ready!AnchorConfigured,
         Ready!HasSigner, Ready!HasChainId, Ready!TreasuryAccepts, Ready!TreasuryMode,
         Ready!Provided, Ready!NetworkKey, Ready!HasActiveRpc, Ready!ActiveChainId,
         Ready!DispatchAccepts, Ready!CanAsk, Ready!AuthAccepts, Ready!SettingsAreWellFormed

LEMMA ReadyStep == ReadyInv /\ [Ready!ReadyNext]_readinessVars => ReadyInv'
  <1> SUFFICES ASSUME ReadyInv, [Ready!ReadyNext]_readinessVars PROVE ReadyInv'
    OBVIOUS
  <1>1. env' = env
    BY DEF Ready!ReadyNext, Ready!ReadForStatus, Ready!ProbeChain, Ready!ProbePostgres,
           Ready!Operate, Ready!WorldChanges, readinessVars
  <1>2. /\ AllAccepted' <=> AllAccepted
        /\ Ready!SettingsAreWellFormed' <=> Ready!SettingsAreWellFormed
    BY <1>1, SettingsStay
  <1>3. ASSUME "refused" \in outcomes', "refused" \notin outcomes PROVE ~ AllAccepted
    <2>1. PICK operation \in DOMAIN Ready!Accepts : Ready!Operate(operation)
      BY <1>3 DEF Ready!ReadyNext, Ready!ReadForStatus, Ready!ProbeChain, Ready!ProbePostgres,
                  Ready!WorldChanges, readinessVars
    <2>2. ~ Ready!Accepts[operation]
      BY <1>3, <2>1 DEF Ready!Operate
    <2>3. QED
      BY <2>2 DEF AllAccepted
  <1>4. ASSUME report'.status = "ok", report.status # "ok", Ready!SettingsAreWellFormed
        PROVE  AllAccepted
    <2>1. CASE Ready!ProbePostgres
      <3>1. Ready!SystemOk(report, database)
        BY <1>4, <2>1 DEF Ready!ProbePostgres
      <3>2. QED
        BY <3>1, ReportAgrees, <1>4
    <2>2. CASE Ready!ReadForStatus
      BY <1>4, <2>2 DEF Ready!ReadForStatus, Ready!NoReport
    <2>3. CASE Ready!ProbeChain
      BY <1>4, <2>3 DEF Ready!ProbeChain
    <2>4. QED
      BY <1>4, <2>1, <2>2, <2>3
      DEF Ready!ReadyNext, Ready!Operate, Ready!WorldChanges, readinessVars
  <1>5. QED
    BY <1>1, <1>2, <1>3, <1>4 DEF ReadyInv, SettingsTypeOK

\* A deployment that has once reported "ok" refuses no operation for its
\* configuration, as far as its settings are given and well formed.
THEOREM ReadyStaysOperational == OperatorsSpec => []ReadyIsOperational
  <1>1. OperatorsInit => ReadyInv
    <2>1. OperatorsInit => env \in Environments /\ outcomes = {} /\ report = Ready!NoReport
      BY DEF OperatorsInit, Ready!ReadyInit
    <2>2. env \in Environments => SettingsTypeOK
      BY ReadinessSettings
      DEF Ready!ReadinessAssumption, Ready!EnvironmentRecords, SettingsTypeOK
    <2>3. QED
      BY <2>1, <2>2 DEF ReadyInv, Ready!NoReport
  <1>2. ReadyInv /\ [OperatorsNext]_operatorsVars => ReadyInv'
    <2>1. [OperatorsNext]_operatorsVars => [Ready!ReadyNext]_readinessVars
      BY DEF OperatorsNext, OfAccess, OfPanel, OfHook, OfTab, OfReadiness, operatorsVars
    <2>2. QED
      BY <2>1, ReadyStep
  <1>3. ReadyInv => ReadyIsOperational
    BY DEF ReadyInv, ReadyIsOperational, Ready!ReadyIsOperational
  <1>4. QED
    BY <1>1, <1>2, <1>3, PTL DEF OperatorsSpec

-----------------------------------------------------------------------------
\* A step of one request outside of the link's statements.
LEMMA RequestMoves ==
    ASSUME AccessInv, NEW r \in Requests, NEW x \in RequestRecords, schema = 4,
           request' = [request EXCEPT ![r] = x],
           UNCHANGED <<schema, user, accounts, lone>>,
           IsProfile(profile'), profile'.onboarding = profile.onboarding,
           profile'.wallet = profile.wallet,
           x.step \notin LinkSteps, ~ x.clean,
           x.step = "govern" => HasAccount,
           x.step # "idle" => x.wallet \in Wallets
    PROVE  AccessInv'
  <1>1. /\ request' \in [Requests -> RequestRecords] /\ request'[r] = x
        /\ \A q \in Requests \ {r} : request'[q] = request[q]
    BY DEF AccessInv, AccessTypeOK
  <1>2. AccessTypeOK' /\ NotYetServed'
    BY <1>1 DEF AccessInv, AccessTypeOK, NotYetServed
  <1>3. CompleteHasAccount'
    BY <1>1 DEF AccessInv, CompleteHasAccount, HasAccount, LinkSteps
  <1>4. CleanRunsAlone'
    BY <1>1 DEF AccessInv, CleanRunsAlone
  <1>5. LoneIsDone' /\ LoneLinkRepairs'
    BY <1>1 DEF AccessInv, LoneIsDone, LoneLinkRepairs
  <1>6. QED
    BY <1>2, <1>3, <1>4, <1>5 DEF AccessInv

\* A step that is none of a request.
LEMMA ProfileMoves ==
    ASSUME AccessInv, UNCHANGED <<schema, accounts, request>>, user' \in Statuses,
           IsProfile(profile'), profile'.onboarding = profile.onboarding,
           lone' = NoWallet \/ (lone' = lone /\ profile'.wallet = profile.wallet)
    PROVE  AccessInv'
  <1>1. AccessTypeOK' /\ NotYetServed'
    BY DEF AccessInv, AccessTypeOK, NotYetServed
  <1>2. CompleteHasAccount' /\ CleanRunsAlone'
    BY DEF AccessInv, CompleteHasAccount, HasAccount, CleanRunsAlone
  <1>3. LoneIsDone' /\ LoneLinkRepairs'
    BY DEF AccessInv, LoneIsDone, LoneLinkRepairs
  <1>4. QED
    BY <1>1, <1>2, <1>3 DEF AccessInv

\* What is known of a request that is under way.
LEMMA UnderWay ==
    ASSUME AccessInv, NEW r \in Requests, request[r].step # "idle"
    PROVE  /\ schema = 4 /\ request[r] \in RequestRecords /\ request[r].wallet \in Wallets
           /\ request[r].step \notin LinkSteps => ~ request[r].clean
           /\ IsProfile(profile)
  BY DEF AccessInv, AccessTypeOK, NotYetServed, Idle, CompleteHasAccount, CleanRunsAlone

LEMMA IdleIsRequest == Idle \in RequestRecords /\ Idle.step = "idle" /\ ~ Idle.clean
                       /\ "idle" \notin LinkSteps
  BY DEF Idle, RequestRecords, LinkSteps

\* A request ends, or goes on to a step before the link's statements.
LEMMA RequestEndsOrGoes ==
    ASSUME AccessInv, NEW r \in Requests, request[r].step # "idle",
           UNCHANGED <<schema, user, accounts, lone>>,
           IsProfile(profile'), profile'.onboarding = profile.onboarding,
           profile'.wallet = profile.wallet,
           \/ Ends(r)
           \/ /\ request[r].step \notin LinkSteps
              /\ \E step \in {"profile", "provision", "reread", "clear", "gate", "govern"} :
                   Goes(r, step) /\ (step = "govern" => HasAccount)
    PROVE  AccessInv'
  <1>1. CASE Ends(r)
    BY <1>1, UnderWay, IdleIsRequest, RequestMoves DEF Ends
  <1>2. CASE /\ request[r].step \notin LinkSteps
             /\ \E step \in {"profile", "provision", "reread", "clear", "gate", "govern"} :
                  Goes(r, step) /\ (step = "govern" => HasAccount)
    <2>1. PICK step \in {"profile", "provision", "reread", "clear", "gate", "govern"} :
            Goes(r, step) /\ (step = "govern" => HasAccount)
      BY <1>2
    <2> DEFINE x == [request[r] EXCEPT !.step = step]
    <2>2. request' = [request EXCEPT ![r] = x]
      BY <2>1 DEF Goes
    <2>3. /\ x \in RequestRecords /\ x.step = step /\ x.clean = request[r].clean
          /\ x.wallet = request[r].wallet
      BY UnderWay DEF RequestRecords
    <2>4. step \notin LinkSteps
      BY DEF LinkSteps
    <2> HIDE DEF x
    <2>5. QED
      BY <1>2, <2>1, <2>2, <2>3, <2>4, UnderWay, RequestMoves
  <1>3. QED
    BY <1>1, <1>2


\* The requests before and after the link's statements.
LEMMA GateInv ==
    ASSUME AccessInv, NEW r \in Requests,
           \/ Begin(r) \/ GetUser(r) \/ ReadProfile(r) \/ EnsureOperatorProfileRecord(r)
           \/ RereadProfile(r) \/ RequireOnboarding(r) \/ Govern(r) \/ Crash(r)
    PROVE  AccessInv'
  <1>1. CASE Begin(r)
    <2>1. PICK route \in {"link", "govern"}, wallet \in Wallets :
            request' = [request EXCEPT ![r] =
                          [Idle EXCEPT !.step = "user", !.route = route, !.wallet = wallet]]
      BY <1>1 DEF Begin
    <2> DEFINE x == [Idle EXCEPT !.step = "user", !.route = route, !.wallet = wallet]
    <2>2. x \in RequestRecords /\ x.step = "user" /\ ~ x.clean /\ x.wallet = wallet
          /\ x.step \notin LinkSteps
      BY DEF Idle, RequestRecords, LinkSteps
    <2>3. IsProfile(profile)
      BY DEF AccessInv, AccessTypeOK
    <2> HIDE DEF x
    <2>4. QED
      BY <1>1, <2>1, <2>2, <2>3, RequestMoves DEF Begin, x
  <1>2. CASE GetUser(r)
    <2> DEFINE x == [request[r] EXCEPT !.step = "profile", !.saw = user]
    <2>1. request[r].step # "idle" /\ request[r].step \notin LinkSteps
      BY <1>2 DEF GetUser, At, LinkSteps
    <2>2. /\ x \in RequestRecords /\ x.step = "profile" /\ x.clean = request[r].clean
          /\ x.wallet = request[r].wallet /\ x.step \notin LinkSteps
      BY <2>1, UnderWay DEF RequestRecords, LinkSteps, AccessInv, AccessTypeOK
    <2>3. request' = [request EXCEPT ![r] = x]
      BY <1>2, <2>1 DEF GetUser, AccessInv, AccessTypeOK
    <2> HIDE DEF x
    <2>4. QED
      BY <1>2, <2>1, <2>2, <2>3, UnderWay, RequestMoves DEF GetUser
  <1>3. CASE ReadProfile(r) \/ RereadProfile(r)
    <2>1. request[r].step # "idle" /\ request[r].step \notin LinkSteps
      BY <1>3 DEF ReadProfile, RereadProfile, At, LinkSteps
    <2>2. \/ Ends(r)
          \/ \E step \in {"provision", "clear", "gate"} : Goes(r, step)
      BY <1>3 DEF ReadProfile, RereadProfile, CheckProfile, Admitted
    <2>3. UNCHANGED <<schema, user, accounts, lone, profile>>
      BY <1>3 DEF ReadProfile, RereadProfile
    <2>4. QED
      BY <2>1, <2>2, <2>3, UnderWay, RequestEndsOrGoes
  <1>4. CASE EnsureOperatorProfileRecord(r)
    <2>1. request[r].step # "idle" /\ request[r].step \notin LinkSteps
      BY <1>4 DEF EnsureOperatorProfileRecord, At, LinkSteps
    <2>2. Ends(r) \/ Goes(r, "reread")
      BY <1>4 DEF EnsureOperatorProfileRecord
    <2>3. IsProfile(profile') /\ profile'.onboarding = profile.onboarding
          /\ profile'.wallet = profile.wallet
      BY <1>4, <2>1, UnderWay DEF EnsureOperatorProfileRecord, Provisioned, IsProfile
    <2>4. UNCHANGED <<schema, user, accounts, lone>>
      BY <1>4 DEF EnsureOperatorProfileRecord
    <2>5. QED
      BY <2>1, <2>2, <2>3, <2>4, RequestEndsOrGoes
  <1>5. CASE RequireOnboarding(r) \/ Govern(r)
    <2>1. request[r].step # "idle" /\ request[r].step \notin LinkSteps
      BY <1>5 DEF RequireOnboarding, Govern, At, LinkSteps
    <2>2. \/ Ends(r)
          \/ Goes(r, "govern") /\ HasAccount
      BY <1>5 DEF RequireOnboarding, Govern, AccessInv, CompleteHasAccount
    <2>3. UNCHANGED <<schema, user, accounts, lone, profile>>
      BY <1>5 DEF RequireOnboarding, Govern
    <2>4. QED
      BY <2>1, <2>2, <2>3, UnderWay, RequestEndsOrGoes
  <1>6. CASE Crash(r)
    BY <1>6, UnderWay, RequestEndsOrGoes DEF Crash, At
  <1>7. QED
    BY <1>1, <1>2, <1>3, <1>4, <1>5, <1>6

\* The first statement takes the flag of all accounts, or fails unnoticed.
LEMMA ClearInv == ASSUME AccessInv, NEW r \in Requests, ClearPrimary(r) PROVE AccessInv'
  <1>1. PICK fails \in BOOLEAN :
          /\ IF fails THEN FaultHappens("statement") /\ UNCHANGED accounts
             ELSE /\ accounts' = [w \in Wallets |->
                                    IF accounts[w] = "none" THEN "none" ELSE "secondary"]
                  /\ UNCHANGED faults
          /\ request' = [q \in Requests |->
                           IF q = r THEN [request[r] EXCEPT !.step = "upsert",
                                                            !.clean = Linking = {} /\ ~ fails]
                           ELSE [request[q] EXCEPT !.clean = FALSE]]
    BY DEF ClearPrimary
  <1>2. request[r].step = "clear" /\ schema' = 4 /\ UNCHANGED <<user, profile>>
        /\ lone' = NoWallet /\ request[r].wallet \in Wallets
    BY UnderWay DEF ClearPrimary, At
  <1>3. \A q \in Requests :
          /\ request'[q] \in RequestRecords /\ request'[q].wallet = request[q].wallet
          /\ q # r => request'[q].step = request[q].step /\ ~ request'[q].clean
    <2>1. \A q \in Requests : request[q] \in RequestRecords
      BY DEF AccessInv, AccessTypeOK
    <2>2. request'[r] \in RequestRecords /\ request'[r].wallet = request[r].wallet
      BY <1>1, <2>1 DEF RequestRecords
    <2>3. \A q \in Requests \ {r} :
            /\ request'[q] \in RequestRecords /\ request'[q].wallet = request[q].wallet
            /\ request'[q].step = request[q].step /\ ~ request'[q].clean
      <3> SUFFICES ASSUME NEW q \in Requests \ {r}
                   PROVE  /\ request'[q] \in RequestRecords
                          /\ request'[q].wallet = request[q].wallet
                          /\ request'[q].step = request[q].step /\ ~ request'[q].clean
        OBVIOUS
      <3>1. request'[q] = [request[q] EXCEPT !.clean = FALSE] /\ request[q] \in RequestRecords
        BY <1>1, <2>1
      <3>2. QED
        BY <3>1 DEF RequestRecords
    <2>4. QED
      BY <2>2, <2>3
  <1>4. request'[r].step = "upsert" /\ (request'[r].clean => Linking = {} /\ ~ fails)
    <2>1. request[r] \in RequestRecords
      BY DEF AccessInv, AccessTypeOK
    <2>2. QED
      BY <1>1, <2>1 DEF RequestRecords
  <1>5. request' \in [Requests -> RequestRecords]
    BY <1>1, <1>3
  <1>6. accounts' \in [Wallets -> {"none", "primary", "secondary"}]
        /\ HasAccount' = HasAccount
    BY <1>1 DEF AccessInv, AccessTypeOK, HasAccount
  <1>7. AccessTypeOK' /\ NotYetServed'
    BY <1>2, <1>5, <1>6 DEF AccessInv, AccessTypeOK, NotYetServed
  <1>8. CompleteHasAccount'
    BY <1>2, <1>3, <1>4, <1>6 DEF AccessInv, CompleteHasAccount
  <1>9. CleanRunsAlone'
    <2>1. SUFFICES ASSUME request'[r].clean
                   PROVE  /\ \A q \in Requests : request'[q].step \in LinkSteps => q = r
                          /\ \A w \in Wallets : accounts'[w] # "primary"
      BY <1>3, <1>4 DEF CleanRunsAlone, LinkSteps
    <2>2. \A q \in Requests : request[q].step \notin LinkSteps
      BY <1>4, <2>1 DEF Linking
    <2>3. QED
      BY <1>1, <1>3, <1>4, <2>1, <2>2
  <1>10. QED
    BY <1>2, <1>7, <1>8, <1>9 DEF AccessInv, LoneIsDone, LoneLinkRepairs

LEMMA UpsertInv == ASSUME AccessInv, NEW r \in Requests, UpsertWallet(r) PROVE AccessInv'
  <1>1. /\ request[r].step = "upsert" /\ request[r].step # "idle" /\ "upsert" \in LinkSteps
        /\ UNCHANGED <<schema, user, profile, lone>>
    BY DEF UpsertWallet, At, LinkSteps
  <1>2. /\ schema = 4 /\ request[r] \in RequestRecords /\ request[r].wallet \in Wallets
        /\ IsProfile(profile)
    BY <1>1, UnderWay
  <1>3. CASE Ends(r) /\ UNCHANGED accounts
    BY <1>1, <1>2, <1>3, RequestEndsOrGoes
  <1>4. CASE /\ accounts' = [accounts EXCEPT ![request[r].wallet] = "primary"]
             /\ Goes(r, "name")
    <2> DEFINE x == [request[r] EXCEPT !.step = "name"]
               W == request[r].wallet
    <2>1. /\ x \in RequestRecords /\ x.step = "name" /\ x.clean = request[r].clean
          /\ x.wallet = W
      BY <1>2 DEF RequestRecords
    <2>2. request' = [request EXCEPT ![r] = x]
      BY <1>4 DEF Goes
    <2>3. /\ request' \in [Requests -> RequestRecords] /\ request'[r] = x
          /\ \A q \in Requests \ {r} : request'[q] = request[q]
      BY <2>1, <2>2 DEF AccessInv, AccessTypeOK
    <2>4. /\ accounts' \in [Wallets -> {"none", "primary", "secondary"}]
          /\ W \in Wallets
          /\ accounts'[W] = "primary"
          /\ \A w \in Wallets \ {W} : accounts'[w] = accounts[w]
      BY <1>2, <1>4 DEF AccessInv, AccessTypeOK
    <2> HIDE DEF x, W
    <2>5. AccessTypeOK' /\ NotYetServed'
      BY <1>1, <1>2, <2>3, <2>4 DEF AccessInv, AccessTypeOK, NotYetServed
    <2>6. HasAccount'
      BY <2>4 DEF HasAccount
    <2>7. CompleteHasAccount'
      BY <1>1, <2>1, <2>3, <2>4, <2>6 DEF AccessInv, CompleteHasAccount
    <2>8. CleanRunsAlone'
      <3>1. ASSUME NEW q \in Requests, request'[q].clean PROVE q = r
        BY <1>1, <2>3, <3>1 DEF AccessInv, CleanRunsAlone
      <3>2. ASSUME request'[r].clean
            PROVE  /\ \A q \in Requests : request'[q].step \in LinkSteps => q = r
                   /\ \A w \in Wallets : accounts'[w] = "primary" <=> w = W
        <4>1. request[r].clean
          BY <2>1, <2>3, <3>2
        <4>2. /\ \A q \in Requests : request[q].step \in LinkSteps => q = r
              /\ \A w \in Wallets : accounts[w] # "primary"
          BY <1>1, <4>1 DEF AccessInv, CleanRunsAlone
        <4>3. \A q \in Requests : request'[q].step \in LinkSteps => q = r
          BY <2>3, <4>2
        <4>4. \A w \in Wallets : accounts'[w] = "primary" <=> w = W
          BY <2>4, <4>2
        <4>5. QED
          BY <4>3, <4>4
      <3>3. request'[r].step = "name" /\ "name" \in LinkSteps /\ request'[r].wallet = W
        BY <2>1, <2>3 DEF LinkSteps
      <3>4. QED
        BY <3>1, <3>2, <3>3 DEF CleanRunsAlone
    <2>9. lone = NoWallet
      BY <1>1 DEF AccessInv, LoneIsDone
    <2>10. QED
      BY <1>1, <2>5, <2>7, <2>8, <2>9 DEF AccessInv, LoneIsDone, LoneLinkRepairs
  <1>5. QED
    BY <1>3, <1>4 DEF UpsertWallet

LEMMA NameInv == ASSUME AccessInv, NEW r \in Requests, NameWallet(r) PROVE AccessInv'
  <1>1. /\ request[r].step = "name" /\ request[r].step # "idle" /\ "name" \in LinkSteps
        /\ UNCHANGED <<schema, user, accounts>> /\ Ends(r)
    BY DEF NameWallet, At, LinkSteps
  <1>2. /\ schema = 4 /\ request[r] \in RequestRecords /\ request[r].wallet \in Wallets
        /\ IsProfile(profile)
    BY <1>1, UnderWay
  <1>3. CASE UNCHANGED <<profile, lone>>
    BY <1>1, <1>2, <1>3, RequestEndsOrGoes
  <1>4. CASE /\ profile' = [profile EXCEPT !.wallet = request[r].wallet,
                                           !.onboarding = "complete"]
             /\ lone' = IF request[r].clean THEN request[r].wallet ELSE NoWallet
    <2>1. /\ request' \in [Requests -> RequestRecords] /\ request'[r] = Idle
          /\ \A q \in Requests \ {r} : request'[q] = request[q]
      BY <1>1, IdleIsRequest DEF AccessInv, AccessTypeOK, Ends
    <2>2. /\ IsProfile(profile') /\ profile'.wallet = request[r].wallet
          /\ profile'.onboarding = "complete"
      BY <1>2, <1>4 DEF IsProfile
    <2>3. AccessTypeOK' /\ NotYetServed'
      BY <1>1, <1>2, <2>1, <2>2 DEF AccessInv, AccessTypeOK, NotYetServed
    <2>4. HasAccount /\ HasAccount'
      BY <1>1 DEF AccessInv, CompleteHasAccount, HasAccount
    <2>5. CompleteHasAccount'
      BY <2>1, <2>4, IdleIsRequest DEF AccessInv, CompleteHasAccount
    <2>6. CleanRunsAlone'
      BY <1>1, <2>1, IdleIsRequest DEF AccessInv, CleanRunsAlone
    <2>7. ASSUME request[r].clean
          PROVE  /\ \A q \in Requests : request'[q].step \notin LinkSteps
                 /\ \A w \in Wallets : accounts[w] = "primary" <=> w = request[r].wallet
      BY <1>1, <2>1, <2>7, IdleIsRequest DEF AccessInv, CleanRunsAlone
    <2>8. LoneIsDone' /\ LoneLinkRepairs'
      BY <1>1, <1>4, <2>2, <2>7 DEF LoneIsDone, LoneLinkRepairs
    <2>9. QED
      BY <2>3, <2>5, <2>6, <2>8 DEF AccessInv
  <1>5. QED
    BY <1>3, <1>4 DEF NameWallet

LEMMA MigrationInv == ASSUME AccessInv, CreateProfiles \/ CreateWalletAccounts PROVE AccessInv'
  <1>1. /\ \A r \in Requests : request[r] = Idle
        /\ lone = NoWallet /\ UNCHANGED <<request, user, lone>>
    BY DEF AccessInv, NotYetServed, CreateProfiles, CreateWalletAccounts
  <1>2. IsProfile(profile') /\ (profile'.onboarding = "complete" => HasAccount')
        /\ accounts' \in [Wallets -> {"none", "primary", "secondary"}]
        /\ (schema' # 4 => profile'.onboarding # "complete")
    <2>1. CASE CreateProfiles
      BY <2>1 DEF CreateProfiles, IsProfile, AccessInv, AccessTypeOK
    <2>2. CASE CreateWalletAccounts
      BY <2>2 DEF CreateWalletAccounts, IsProfile, HasAccount, AccessInv, AccessTypeOK
    <2>3. QED
      BY <2>1, <2>2
  <1>3. AccessTypeOK' /\ NotYetServed'
    BY <1>1, <1>2 DEF AccessInv, AccessTypeOK, NotYetServed
  <1>4. CompleteHasAccount' /\ CleanRunsAlone' /\ LoneIsDone' /\ LoneLinkRepairs'
    BY <1>1, <1>2
    DEF CompleteHasAccount, CleanRunsAlone, LoneIsDone, LoneLinkRepairs, Idle
  <1>5. QED
    BY <1>3, <1>4 DEF AccessInv

LEMMA AccessStep == AccessInv /\ [AccessNext]_accessVars => AccessInv'
  <1> SUFFICES ASSUME AccessInv, [AccessNext]_accessVars PROVE AccessInv'
    OBVIOUS
  <1>1. IsProfile(profile) /\ user \in Statuses
    BY DEF AccessInv, AccessTypeOK
  <1>2. CASE CreateProfiles \/ CreateWalletAccounts
    BY <1>2, MigrationInv
  <1>3. CASE (\E status \in Statuses : SetUserStatus(status)) \/ SignIn
    <2>1. PICK status \in Statuses : UpdateUser(status)
      BY <1>1, <1>3 DEF SetUserStatus, SignIn
    <2>2. IsProfile(profile') /\ profile'.onboarding = profile.onboarding
          /\ profile'.wallet = profile.wallet
      BY <1>1, <2>1 DEF UpdateUser, IsProfile
    <2>3. QED
      BY <2>1, <2>2, ProfileMoves DEF UpdateUser
  <1>4. CASE (\E wallet \in Wallets \cup {NoWallet} : SyncIdentity(wallet)) \/ DeleteIdentity
    <2>1. IsProfile(profile') /\ profile'.onboarding = profile.onboarding
      BY <1>1, <1>4 DEF SyncIdentity, DeleteIdentity, IsProfile
    <2>2. UNCHANGED <<schema, accounts, request, user>> /\ lone' = NoWallet
      BY <1>4 DEF SyncIdentity, DeleteIdentity
    <2>3. QED
      BY <1>1, <2>1, <2>2, ProfileMoves
  <1>5. CASE EnsureOperatorProfileFromSession
    <2>1. IsProfile(profile') /\ profile'.onboarding = profile.onboarding
          /\ profile'.wallet = profile.wallet
      BY <1>1, <1>5 DEF EnsureOperatorProfileFromSession, Provisioned, IsProfile
    <2>2. QED
      BY <1>1, <1>5, <2>1, ProfileMoves DEF EnsureOperatorProfileFromSession
  <1>6. ASSUME NEW r \in Requests, RequestStep(r) PROVE AccessInv'
    BY <1>6, GateInv, ClearInv, UpsertInv, NameInv DEF RequestStep
  <1>7. CASE UNCHANGED accessVars
    BY <1>7
    DEF AccessInv, AccessTypeOK, NotYetServed, CompleteHasAccount, HasAccount, CleanRunsAlone,
        LoneIsDone, LoneLinkRepairs, accessVars
  <1>8. QED
    BY <1>2, <1>3, <1>4, <1>5, <1>6, <1>7 DEF AccessNext

LEMMA AccessInvariant == OperatorsSpec => []AccessInv
  <1>1. OperatorsInit => AccessInv
    <2> SUFFICES ASSUME AccessInit PROVE AccessInv
      BY DEF OperatorsInit
    <2> USE DEF AccessInit
    <2>1. AccessTypeOK
      BY IdleIsRequest DEF AccessTypeOK, IsProfile, NoProfile
    <2>2. QED
      BY <2>1, IdleIsRequest
      DEF AccessInv, NotYetServed, CompleteHasAccount, CleanRunsAlone, LoneIsDone,
          LoneLinkRepairs, NoProfile, Idle
  <1>2. AccessInv /\ [OperatorsNext]_operatorsVars => AccessInv'
    <2>1. [OperatorsNext]_operatorsVars => [AccessNext]_accessVars
      BY DEF OperatorsNext, OfAccess, OfPanel, OfHook, OfTab, OfReadiness, operatorsVars
    <2>2. QED
      BY <2>1, AccessStep
  <1>3. QED
    BY <1>1, <1>2, PTL DEF OperatorsSpec

\* Whoever governs has a linked wallet, however the links of its requests
\* fail, stop half way or run into each other.
THEOREM GovernorsHaveWallets == OperatorsSpec => []GovernedMeansWallet
  <1>1. AccessInv => GovernedMeansWallet
    BY DEF AccessInv, CompleteHasAccount, GovernedMeansWallet, At
  <1>2. QED
    BY <1>1, AccessInvariant, PTL

\* Once a link has run alone, its wallet is the only primary one and the one
\* that the profile names, until another link or identity interferes.
THEOREM LoneLinksRepair == OperatorsSpec => []LoneLinkRepairs
  <1>1. AccessInv => LoneLinkRepairs
    BY DEF AccessInv
  <1>2. QED
    BY <1>1, AccessInvariant, PTL
=============================================================================
