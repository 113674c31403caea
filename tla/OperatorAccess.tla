--------------------------- MODULE OperatorAccess ---------------------------
(***************************************************************************)
(* The profile of an operator and the wallets linked to it.  Three parties *)
(* write the profile: the triggers that follow the auth provider's tables  *)
(* (migration 0003), the routes and the operator's own browser, which      *)
(* "provision" it from the user they have seen, and the linking of a       *)
(* wallet (operator-access.ts).  Each request of the operator's tabs is a  *)
(* sequence of statements, none of them in a transaction, among the        *)
(* statements of the others.  Row level security keeps operators to their  *)
(* own rows, so that one operator stands for all.                          *)
(***************************************************************************)
EXTENDS Naturals, SequencesExt

CONSTANTS
    Requests,     \* requests that may be under way at the same time
    Wallets,      \* wallets, each with its provider, address and chain
    NoWallet,
    Faults,       \* "query": a read fails, "statement": a write fails,
                  \* "crash": the process of a request stops
    MaxFaults,    \* bound on faults
    MaxUpdates    \* bound on updates by the auth provider

ASSUME NoWalletAssumption == NoWallet \notin Wallets

Statuses == {"active", "disabled"}
NoProfile == [status |-> "none", wallet |-> NoWallet, onboarding |-> "none"]

VARIABLES
    schema,      \* the last of the two migrations applied: 0, 3 or 4
    user,        \* status of the user in the auth provider
    identities,  \* wallets of the user's identities, the last to sign in first
    session,     \* status in the session that the browser holds
    profile,     \* row of operator_profiles
    accounts,    \* rows of operator_treasury_wallet_accounts: is_primary
    request,     \* per request: its step and what it has read
    faults, updates,
    \* history
    lone         \* wallet of the last link, if it ran alone and without faults

accessVars ==
    <<schema, user, identities, session, profile, accounts, request, faults, updates, lone>>

Idle == [step |-> "idle", route |-> "none", wallet |-> NoWallet, saw |-> "none",
         clean |-> FALSE]

AccessInit ==
    /\ schema = 0
    /\ user \in Statuses
    /\ identities \in {<<>>} \cup {<<w>> : w \in Wallets}
    /\ session = user
    /\ profile = NoProfile
    /\ accounts = [w \in Wallets |-> "none"]
    /\ request = [r \in Requests |-> Idle]
    /\ faults = 0 /\ updates = 0
    /\ lone = NoWallet

HasAccount == \E w \in Wallets : accounts[w] # "none"
FaultHappens(kind) == kind \in Faults /\ faults < MaxFaults /\ faults' = faults + 1

-----------------------------------------------------------------------------
(***************************************************************************)
(* Migrations, and the triggers on the tables of the auth provider.        *)
(***************************************************************************)
\* 0003: a profile for every user.  Identities are copied, but the wallet of
\* a profile is only filled by the trigger.
CreateProfiles ==
    /\ schema = 0
    /\ schema' = 3
    /\ profile' = [status |-> user, wallet |-> NoWallet, onboarding |-> "none"]
    /\ UNCHANGED <<user, identities, session, accounts, request, faults, updates, lone>>

\* 0004: the profile's wallet becomes the primary account, and who has an
\* account needs no onboarding.
CreateWalletAccounts ==
    /\ schema = 3
    /\ schema' = 4
    /\ accounts' = [w \in Wallets |-> IF w = profile.wallet THEN "primary" ELSE "none"]
    /\ profile' =
         [profile EXCEPT !.onboarding = IF \E w \in Wallets : accounts'[w] # "none"
                                        THEN "complete" ELSE "needs_treasury_connection"]
    /\ UNCHANGED <<user, identities, session, request, faults, updates, lone>>

Update == updates < MaxUpdates /\ updates' = updates + 1

\* The auth provider writes its user: an administrator sets the status, or
\* the operator signs in.  The trigger overwrites the profile's status.
UpdateUser(status) ==
    /\ Update
    /\ user' = status
    /\ profile' = IF schema = 0 THEN profile ELSE [profile EXCEPT !.status = status]
    /\ UNCHANGED <<schema, identities, accounts, request, faults, lone>>

SetUserStatus(status) ==
    status # user /\ UpdateUser(status) /\ UNCHANGED session
SignIn == UpdateUser(user) /\ session' = user

\* An identity is added or signs in; one without a wallet leaves the
\* profile's wallet as it is.
SyncIdentity(wallet) ==
    /\ Update
    /\ identities' = <<wallet>> \o identities
    /\ profile' = IF schema = 0 \/ wallet = NoWallet THEN profile
                  ELSE [profile EXCEPT !.wallet = wallet]
    /\ lone' = NoWallet
    /\ UNCHANGED <<schema, user, session, accounts, request, faults>>

\* The latest identity that is left gives the profile its wallet, or takes it.
DeleteIdentity ==
    /\ Update
    /\ \E i \in DOMAIN identities : identities' = RemoveAt(identities, i)
    /\ profile' = IF schema = 0 \/ identities' = <<>> THEN profile
                  ELSE [profile EXCEPT !.wallet = identities'[1]]
    /\ lone' = NoWallet
    /\ UNCHANGED <<schema, user, session, accounts, request, faults>>

-----------------------------------------------------------------------------
(***************************************************************************)
(* requireOperator.                                                        *)
(***************************************************************************)
At(r, step) == request[r].step = step
Goes(r, step) == request' = [request EXCEPT ![r].step = step]
Ends(r) == request' = [request EXCEPT ![r] = Idle]

\* Routes: "link" is POST of the access route, "govern" stands for those that
\* issue and revoke mandates, attempt payments and queue reconciliations.
Begin(r) ==
    /\ schema = 4 /\ At(r, "idle")
    /\ \E route \in {"link", "govern"}, wallet \in Wallets :
         request' = [request EXCEPT ![r] =
                       [Idle EXCEPT !.step = "user", !.route = route, !.wallet = wallet]]
    /\ UNCHANGED <<schema, user, identities, session, profile, accounts, faults, updates, lone>>

GetUser(r) ==
    /\ At(r, "user")
    /\ request' = [request EXCEPT ![r].step = "profile", ![r].saw = user]
    /\ UNCHANGED <<schema, user, identities, session, profile, accounts, faults, updates, lone>>

Admitted(r) == IF request[r].route = "link" THEN "clear" ELSE "gate"
CheckProfile(r) ==
    IF profile.status = "disabled" THEN Ends(r) ELSE Goes(r, Admitted(r))

\* An error of the query reads as a profile that is not there.
ReadProfile(r) ==
    /\ At(r, "profile")
    /\ \/ CheckProfile(r) /\ UNCHANGED faults
       \/ FaultHappens("query") /\ Goes(r, "provision")
    /\ UNCHANGED <<schema, user, identities, session, profile, accounts, updates, lone>>

\* The row takes the status of the user as it was seen.
Provisioned(status) == profile' = [profile EXCEPT !.status = status]

EnsureOperatorProfileRecord(r) ==
    /\ At(r, "provision")
    /\ \/ Provisioned(request[r].saw) /\ Goes(r, "reread") /\ UNCHANGED faults
       \/ FaultHappens("statement") /\ Ends(r) /\ UNCHANGED profile
    /\ UNCHANGED <<schema, user, identities, session, accounts, updates, lone>>

\* Without a profile once more, the role comes from the user's metadata, which
\* may have none.
RereadProfile(r) ==
    /\ At(r, "reread")
    /\ \/ CheckProfile(r) /\ UNCHANGED faults
       \/ /\ FaultHappens("query")
          /\ Ends(r) \/ Goes(r, Admitted(r))
    /\ UNCHANGED <<schema, user, identities, session, profile, accounts, updates, lone>>

\* The browser provisions the profile on its own, from its session.
EnsureOperatorProfileFromSession ==
    /\ schema = 4
    /\ Provisioned(session)
    /\ UNCHANGED <<schema, user, identities, session, accounts, request, faults, updates, lone>>

-----------------------------------------------------------------------------
(***************************************************************************)
(* linkTreasuryWalletAccount: three statements.  The error of the first is *)
(* not looked at, those of the others end the request.                     *)
(***************************************************************************)
LinkSteps == {"upsert", "name"}
Linking == {r \in Requests : request[r].step \in LinkSteps}

\* Mutant: onboarding is complete as soon as a link begins.
CompletesEarly(r) ==
    /\ At(r, "clear")
    /\ profile' = [profile EXCEPT !.onboarding = "complete"]
    /\ Goes(r, "upsert")
    /\ accounts' = [w \in Wallets |-> IF accounts[w] = "none" THEN "none" ELSE "secondary"]
    /\ lone' = NoWallet
    /\ UNCHANGED <<schema, user, identities, session, faults, updates>>

\* No other link is under way; those that are now have company.
ClearPrimary(r) ==
    /\ At(r, "clear")
    /\ \E fails \in BOOLEAN :
         /\ IF fails THEN FaultHappens("statement") /\ UNCHANGED accounts
            ELSE /\ accounts' = [w \in Wallets |->
                                   IF accounts[w] = "none" THEN "none" ELSE "secondary"]
                 /\ UNCHANGED faults
         /\ request' = [q \in Requests |->
                          IF q = r THEN [request[r] EXCEPT !.step = "upsert",
                                                           !.clean = Linking = {} /\ ~ fails]
                          ELSE [request[q] EXCEPT !.clean = FALSE]]
    /\ lone' = NoWallet
    /\ UNCHANGED <<schema, user, identities, session, profile, updates>>

\* Mutant: an account that exists keeps its flag.
UpsertInserts(r) ==
    /\ At(r, "upsert")
    /\ \/ /\ accounts' = [accounts EXCEPT ![request[r].wallet] = IF @ = "none" THEN "primary" ELSE @]
          /\ Goes(r, "name") /\ UNCHANGED faults
       \/ FaultHappens("statement") /\ Ends(r) /\ UNCHANGED accounts
    /\ UNCHANGED <<schema, user, identities, session, profile, updates, lone>>

UpsertWallet(r) ==
    /\ At(r, "upsert")
    /\ \/ /\ accounts' = [accounts EXCEPT ![request[r].wallet] = "primary"]
          /\ Goes(r, "name") /\ UNCHANGED faults
       \/ FaultHappens("statement") /\ Ends(r) /\ UNCHANGED accounts
    /\ UNCHANGED <<schema, user, identities, session, profile, updates, lone>>

NameWallet(r) ==
    /\ At(r, "name")
    /\ \/ /\ profile' = [profile EXCEPT !.wallet = request[r].wallet, !.onboarding = "complete"]
          /\ lone' = IF request[r].clean THEN request[r].wallet ELSE NoWallet
          /\ UNCHANGED faults
       \/ FaultHappens("statement") /\ UNCHANGED <<profile, lone>>
    /\ Ends(r)
    /\ UNCHANGED <<schema, user, identities, session, accounts, updates>>

\* requireOperatorOnboardingComplete; then the operation itself, which is the
\* ledger's (MandateLedger).
RequireOnboarding(r) ==
    /\ At(r, "gate")
    /\ \/ /\ IF profile.onboarding = "complete" THEN Goes(r, "govern") ELSE Ends(r)
          /\ UNCHANGED faults
       \/ FaultHappens("query") /\ Ends(r)
    /\ UNCHANGED <<schema, user, identities, session, profile, accounts, updates, lone>>

Govern(r) ==
    /\ At(r, "govern")
    /\ Ends(r)
    /\ UNCHANGED <<schema, user, identities, session, profile, accounts, faults, updates, lone>>

Crash(r) ==
    /\ ~ At(r, "idle")
    /\ FaultHappens("crash")
    /\ Ends(r)
    /\ UNCHANGED <<schema, user, identities, session, profile, accounts, updates, lone>>

RequestStep(r) ==
    \/ Begin(r) \/ GetUser(r) \/ ReadProfile(r)
    \/ EnsureOperatorProfileRecord(r) \/ RereadProfile(r)
    \/ ClearPrimary(r) \/ UpsertWallet(r) \/ NameWallet(r)
    \/ RequireOnboarding(r) \/ Govern(r)
    \/ Crash(r)

AccessNext ==
    \/ CreateProfiles \/ CreateWalletAccounts
    \/ \E status \in Statuses : SetUserStatus(status)
    \/ SignIn
    \/ \E wallet \in Wallets \cup {NoWallet} : SyncIdentity(wallet)
    \/ DeleteIdentity
    \/ EnsureOperatorProfileFromSession
    \/ \E r \in Requests : RequestStep(r)

-----------------------------------------------------------------------------
\* Whoever is past the onboarding gate has a linked wallet, however links fail
\* half way or run into each other.
GovernedMeansWallet ==
    \A r \in Requests : At(r, "govern") => HasAccount

\* Links that overlap or fail may leave no primary wallet or two of them; the
\* next one that runs alone repairs that: its wallet is the only primary one
\* and the one that the profile names.
LoneLinkRepairs ==
    lone # NoWallet =>
      /\ \A w \in Wallets : accounts[w] = "primary" <=> w = lone
      /\ profile.wallet = lone /\ profile.onboarding = "complete"
=============================================================================
