--------------------------- MODULE ConsoleWallet ---------------------------
(***************************************************************************)
(* The hook that links the wallet an operator connects from the console    *)
(* (use-console-treasury-wallet.ts).  Connecting sets a flag that is not   *)
(* part of the rendered state; an effect links the wallet, and runs when   *)
(* one of the values it depends on has changed: before any other event,    *)
(* so that it is part of the step that changes the value.                  *)
(***************************************************************************)
CONSTANTS
    ConsoleWallets,  \* addresses of wallets
    NoConsoleWallet

Unset == NoConsoleWallet

VARIABLES
    hook,      \* state of the hook and of the provider's hooks it uses
    first,     \* the load of the first rendering
    link,      \* the link under way: its step and its wallet
    linked,    \* the primary wallet at the server
    arrived,   \* history: the wallet that connected after the last request,
               \* until it is gone or a link of it has ended well
    behind     \* history: it came while a link of another one was under way

histories == <<arrived, behind>>
hookVars == <<hook, first, link, linked, histories>>

NoLink == [step |-> "none", wallet |-> Unset]

\* The wallet may be connected, and another be linked, when the page opens.
HookInit ==
    /\ hook \in [ready : {FALSE}, authenticated : BOOLEAN, requested : {FALSE},
                 primary : {Unset}, external : ConsoleWallets \cup {Unset}]
    /\ first = [step |-> "sent", wallet |-> Unset]
    /\ link = NoLink
    /\ linked \in ConsoleWallets \cup {Unset}
    /\ arrived = Unset /\ behind = FALSE

\* The effect, with the values of the rendering that follows the step.
Effect ==
    link' = IF /\ hook'.requested /\ hook'.ready
               /\ hook'.external # Unset /\ hook'.primary = Unset
            THEN [step |-> "post", wallet |-> hook'.external] ELSE NoLink

\* It does nothing while a link is under way.
Renders == IF link # NoLink THEN UNCHANGED link ELSE Effect

-----------------------------------------------------------------------------
BecomeReady ==
    /\ ~ hook.ready
    /\ hook' = [hook EXCEPT !.ready = TRUE]
    /\ Renders
    /\ UNCHANGED <<first, linked, histories>>

\* The button is for a console that knows no wallet, and waits for a link that
\* is under way.  The flag alone does not run the effect.
ConnectExternalWallet ==
    /\ hook.ready /\ hook.primary = Unset /\ link = NoLink
    /\ hook' = [hook EXCEPT !.requested = TRUE]
    /\ arrived' = Unset /\ behind' = FALSE
    /\ UNCHANGED <<first, link, linked>>

\* The button may lead to a login, and links are made for a user.
LogIn ==
    /\ hook.requested /\ ~ hook.authenticated
    /\ hook' = [hook EXCEPT !.authenticated = TRUE]
    /\ Renders
    /\ UNCHANGED <<first, linked, histories>>

\* The provider reports a wallet, another one, or none.
WalletsChange(wallet) ==
    /\ wallet # hook.external
    /\ hook' = [hook EXCEPT !.external = wallet]
    /\ arrived' = IF hook.requested THEN wallet ELSE Unset
    /\ behind' = (arrived' # Unset /\ link # NoLink /\ link.wallet # wallet)
    /\ Renders
    /\ UNCHANGED <<first, linked>>

\* The load of the first rendering does not wait for links.  One that fails
\* keeps what was known.
ServeFirstLoad ==
    /\ first.step = "sent"
    /\ first' = [step |-> "served", wallet |-> linked]
    /\ UNCHANGED <<hook, link, linked, histories>>

FirstLoad ==
    /\ first.step = "served"
    /\ first' = [step |-> "done", wallet |-> Unset]
    /\ \E primary \in {first.wallet, hook.primary} : hook' = [hook EXCEPT !.primary = primary]
    /\ Renders
    /\ UNCHANGED <<linked, histories>>

\* Mutant: the flag is cleared however the link ends.
GivesUp(done) ==
    /\ link.step = "post"
    /\ linked' = IF done THEN link.wallet ELSE linked
    /\ hook' = [hook EXCEPT !.requested = FALSE]
    /\ Effect
    /\ UNCHANGED <<first, histories>>

\* The link is sent; its request may fail before or after the server has
\* done it.  A failure keeps the flag, and leaving the link runs the effect.
LinkFails(done) ==
    /\ link.step = "post"
    /\ linked' = IF done THEN link.wallet ELSE linked
    /\ UNCHANGED hook
    /\ Effect
    /\ UNCHANGED <<first, histories>>

LinkSucceeds ==
    /\ link.step = "post"
    /\ linked' = link.wallet
    /\ link' = [link EXCEPT !.step = "reload"]
    /\ UNCHANGED <<hook, first, histories>>

\* The load after the link: an answer that is an error ends it well, one
\* that does not arrive is a failure of the link.
Reload ==
    /\ link.step = "reload"
    /\ \/ /\ \E primary \in {linked, link.wallet, hook.primary} :
               hook' = [hook EXCEPT !.primary = primary, !.requested = FALSE]
          /\ arrived' = IF arrived = link.wallet THEN Unset ELSE arrived
       \/ UNCHANGED <<hook, arrived>>
    /\ Effect
    /\ UNCHANGED <<first, linked, behind>>

\* The panel, or another tab, links a wallet.
LinkedByOthers(wallet) ==
    /\ linked' = wallet
    /\ UNCHANGED <<hook, first, link, histories>>

HookNext ==
    \/ BecomeReady \/ ConnectExternalWallet \/ LogIn
    \/ ServeFirstLoad \/ FirstLoad
    \/ \E wallet \in ConsoleWallets \cup {Unset} : WalletsChange(wallet)
    \/ \E done \in BOOLEAN : LinkFails(done)
    \/ LinkSucceeds \/ Reload
    \/ \E wallet \in ConsoleWallets : LinkedByOthers(wallet)

-----------------------------------------------------------------------------
\* A wallet that connects after its operator asked for one is not forgotten:
\* until a link of it has ended well, a link of this wallet is under way, again
\* after every failure, unless another primary wallet is known.  The exception
\* is a wallet that came behind, while a link of another one was under way: it
\* takes its turn if that link fails, and is forgotten if that link ends well
\* and the load after it does not say so, because the flag is cleared for both.
ArrivedIsLinked ==
    arrived # Unset =>
      \/ hook.primary # Unset
      \/ link # NoLink /\ (link.wallet = arrived \/ behind)
      \/ behind /\ ~ hook.requested
=============================================================================
