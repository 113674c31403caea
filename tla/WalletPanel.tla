---------------------------- MODULE WalletPanel ----------------------------
(***************************************************************************)
(* The form in which an operator links a treasury wallet                   *)
(* (treasury-connection-panel.tsx), with the bindings it is given          *)
(* (operator-wallet-sdk.ts).  Fields, cards and buttons stay usable while  *)
(* calls are under way: the panel's own calls disable its buttons, those   *)
(* of Privy's controls disable only the controls, and an answer is taken   *)
(* even if the controls that asked for it are gone.                        *)
(***************************************************************************)
EXTENDS Naturals, FiniteSets

CONSTANTS
    PanelWallets,  \* addresses of wallets
    Chains,        \* chain identifiers
    NoRow,         \* no wallet is linked, or no binding is prepared
    MaxLate        \* bound on the answers that outlive their controls

Providers == {"external", "privy", "turnkey"}

\* A binding names a wallet.  Its chain, the one it was made for, is not kept
\* by the code, and neither is whether a field was typed into since: both are
\* history.
Binding(kind, wallet, chain) == [kind |-> kind, wallet |-> wallet, chain |-> chain]

VARIABLES
    form,      \* provider, wallet, chain, the draft of a binding, typed
    panel,     \* call of the panel under way
    controls,  \* Privy's controls: "none", "idle", or the binding being prepared
    late,      \* bindings being prepared for controls that are gone
    row        \* the primary wallet of the profile, at the server

panelVars == <<form, panel, controls, late, row>>

NoControls == Binding("none", NoRow, NoRow)
IdleControls == Binding("idle", NoRow, NoRow)
ControlsOf(provider) == IF provider = "privy" THEN IdleControls ELSE NoControls

PanelInit ==
    /\ form = [provider |-> "external", wallet |-> NoRow,
               chain |-> CHOOSE c \in Chains : TRUE, draft |-> NoRow, typed |-> FALSE]
    /\ panel = [call |-> "load", body |-> NoRow]
    /\ controls = NoControls
    /\ late = {}
    /\ row = NoRow

-----------------------------------------------------------------------------
\* Controls are mounted while the provider is Privy.  When they go, what they
\* asked for is still to be answered.
Mount(provider) ==
    IF provider = "privy" /\ controls # NoControls THEN UNCHANGED <<controls, late>>
    ELSE /\ controls' = ControlsOf(provider)
         /\ late' = IF controls \in {NoControls, IdleControls} THEN late ELSE late \cup {controls}

Unmountable == controls \in {NoControls, IdleControls} \/ Cardinality(late) < MaxLate

Fill(wallet, chain, draft) ==
    form' = [form EXCEPT !.wallet = wallet, !.chain = chain, !.draft = draft, !.typed = FALSE]
FillIn(binding) == Fill(binding.wallet, binding.chain, binding)

SetPanel(call, body) == panel' = [call |-> call, body |-> body]
Interactive == panel.call # "load"
Enabled == panel.call = "none"

-----------------------------------------------------------------------------
\* The operator's clicks and keys.
SelectMode(provider) ==
    /\ Interactive /\ Unmountable
    /\ form' = [form EXCEPT !.provider = provider,
                            !.draft = IF provider = form.provider THEN @ ELSE NoRow]
    /\ Mount(provider)
    /\ UNCHANGED <<panel, row>>

TypeAddress(wallet) ==
    /\ Interactive
    /\ form' = [form EXCEPT !.wallet = wallet, !.typed = TRUE]
    /\ UNCHANGED <<panel, controls, late, row>>

SelectChain(chain) ==
    /\ Interactive
    /\ form' = [form EXCEPT !.chain = chain, !.typed = TRUE]
    /\ UNCHANGED <<panel, controls, late, row>>

ReadBrowserWallet ==
    /\ Enabled /\ form.provider = "external"
    /\ SetPanel("read", NoRow)
    /\ UNCHANGED <<form, controls, late, row>>

\* Account and chain are asked of the extension one after the other.
BrowserWalletAnswers ==
    /\ panel.call = "read"
    /\ \/ \E wallet \in PanelWallets, chain \in Chains : FillIn(Binding("browser", wallet, chain))
       \/ UNCHANGED form
    /\ SetPanel("none", NoRow)
    /\ UNCHANGED <<controls, late, row>>

\* Mutant: the binding of another wallet is kept.
ConnectedKeepsDraft(wallet) ==
    /\ Enabled /\ controls = IdleControls
    /\ form' = [form EXCEPT !.wallet = wallet, !.typed = FALSE]
    /\ UNCHANGED <<panel, controls, late, row>>

\* The controls' wallet session, when an external wallet is connected.
UseConnectedWallet(wallet) ==
    /\ Enabled /\ controls = IdleControls
    /\ Fill(wallet, form.chain, NoRow)
    /\ UNCHANGED <<panel, controls, late, row>>

PreparePrivyWallet(wallet) ==
    /\ Enabled /\ controls = IdleControls
    /\ controls' = Binding("nexus", wallet, form.chain)
    /\ UNCHANGED <<form, panel, late, row>>

\* The answer goes into the form whatever the form has become.
PrivyAnswers ==
    /\ \E binding \in (late \cup {controls}) \ {NoControls, IdleControls} :
         /\ FillIn(binding) \/ UNCHANGED form
         /\ \/ binding \in late /\ late' = late \ {binding} /\ UNCHANGED controls
            \/ binding = controls /\ controls' = IdleControls /\ UNCHANGED late
    /\ UNCHANGED <<panel, row>>

-----------------------------------------------------------------------------
ComputedBinding ==
    IF form.provider = "turnkey" THEN Binding("managed", form.wallet, form.chain) ELSE form.draft

KindOf == [external |-> "browser", privy |-> "nexus", turnkey |-> "managed"]

ReadyToLink ==
    /\ form.wallet # NoRow
    /\ ComputedBinding # NoRow
    /\ ComputedBinding.kind = KindOf[form.provider]

\* The request holds the form as it was when the button was shown.
CompleteLink ==
    /\ Enabled /\ ReadyToLink
    /\ SetPanel("save", [provider |-> form.provider, wallet |-> form.wallet,
                         chain |-> form.chain, binding |-> ComputedBinding,
                         typed |-> form.provider # "turnkey" /\ form.typed])
    /\ UNCHANGED <<form, controls, late, row>>

SaveAnswers ==
    /\ panel.call = "save"
    /\ \/ row' = panel.body /\ SetPanel("reload", NoRow)
       \/ UNCHANGED row /\ SetPanel("none", NoRow)
    /\ UNCHANGED <<form, controls, late>>

\* A wallet that the hook of the console, or another tab, has linked.
LinkedElsewhere(wallet, chain) ==
    /\ row' = [provider |-> "external", wallet |-> wallet, chain |-> chain,
               binding |-> Binding("browser", wallet, chain), typed |-> FALSE]
    /\ UNCHANGED <<form, panel, controls, late>>

\* The first load, and the one after a save, set the whole form.  A first
\* load that fails leaves the form hidden.
ApplyPrimaryWallet ==
    IF row = NoRow THEN UNCHANGED <<form, controls, late>>
    ELSE /\ Unmountable
         /\ form' = [provider |-> row.provider, wallet |-> row.wallet, chain |-> row.chain,
                     draft |-> row.binding, typed |-> row.typed]
         /\ Mount(row.provider)

LoadAccessState ==
    /\ panel.call \in {"load", "reload"}
    /\ \/ ApplyPrimaryWallet /\ SetPanel("none", NoRow)
       \/ panel.call = "reload" /\ SetPanel("none", NoRow) /\ UNCHANGED <<form, controls, late>>
    /\ UNCHANGED row

PanelNext ==
    \/ \E provider \in Providers : SelectMode(provider)
    \/ \E wallet \in PanelWallets :
         TypeAddress(wallet) \/ UseConnectedWallet(wallet) \/ PreparePrivyWallet(wallet)
    \/ \E chain \in Chains : SelectChain(chain)
    \/ ReadBrowserWallet \/ BrowserWalletAnswers
    \/ PrivyAnswers
    \/ CompleteLink \/ SaveAnswers
    \/ \E wallet \in PanelWallets, chain \in Chains : LinkedElsewhere(wallet, chain)
    \/ LoadAccessState

-----------------------------------------------------------------------------
\* Whatever answers come late and however the operator switches meanwhile,
\* the wallet and the chain that are saved are those that the saved binding
\* was made for, unless the operator typed over them after it was made.
SavedBindingIsItsWallets ==
    row # NoRow /\ ~ row.typed =>
      /\ row.binding.wallet = row.wallet /\ row.binding.chain = row.chain
      /\ row.binding.kind = KindOf[row.provider]
=============================================================================
