------------------------------ MODULE PartsProofs ------------------------------
(***************************************************************************)
(* The parts of MCParts keep what their modules promise, whatever sets and *)
(* bounds the constants of MCParts are given: an order in escrow and its   *)
(* invoice by the theorems of their own modules, the others by inductive   *)
(* invariants that are proved here, of the one part that is at work.       *)
(***************************************************************************)
EXTENDS MCParts, FiniteSetTheorems, TLAPS

LEMMA PartStays == [Next]_allVars => UNCHANGED part
  BY DEF Next, allVars

\* The part buyer runs as its module says, in its behaviours and in no other.
LEMMA BuyerRuns ==
    /\ Spec /\ part = "buyer" => Buyer!Spec /\ [](part = "buyer")
    /\ Spec /\ ~(part = "buyer") => []~(part = "buyer")
<1>1. part = "buyer" /\ Init => Buyer!Init
  BY DEF Init
<1>2. part = "buyer" /\ [Next]_allVars => [Buyer!Next]_(Buyer!vars) /\ (part = "buyer")'
  <2>1. ASSUME part = "buyer", Next
        PROVE  [Buyer!Next]_(Buyer!vars) /\ (part = "buyer")'
    BY <2>1 DEF Next, EscrowNext, CheckoutNext, InvoiceNext, SyncNext, CartNext, LoginNext,
                StoresNext, PayoutsNext, KeptNext, TokensNext
  <2>2. ASSUME part = "buyer", UNCHANGED allVars
        PROVE  UNCHANGED Buyer!vars /\ (part = "buyer")'
    BY <2>2 DEF allVars, escrowVars, Buyer!vars
  <2> QED
    BY <2>1, <2>2
<1>3. ~(part = "buyer") /\ [Next]_allVars => (~(part = "buyer"))'
  BY PartStays
<1>4. Spec /\ part = "buyer" => Buyer!Spec /\ [](part = "buyer")
  BY <1>1, <1>2, PTL DEF Spec, Buyer!Spec
<1>5. Spec /\ ~(part = "buyer") => []~(part = "buyer")
  BY <1>3, PTL DEF Spec
<1> QED
  BY <1>4, <1>5

\* The part qris runs as its module says, in its behaviours and in no other.
LEMMA QrisRuns ==
    /\ Spec /\ part = "qris" => Qris!Spec /\ [](part = "qris")
    /\ Spec /\ ~(part = "qris") => []~(part = "qris")
<1>1. part = "qris" /\ Init => Qris!Init
  BY DEF Init
<1>2. part = "qris" /\ [Next]_allVars => [Qris!Next]_(Qris!vars) /\ (part = "qris")'
  <2>1. ASSUME part = "qris", Next
        PROVE  [Qris!Next]_(Qris!vars) /\ (part = "qris")'
    BY <2>1 DEF Next, EscrowNext, CheckoutNext, InvoiceNext, SyncNext, CartNext, LoginNext,
                StoresNext, PayoutsNext, KeptNext, TokensNext
  <2>2. ASSUME part = "qris", UNCHANGED allVars
        PROVE  UNCHANGED Qris!vars /\ (part = "qris")'
    BY <2>2 DEF allVars, invoiceVars, Qris!vars
  <2> QED
    BY <2>1, <2>2
<1>3. ~(part = "qris") /\ [Next]_allVars => (~(part = "qris"))'
  BY PartStays
<1>4. Spec /\ part = "qris" => Qris!Spec /\ [](part = "qris")
  BY <1>1, <1>2, PTL DEF Spec, Qris!Spec
<1>5. Spec /\ ~(part = "qris") => []~(part = "qris")
  BY <1>3, PTL DEF Spec
<1> QED
  BY <1>4, <1>5

\* The part switched runs as its module says, in its behaviours and in no other.
LEMMA SwitchedRuns ==
    /\ Spec /\ part = "switched" => Switched!Spec /\ [](part = "switched")
    /\ Spec /\ ~(part = "switched") => []~(part = "switched")
<1>1. part = "switched" /\ Init => Switched!Init
  BY DEF Init
<1>2. part = "switched" /\ [Next]_allVars => [Switched!Next]_(Switched!vars) /\ (part = "switched")'
  <2>1. ASSUME part = "switched", Next
        PROVE  [Switched!Next]_(Switched!vars) /\ (part = "switched")'
    BY <2>1 DEF Next, EscrowNext, CheckoutNext, InvoiceNext, SyncNext, CartNext, LoginNext,
                StoresNext, PayoutsNext, KeptNext, TokensNext
  <2>2. ASSUME part = "switched", UNCHANGED allVars
        PROVE  UNCHANGED Switched!vars /\ (part = "switched")'
    BY <2>2 DEF allVars, invoiceVars, Switched!vars
  <2> QED
    BY <2>1, <2>2
<1>3. ~(part = "switched") /\ [Next]_allVars => (~(part = "switched"))'
  BY PartStays
<1>4. Spec /\ part = "switched" => Switched!Spec /\ [](part = "switched")
  BY <1>1, <1>2, PTL DEF Spec, Switched!Spec
<1>5. Spec /\ ~(part = "switched") => []~(part = "switched")
  BY <1>3, PTL DEF Spec
<1> QED
  BY <1>4, <1>5

\* The part hosted runs as its module says, in its behaviours and in no other.
LEMMA HostedRuns ==
    /\ Spec /\ part = "hosted" => Hosted!Spec /\ [](part = "hosted")
    /\ Spec /\ ~(part = "hosted") => []~(part = "hosted")
<1>1. part = "hosted" /\ Init => Hosted!Init
  BY DEF Init
<1>2. part = "hosted" /\ [Next]_allVars => [Hosted!Next]_(Hosted!vars) /\ (part = "hosted")'
  <2>1. ASSUME part = "hosted", Next
        PROVE  [Hosted!Next]_(Hosted!vars) /\ (part = "hosted")'
    BY <2>1 DEF Next, EscrowNext, CheckoutNext, InvoiceNext, SyncNext, CartNext, LoginNext,
                StoresNext, PayoutsNext, KeptNext, TokensNext
  <2>2. ASSUME part = "hosted", UNCHANGED allVars
        PROVE  UNCHANGED Hosted!vars /\ (part = "hosted")'
    BY <2>2 DEF allVars, invoiceVars, Hosted!vars
  <2> QED
    BY <2>1, <2>2
<1>3. ~(part = "hosted") /\ [Next]_allVars => (~(part = "hosted"))'
  BY PartStays
<1>4. Spec /\ part = "hosted" => Hosted!Spec /\ [](part = "hosted")
  BY <1>1, <1>2, PTL DEF Spec, Hosted!Spec
<1>5. Spec /\ ~(part = "hosted") => []~(part = "hosted")
  BY <1>3, PTL DEF Spec
<1> QED
  BY <1>4, <1>5

\* The part checkout runs as its module says, in its behaviours and in no other.
LEMMA CheckoutRuns ==
    /\ Spec /\ part = "checkout" => Checkout!Spec /\ [](part = "checkout")
    /\ Spec /\ ~(part = "checkout") => []~(part = "checkout")
<1>1. part = "checkout" /\ Init => Checkout!Init
  BY DEF Init
<1>2. part = "checkout" /\ [Next]_allVars => [Checkout!Next]_(Checkout!checkoutVars) /\ (part = "checkout")'
  <2>1. ASSUME part = "checkout", Next
        PROVE  [Checkout!Next]_(Checkout!checkoutVars) /\ (part = "checkout")'
    BY <2>1 DEF Next, EscrowNext, CheckoutNext, InvoiceNext, SyncNext, CartNext, LoginNext,
                StoresNext, PayoutsNext, KeptNext, TokensNext
  <2>2. ASSUME part = "checkout", UNCHANGED allVars
        PROVE  UNCHANGED Checkout!checkoutVars /\ (part = "checkout")'
    BY <2>2 DEF allVars, checkoutVars, Checkout!checkoutVars
  <2> QED
    BY <2>1, <2>2
<1>3. ~(part = "checkout") /\ [Next]_allVars => (~(part = "checkout"))'
  BY PartStays
<1>4. Spec /\ part = "checkout" => Checkout!Spec /\ [](part = "checkout")
  BY <1>1, <1>2, PTL DEF Spec, Checkout!Spec
<1>5. Spec /\ ~(part = "checkout") => []~(part = "checkout")
  BY <1>3, PTL DEF Spec
<1> QED
  BY <1>4, <1>5

\* The part told runs as its module says, in its behaviours and in no other.
LEMMA ToldRuns ==
    /\ Spec /\ part = "told" => Told!Spec /\ [](part = "told")
    /\ Spec /\ ~(part = "told") => []~(part = "told")
<1>1. part = "told" /\ Init => Told!Init
  BY DEF Init
<1>2. part = "told" /\ [Next]_allVars => [Told!Next]_(Told!vars) /\ (part = "told")'
  <2>1. ASSUME part = "told", Next
        PROVE  [Told!Next]_(Told!vars) /\ (part = "told")'
    BY <2>1 DEF Next, EscrowNext, CheckoutNext, InvoiceNext, SyncNext, CartNext, LoginNext,
                StoresNext, PayoutsNext, KeptNext, TokensNext
  <2>2. ASSUME part = "told", UNCHANGED allVars
        PROVE  UNCHANGED Told!vars /\ (part = "told")'
    BY <2>2 DEF allVars, syncVars, Told!vars
  <2> QED
    BY <2>1, <2>2
<1>3. ~(part = "told") /\ [Next]_allVars => (~(part = "told"))'
  BY PartStays
<1>4. Spec /\ part = "told" => Told!Spec /\ [](part = "told")
  BY <1>1, <1>2, PTL DEF Spec, Told!Spec
<1>5. Spec /\ ~(part = "told") => []~(part = "told")
  BY <1>3, PTL DEF Spec
<1> QED
  BY <1>4, <1>5

\* The part told_late runs as its module says, in its behaviours and in no other.
LEMMA ToldLateRuns ==
    /\ Spec /\ part = "told_late" => ToldLate!Spec /\ [](part = "told_late")
    /\ Spec /\ ~(part = "told_late") => []~(part = "told_late")
<1>1. part = "told_late" /\ Init => ToldLate!Init
  BY DEF Init
<1>2. part = "told_late" /\ [Next]_allVars => [ToldLate!Next]_(ToldLate!vars) /\ (part = "told_late")'
  <2>1. ASSUME part = "told_late", Next
        PROVE  [ToldLate!Next]_(ToldLate!vars) /\ (part = "told_late")'
    BY <2>1 DEF Next, EscrowNext, CheckoutNext, InvoiceNext, SyncNext, CartNext, LoginNext,
                StoresNext, PayoutsNext, KeptNext, TokensNext
  <2>2. ASSUME part = "told_late", UNCHANGED allVars
        PROVE  UNCHANGED ToldLate!vars /\ (part = "told_late")'
    BY <2>2 DEF allVars, syncVars, ToldLate!vars
  <2> QED
    BY <2>1, <2>2
<1>3. ~(part = "told_late") /\ [Next]_allVars => (~(part = "told_late"))'
  BY PartStays
<1>4. Spec /\ part = "told_late" => ToldLate!Spec /\ [](part = "told_late")
  BY <1>1, <1>2, PTL DEF Spec, ToldLate!Spec
<1>5. Spec /\ ~(part = "told_late") => []~(part = "told_late")
  BY <1>3, PTL DEF Spec
<1> QED
  BY <1>4, <1>5

\* The part two_at_once runs as its module says, in its behaviours and in no other.
LEMMA TwoAtOnceRuns ==
    /\ Spec /\ part = "two_at_once" => CartOf(Requests, {n1})!Spec /\ [](part = "two_at_once")
    /\ Spec /\ ~(part = "two_at_once") => []~(part = "two_at_once")
<1>1. part = "two_at_once" /\ Init => CartOf(Requests, {n1})!Init
  BY DEF Init
<1>2. part = "two_at_once" /\ [Next]_allVars => [CartOf(Requests, {n1})!Next]_(CartOf(Requests, {n1})!vars) /\ (part = "two_at_once")'
  <2>1. ASSUME part = "two_at_once", Next
        PROVE  [CartOf(Requests, {n1})!Next]_(CartOf(Requests, {n1})!vars) /\ (part = "two_at_once")'
    BY <2>1 DEF Next, EscrowNext, CheckoutNext, InvoiceNext, SyncNext, CartNext, LoginNext,
                StoresNext, PayoutsNext, KeptNext, TokensNext
  <2>2. ASSUME part = "two_at_once", UNCHANGED allVars
        PROVE  UNCHANGED CartOf(Requests, {n1})!vars /\ (part = "two_at_once")'
    BY <2>2 DEF allVars, cartVars, CartOf!vars
  <2> QED
    BY <2>1, <2>2
<1>3. ~(part = "two_at_once") /\ [Next]_allVars => (~(part = "two_at_once"))'
  BY PartStays
<1>4. Spec /\ part = "two_at_once" => CartOf(Requests, {n1})!Spec /\ [](part = "two_at_once")
  BY <1>1, <1>2, PTL DEF Spec, CartOf!Spec
<1>5. Spec /\ ~(part = "two_at_once") => []~(part = "two_at_once")
  BY <1>3, PTL DEF Spec
<1> QED
  BY <1>4, <1>5

\* The part one_by_one runs as its module says, in its behaviours and in no other.
LEMMA OneByOneRuns ==
    /\ Spec /\ part = "one_by_one" => CartOf({r1}, Notices)!Spec /\ [](part = "one_by_one")
    /\ Spec /\ ~(part = "one_by_one") => []~(part = "one_by_one")
<1>1. part = "one_by_one" /\ Init => CartOf({r1}, Notices)!Init
  BY DEF Init
<1>2. part = "one_by_one" /\ [Next]_allVars => [CartOf({r1}, Notices)!Next]_(CartOf({r1}, Notices)!vars) /\ (part = "one_by_one")'
  <2>1. ASSUME part = "one_by_one", Next
        PROVE  [CartOf({r1}, Notices)!Next]_(CartOf({r1}, Notices)!vars) /\ (part = "one_by_one")'
    BY <2>1 DEF Next, EscrowNext, CheckoutNext, InvoiceNext, SyncNext, CartNext, LoginNext,
                StoresNext, PayoutsNext, KeptNext, TokensNext
  <2>2. ASSUME part = "one_by_one", UNCHANGED allVars
        PROVE  UNCHANGED CartOf({r1}, Notices)!vars /\ (part = "one_by_one")'
    BY <2>2 DEF allVars, cartVars, CartOf!vars
  <2> QED
    BY <2>1, <2>2
<1>3. ~(part = "one_by_one") /\ [Next]_allVars => (~(part = "one_by_one"))'
  BY PartStays
<1>4. Spec /\ part = "one_by_one" => CartOf({r1}, Notices)!Spec /\ [](part = "one_by_one")
  BY <1>1, <1>2, PTL DEF Spec, CartOf!Spec
<1>5. Spec /\ ~(part = "one_by_one") => []~(part = "one_by_one")
  BY <1>3, PTL DEF Spec
<1> QED
  BY <1>4, <1>5

\* The part login runs as its module says, in its behaviours and in no other.
LEMMA LoginRuns ==
    /\ Spec /\ part = "login" => Login!Spec /\ [](part = "login")
    /\ Spec /\ ~(part = "login") => []~(part = "login")
<1>1. part = "login" /\ Init => Login!Init
  BY DEF Init
<1>2. part = "login" /\ [Next]_allVars => [Login!Next]_(Login!vars) /\ (part = "login")'
  <2>1. ASSUME part = "login", Next
        PROVE  [Login!Next]_(Login!vars) /\ (part = "login")'
    BY <2>1 DEF Next, EscrowNext, CheckoutNext, InvoiceNext, SyncNext, CartNext, LoginNext,
                StoresNext, PayoutsNext, KeptNext, TokensNext
  <2>2. ASSUME part = "login", UNCHANGED allVars
        PROVE  UNCHANGED Login!vars /\ (part = "login")'
    BY <2>2 DEF allVars, loginVars, Login!vars
  <2> QED
    BY <2>1, <2>2
<1>3. ~(part = "login") /\ [Next]_allVars => (~(part = "login"))'
  BY PartStays
<1>4. Spec /\ part = "login" => Login!Spec /\ [](part = "login")
  BY <1>1, <1>2, PTL DEF Spec, Login!Spec
<1>5. Spec /\ ~(part = "login") => []~(part = "login")
  BY <1>3, PTL DEF Spec
<1> QED
  BY <1>4, <1>5

\* The part members runs as its module says, in its behaviours and in no other.
LEMMA MembersRuns ==
    /\ Spec /\ part = "members" => Members!Spec /\ [](part = "members")
    /\ Spec /\ ~(part = "members") => []~(part = "members")
<1>1. part = "members" /\ Init => Members!Init
  BY DEF Init
<1>2. part = "members" /\ [Next]_allVars => [Members!Next]_(Members!vars) /\ (part = "members")'
  <2>1. ASSUME part = "members", Next
        PROVE  [Members!Next]_(Members!vars) /\ (part = "members")'
    BY <2>1 DEF Next, EscrowNext, CheckoutNext, InvoiceNext, SyncNext, CartNext, LoginNext,
                StoresNext, PayoutsNext, KeptNext, TokensNext
  <2>2. ASSUME part = "members", UNCHANGED allVars
        PROVE  UNCHANGED Members!vars /\ (part = "members")'
    BY <2>2 DEF allVars, storeVars, Members!vars
  <2> QED
    BY <2>1, <2>2
<1>3. ~(part = "members") /\ [Next]_allVars => (~(part = "members"))'
  BY PartStays
<1>4. Spec /\ part = "members" => Members!Spec /\ [](part = "members")
  BY <1>1, <1>2, PTL DEF Spec, Members!Spec
<1>5. Spec /\ ~(part = "members") => []~(part = "members")
  BY <1>3, PTL DEF Spec
<1> QED
  BY <1>4, <1>5

\* The part payouts runs as its module says, in its behaviours and in no other.
LEMMA PayoutsRuns ==
    /\ Spec /\ part = "payouts" => Payouts!Spec /\ [](part = "payouts")
    /\ Spec /\ ~(part = "payouts") => []~(part = "payouts")
<1>1. part = "payouts" /\ Init => Payouts!Init
  BY DEF Init
<1>2. part = "payouts" /\ [Next]_allVars => [Payouts!Next]_(Payouts!vars) /\ (part = "payouts")'
  <2>1. ASSUME part = "payouts", Next
        PROVE  [Payouts!Next]_(Payouts!vars) /\ (part = "payouts")'
    BY <2>1 DEF Next, EscrowNext, CheckoutNext, InvoiceNext, SyncNext, CartNext, LoginNext,
                StoresNext, PayoutsNext, KeptNext, TokensNext
  <2>2. ASSUME part = "payouts", UNCHANGED allVars
        PROVE  UNCHANGED Payouts!vars /\ (part = "payouts")'
    BY <2>2 DEF allVars, payoutVars, Payouts!vars
  <2> QED
    BY <2>1, <2>2
<1>3. ~(part = "payouts") /\ [Next]_allVars => (~(part = "payouts"))'
  BY PartStays
<1>4. Spec /\ part = "payouts" => Payouts!Spec /\ [](part = "payouts")
  BY <1>1, <1>2, PTL DEF Spec, Payouts!Spec
<1>5. Spec /\ ~(part = "payouts") => []~(part = "payouts")
  BY <1>3, PTL DEF Spec
<1> QED
  BY <1>4, <1>5

\* The part kept runs as its module says, in its behaviours and in no other.
LEMMA KeptRuns ==
    /\ Spec /\ part = "kept" => Kept!Spec /\ [](part = "kept")
    /\ Spec /\ ~(part = "kept") => []~(part = "kept")
<1>1. part = "kept" /\ Init => Kept!Init
  BY DEF Init
<1>2. part = "kept" /\ [Next]_allVars => [Kept!Next]_(Kept!vars) /\ (part = "kept")'
  <2>1. ASSUME part = "kept", Next
        PROVE  [Kept!Next]_(Kept!vars) /\ (part = "kept")'
    BY <2>1 DEF Next, EscrowNext, CheckoutNext, InvoiceNext, SyncNext, CartNext, LoginNext,
                StoresNext, PayoutsNext, KeptNext, TokensNext
  <2>2. ASSUME part = "kept", UNCHANGED allVars
        PROVE  UNCHANGED Kept!vars /\ (part = "kept")'
    BY <2>2 DEF allVars, keptVars, Kept!vars
  <2> QED
    BY <2>1, <2>2
<1>3. ~(part = "kept") /\ [Next]_allVars => (~(part = "kept"))'
  BY PartStays
<1>4. Spec /\ part = "kept" => Kept!Spec /\ [](part = "kept")
  BY <1>1, <1>2, PTL DEF Spec, Kept!Spec
<1>5. Spec /\ ~(part = "kept") => []~(part = "kept")
  BY <1>3, PTL DEF Spec
<1> QED
  BY <1>4, <1>5

\* The part tokens runs as its module says, in its behaviours and in no other.
LEMMA TokensRuns ==
    /\ Spec /\ part = "tokens" => Tokens!Spec /\ [](part = "tokens")
    /\ Spec /\ ~(part = "tokens") => []~(part = "tokens")
<1>1. part = "tokens" /\ Init => Tokens!Init
  BY DEF Init
<1>2. part = "tokens" /\ [Next]_allVars => [Tokens!Next]_(Tokens!tokenVars) /\ (part = "tokens")'
  <2>1. ASSUME part = "tokens", Next
        PROVE  [Tokens!Next]_(Tokens!tokenVars) /\ (part = "tokens")'
    BY <2>1 DEF Next, EscrowNext, CheckoutNext, InvoiceNext, SyncNext, CartNext, LoginNext,
                StoresNext, PayoutsNext, KeptNext, TokensNext
  <2>2. ASSUME part = "tokens", UNCHANGED allVars
        PROVE  UNCHANGED Tokens!tokenVars /\ (part = "tokens")'
    BY <2>2 DEF allVars, tokenVars, Tokens!tokenVars
  <2> QED
    BY <2>1, <2>2
<1>3. ~(part = "tokens") /\ [Next]_allVars => (~(part = "tokens"))'
  BY PartStays
<1>4. Spec /\ part = "tokens" => Tokens!Spec /\ [](part = "tokens")
  BY <1>1, <1>2, PTL DEF Spec, Tokens!Spec
<1>5. Spec /\ ~(part = "tokens") => []~(part = "tokens")
  BY <1>3, PTL DEF Spec
<1> QED
  BY <1>4, <1>5
-------------------------------------------------------------------------------
(* The order in escrow and the invoices: their modules' theorems.          *)

\* The buyer's surface locks before it decides, and pays with one reference
\* through Xendit.
LEMMA BuyerHere ==
    /\ BuyerSurface \subseteq Buyer!Handlers
    /\ {"crash", "lost_answer"} \subseteq Buyer!FaultKinds
    /\ Buyer!BalancedHere /\ Buyer!LocksFirst
  BY DEF BuyerSurface, Buyer!Handlers, Buyer!ReleaseHandlers, Buyer!FaultKinds,
         Buyer!BalancedHere, Buyer!LocksFirst

\* The completed rows of the ledger add up to nothing or to the order's total.
THEOREM HeldBalanceHolds == Spec => []HeldBalance
<1>1. NoReq \notin Requests /\ NoRow \notin Attempts \cup Refunds \cup {p1}
  BY Names
<1>2. Buyer!Spec => []Buyer!HeldBalance
  BY <1>1, BuyerHere, Buyer!HeldBalanceHolds
<1> QED
  BY <1>2, BuyerRuns, PTL DEF HeldBalance

\* A committed change of state is one that ALLOWED lists, and a payout that
\* completed is not taken back.
THEOREM ChangesAllowedHolds == Spec => ChangesAllowed
<1> DEFINE Change ==
       /\ ostate' # ostate => ostate' \in Buyer!Allowed[ostate]
       /\ \A e \in Attempts :
            releases[e].status = "COMPLETED" => releases'[e].status = "COMPLETED"
<1>1. NoReq \notin Requests /\ NoRow \notin Attempts \cup Refunds \cup {p1}
  BY Names
<1>2. Buyer!Spec => Buyer!ChangesAllowed
  BY <1>1, BuyerHere, Buyer!ChangesAllowedHolds
<1>3. UNCHANGED Buyer!vars => Change
  BY DEF Buyer!vars
<1>4. Spec /\ part = "buyer" => [][part = "buyer" => Change]_allVars
  BY <1>2, <1>3, BuyerRuns, PTL DEF Buyer!ChangesAllowed
<1>5. Spec /\ ~(part = "buyer") => [][part = "buyer" => Change]_allVars
  BY BuyerRuns, PTL
<1> QED
  BY <1>4, <1>5, PTL DEF ChangesAllowed

\* Whichever providers the brand has had, a webhook finds the order of its
\* invoice.
THEOREM PaidFindsOrderHolds == Spec => []PaidFindsOrder
<1>1. Qris!KeepsReference /\ Switched!KeepsReference /\ Hosted!KeepsReference
  BY DEF Qris!KeepsReference, Switched!KeepsReference, Hosted!KeepsReference
<1>2. /\ Qris!Spec => []Qris!PaidFindsOrder
      /\ Switched!Spec => []Switched!PaidFindsOrder
      /\ Hosted!Spec => []Hosted!PaidFindsOrder
  BY <1>1, Constants, Qris!PaidFindsOrderHolds, Switched!PaidFindsOrderHolds,
     Hosted!PaidFindsOrderHolds
<1>3. Spec => [](part = "qris" => Qris!PaidFindsOrder)
  BY <1>2, QrisRuns, PTL
<1>4. Spec => [](part = "switched" => Switched!PaidFindsOrder)
  BY <1>2, SwitchedRuns, PTL
<1>5. Spec => [](part = "hosted" => Hosted!PaidFindsOrder)
  BY <1>2, HostedRuns, PTL
<1> QED
  BY <1>3, <1>4, <1>5, PTL DEF PaidFindsOrder

\* An acknowledged payment has its HOLD row, unless its handler read the order
\* before a shipment was cancelled.
THEOREM AckedIsHeldHolds == Spec => AckedIsHeld
<1> DEFINE Held == /\ part = "qris" => Qris!AckHeld
                   /\ part = "switched" => Switched!AckHeld
                   /\ part = "hosted" => Hosted!AckHeld
           Stands == ~(part \in InvoiceParts)
<1>1. Qris!OneKeyed /\ Switched!OneKeyed /\ Hosted!OneKeyed
  BY DEF Qris!OneKeyed, Switched!OneKeyed, Hosted!OneKeyed
<1>2. /\ Qris!Spec => Qris!AckedIsHeld
      /\ Switched!Spec => Switched!AckedIsHeld
      /\ Hosted!Spec => Hosted!AckedIsHeld
  BY <1>1, Constants, Qris!AckedIsHeldHolds, Switched!AckedIsHeldHolds, Hosted!AckedIsHeldHolds
<1>3. UNCHANGED acked => Qris!AckHeld /\ Switched!AckHeld /\ Hosted!AckHeld
  BY DEF Qris!AckHeld, Switched!AckHeld, Hosted!AckHeld
<1>4. (UNCHANGED Qris!vars => Held) /\ (UNCHANGED Switched!vars => Held)
      /\ (UNCHANGED Hosted!vars => Held)
  BY <1>3 DEF Qris!vars, Switched!vars, Hosted!vars
<1>5. /\ part = "qris" /\ Qris!AckHeld => Held
      /\ part = "switched" /\ Switched!AckHeld => Held
      /\ part = "hosted" /\ Hosted!AckHeld => Held
  OBVIOUS
<1>6. Spec /\ part = "qris" => [][Held]_allVars
  BY <1>2, <1>4, <1>5, QrisRuns, PTL DEF Qris!AckedIsHeld
<1>7. Spec /\ part = "switched" => [][Held]_allVars
  BY <1>2, <1>4, <1>5, SwitchedRuns, PTL DEF Switched!AckedIsHeld
<1>8. Spec /\ part = "hosted" => [][Held]_allVars
  BY <1>2, <1>4, <1>5, HostedRuns, PTL DEF Hosted!AckedIsHeld
<1>9. Stands /\ [Next]_allVars => Stands' /\ Held
  BY PartStays DEF InvoiceParts, allVars
<1>10. Spec /\ Stands => [][Held]_allVars
  BY <1>9, PTL DEF Spec
<1>11. Stands \/ part = "qris" \/ part = "switched" \/ part = "hosted"
  BY DEF InvoiceParts
<1> QED
  BY <1>6, <1>7, <1>8, <1>10, <1>11, PTL DEF AckedIsHeld
-------------------------------------------------------------------------------
(* What a buyer keeps: one row of a coupon and of a saved product.         *)

\* A request that reads, marks or ends changes no row and begins no insert.
LEMMA KeptLooks ==
    ASSUME Kept!RowsInv, NEW r \in Requests, NEW q \in Kept!Keeping,
           phone' = [phone EXCEPT ![r] = q],
           q.added = 0 \/ (q.added = phone[r].added /\ q.thing = phone[r].thing),
           UNCHANGED <<kept, lastKept, offered>>
    PROVE  Kept!RowsInv'
<1> USE DEF Kept!RowsInv
<1>0. /\ phone' \in [Requests -> Kept!Keeping] /\ phone'[r] = q
      /\ \A p \in Requests : p # r => phone'[p] = phone[p]
  BY DEF Kept!TypeOK
<1>1. Kept!TypeOK'
  BY <1>0 DEF Kept!TypeOK
<1>2. Kept!UsedIds' /\ Kept!OneOfEach'
  BY DEF Kept!UsedIds, Kept!OneOfEach, Kept!Ids
<1>3. Kept!InsertInv'
  <2> SUFFICES ASSUME NEW p \in Requests PROVE Kept!InsertOf(p)'
    BY DEF Kept!InsertInv
  <2>1. Kept!InsertOf(p)
    BY DEF Kept!InsertInv
  <2>2. CASE p = r
    BY <1>0, <2>1, <2>2 DEF Kept!InsertOf, Kept!Of, Kept!Ids
  <2>3. CASE p # r
    BY <1>0, <2>1, <2>3 DEF Kept!InsertOf, Kept!Of, Kept!Ids
  <2> QED
    BY <2>2, <2>3
<1> QED
  BY <1>1, <1>2, <1>3

\* An insert takes the next id, of something there is no row and no insert of.
LEMMA KeptInserts ==
    ASSUME MaxKept \in Nat, Kept!RowsInv, NEW r \in Requests, Kept!Inserts(r)
    PROVE  Kept!RowsInv'
<1> USE DEF Kept!RowsInv
<1> DEFINE q == [phone[r] EXCEPT !.pc = "flushed", !.added = lastKept + 1,
                                 !.unmarks = IF phone[r].thing = "address" THEN phone[r].seen ELSE {}]
<1>0. /\ Kept!TypeOK /\ phone[r] \in Kept!Keeping
      /\ lastKept \in 0..MaxKept /\ lastKept < MaxKept
      /\ lastKept' = lastKept + 1 /\ phone' = [phone EXCEPT ![r] = q]
      /\ UNCHANGED <<kept, offered>>
  BY DEF Kept!TypeOK, Kept!Inserts, Kept!MayInsert
<1>1. q \in Kept!Keeping /\ q.added = lastKept + 1 /\ q.thing = phone[r].thing
  <2>1. lastKept + 1 \in 0..MaxKept
    BY <1>0
  <2> QED
    BY <1>0, <2>1 DEF Kept!Keeping
<1>2. phone[r].thing \in Kept!Unique =>
         /\ Kept!Of(phone[r].thing) = {}
         /\ \A p \in Requests \ {r} : phone[p].thing = phone[r].thing => phone[p].added = 0
  BY DEF Kept!Inserts, Kept!MayInsert
<1> HIDE DEF q
<1>3. /\ phone' \in [Requests -> Kept!Keeping] /\ phone'[r] = q
      /\ \A p \in Requests : p # r => phone'[p] = phone[p]
  BY <1>0, <1>1 DEF Kept!TypeOK
<1>4. Kept!TypeOK'
  BY <1>0, <1>3 DEF Kept!TypeOK
<1>5. Kept!UsedIds' /\ Kept!OneOfEach'
  BY <1>0 DEF Kept!UsedIds, Kept!OneOfEach, Kept!Ids
<1>6. lastKept + 1 \in Kept!Ids /\ kept[lastKept + 1].thing = "none"
  BY <1>0 DEF Kept!UsedIds, Kept!Ids
<1>7. \A p \in Requests : phone[p].added \in 0..MaxKept
  BY DEF Kept!TypeOK, Kept!Keeping
<1>8. Kept!InsertInv'
  <2> SUFFICES ASSUME NEW p \in Requests PROVE Kept!InsertOf(p)'
    BY DEF Kept!InsertInv
  <2>1. \A s \in Requests : Kept!InsertOf(s)
    BY DEF Kept!InsertInv
  <2>2. CASE p = r
    <3>1. \A s \in Requests \ {r} : phone'[s].added # lastKept + 1
      BY <1>0, <1>3, <1>7, <2>1 DEF Kept!InsertOf
    <3> QED
      BY <1>0, <1>1, <1>2, <1>3, <1>6, <2>2, <3>1 DEF Kept!InsertOf, Kept!Of, Kept!Ids
  <2>3. CASE p # r
    <3>1. phone[p].added # 0 => phone[p].added # lastKept + 1
      BY <1>0, <1>7, <2>1 DEF Kept!InsertOf
    <3>2. phone[p].added # 0 /\ phone[p].thing \in Kept!Unique => phone[p].thing # phone[r].thing
      BY <1>2, <2>3
    <3>3. phone[p].added # 0 => phone[p].added <= lastKept'
      BY <1>0, <1>7, <2>1 DEF Kept!InsertOf
    <3> QED
      BY <1>0, <1>1, <1>3, <2>1, <2>3, <3>1, <3>2, <3>3 DEF Kept!InsertOf, Kept!Of, Kept!Ids
  <2> QED
    BY <2>2, <2>3
<1> QED
  BY <1>4, <1>5, <1>8

LEMMA KeptCommits ==
    ASSUME MaxKept \in Nat, Kept!RowsInv, NEW r \in Requests, Kept!Commit(r)
    PROVE  Kept!RowsInv'
<1> USE DEF Kept!RowsInv
<1> DEFINE q == phone[r]
<1>0. /\ Kept!TypeOK /\ q \in Kept!Keeping /\ lastKept \in 0..MaxKept
      /\ \A p \in Requests : Kept!InsertOf(p)
  BY DEF Kept!TypeOK, Kept!InsertInv
<1>1. /\ kept' = [i \in Kept!Ids |->
             IF i = q.added THEN [thing |-> q.thing, marked |-> q.marked]
             ELSE IF i \in q.gone THEN Kept!Vacant
             ELSE [kept[i] EXCEPT !.marked = (@ \/ i \in q.marks) /\ i \notin q.unmarks]]
      /\ phone' = [phone EXCEPT ![r] = Kept!Idle] /\ UNCHANGED <<lastKept, offered>>
  BY DEF Kept!Commit
<1>2. /\ \A i \in Kept!Ids : kept'[i] \in [thing : Kept!Things \cup {"none"}, marked : BOOLEAN]
      /\ kept'= [i \in Kept!Ids |-> kept'[i]]
      /\ \A i \in Kept!Ids : i = q.added => kept'[i].thing = q.thing
      /\ \A i \in Kept!Ids : i # q.added => kept'[i].thing \in {kept[i].thing, "none"}
  <2>1. q.thing \in Kept!Things \cup {"none"} /\ q.marked \in BOOLEAN
    BY <1>0 DEF Kept!Keeping
  <2> HIDE DEF q
  <2>2. ASSUME NEW i \in Kept!Ids
        PROVE  /\ kept'[i] \in [thing : Kept!Things \cup {"none"}, marked : BOOLEAN]
               /\ i = q.added => kept'[i].thing = q.thing
               /\ i # q.added => kept'[i].thing \in {kept[i].thing, "none"}
    <3>1. kept[i] \in [thing : Kept!Things \cup {"none"}, marked : BOOLEAN]
      BY <1>0 DEF Kept!TypeOK
    <3>2. CASE i = q.added
      BY <1>1, <2>1, <3>2
    <3>3. CASE i # q.added /\ i \in q.gone
      BY <1>1, <3>3 DEF Kept!Vacant
    <3>4. CASE i # q.added /\ i \notin q.gone
      BY <1>1, <3>1, <3>4
    <3> QED
      BY <3>2, <3>3, <3>4
  <2> QED
    BY <1>1, <2>2
<1> HIDE DEF q
<1>3. Kept!Idle \in Kept!Keeping /\ Kept!Idle.added = 0
  BY 0 \in 0..MaxKept DEF Kept!Idle, Kept!Keeping
<1>4. /\ phone' \in [Requests -> Kept!Keeping] /\ phone'[r].added = 0
      /\ \A p \in Requests : p # r => phone'[p] = phone[p]
  BY <1>0, <1>1, <1>3 DEF Kept!TypeOK
<1>5. Kept!TypeOK'
  BY <1>0, <1>1, <1>2, <1>4 DEF Kept!TypeOK
<1>6. q.added \in 0..MaxKept /\ (q.added # 0 => q.added <= lastKept)
  BY <1>0 DEF Kept!Keeping, Kept!InsertOf, q
<1>7. Kept!UsedIds'
  BY <1>0, <1>1, <1>2, <1>6 DEF Kept!UsedIds, Kept!Ids
<1>8. Kept!OneOfEach'
  <2> SUFFICES ASSUME NEW i \in Kept!Ids, NEW j \in Kept!Ids, kept'[i].thing \in Kept!Unique,
                      kept'[j].thing = kept'[i].thing
               PROVE  i = j
    BY <1>1 DEF Kept!OneOfEach, Kept!Ids
  <2>1. kept'[i].thing # "none"
    BY DEF Kept!Unique
  <2>2. q.added # 0 /\ q.thing \in Kept!Unique => \A k \in Kept!Ids : kept[k].thing # q.thing
    BY <1>0 DEF Kept!InsertOf, Kept!Of, q
  <2>3. CASE i # q.added /\ j # q.added
    BY <1>2, <2>1, <2>3 DEF Kept!OneOfEach
  <2>4. CASE i = q.added \/ j = q.added
    BY <1>2, <2>1, <2>2, <2>4 DEF Kept!Ids
  <2> QED
    BY <2>3, <2>4
<1>9. Kept!InsertInv'
  <2> SUFFICES ASSUME NEW p \in Requests, p # r, phone[p].added # 0 PROVE Kept!InsertOf(p)'
    BY <1>4 DEF Kept!InsertInv, Kept!InsertOf
  <2>1. /\ phone[p].added \in Kept!Ids /\ phone[p].added # q.added
        /\ phone[p].thing \in Kept!Unique /\ q.added # 0 => q.thing # phone[p].thing
    BY <1>0 DEF Kept!InsertOf, Kept!Keeping, Kept!TypeOK, Kept!Ids, q
  <2>2. kept'[phone[p].added].thing = "none"
    BY <1>0, <1>2, <2>1 DEF Kept!InsertOf
  <2>3. phone[p].thing \in Kept!Unique =>
           \A i \in Kept!Ids : kept'[i].thing # phone[p].thing
    <3> SUFFICES ASSUME phone[p].thing \in Kept!Unique, NEW i \in Kept!Ids
                 PROVE  kept'[i].thing # phone[p].thing
      OBVIOUS
    <3>1. kept[i].thing # phone[p].thing /\ phone[p].thing # "none"
      BY <1>0 DEF Kept!InsertOf, Kept!Of, Kept!Unique
    <3> QED
      BY <1>2, <2>1, <3>1 DEF Kept!Ids
  <2>4. phone[p].added <= lastKept /\ \A s \in Requests \ {p} :
              /\ phone[s].added # phone[p].added
              /\ phone[p].thing \in Kept!Unique /\ phone[s].thing = phone[p].thing => phone[s].added = 0
    BY <1>0 DEF Kept!InsertOf
  <2> QED
    BY <1>1, <1>4, <2>2, <2>3, <2>4 DEF Kept!InsertOf, Kept!Of, Kept!Ids
<1> QED
  BY <1>5, <1>7, <1>8, <1>9

LEMMA KeptStep ==
    ASSUME MaxKept \in Nat, Kept!RowsInv, Kept!Next
    PROVE  Kept!RowsInv'
<1>1. PICK r \in Requests :
        \/ Kept!ClaimCoupon(r) \/ Kept!AddClaim(r) \/ Kept!MarkClaim(r)
        \/ Kept!SaveProduct(r) \/ Kept!AddProduct(r) \/ Kept!ForgetProduct(r) \/ Kept!DeleteProduct(r)
        \/ \E default \in BOOLEAN : Kept!NewAddress(r, default)
        \/ Kept!AddAddress(r)
        \/ Kept!ListMethods(r) \/ Kept!AddMethod(r)
        \/ Kept!Commit(r) \/ Kept!Fail(r)
  BY DEF Kept!Next
<1>0. phone[r] \in Kept!Keeping
  BY DEF Kept!RowsInv, Kept!TypeOK
<1>2. ASSUME NEW thing \in Kept!Things, NEW marked \in BOOLEAN, NEW seen \in SUBSET Kept!Ids,
             Kept!Reads(r, thing, marked, seen)
      PROVE  Kept!RowsInv'
  <2> DEFINE q == [Kept!Idle EXCEPT !.pc = "read", !.thing = thing, !.marked = marked, !.seen = seen]
  <2>1. q \in Kept!Keeping /\ q.added = 0
    BY 0 \in 0..MaxKept DEF Kept!Idle, Kept!Keeping
  <2>2. phone' = [phone EXCEPT ![r] = q] /\ UNCHANGED <<kept, lastKept, offered>>
    BY <1>2 DEF Kept!Reads
  <2> HIDE DEF q
  <2> QED
    BY <2>1, <2>2, KeptLooks
<1>3. CASE \/ Kept!ClaimCoupon(r) \/ Kept!SaveProduct(r) \/ Kept!ForgetProduct(r) \/ Kept!ListMethods(r)
           \/ \E default \in BOOLEAN : Kept!NewAddress(r, default)
  <2>1. \A thing \in Kept!Things : Kept!Of(thing) \in SUBSET Kept!Ids
    BY DEF Kept!Of
  <2>2. {"coupon", "product", "address", "method"} \subseteq Kept!Things
    BY DEF Kept!Things
  <2>3. ASSUME NEW default \in BOOLEAN, Kept!NewAddress(r, default)
        PROVE  Kept!RowsInv'
    <3>1. (IF default THEN {i \in Kept!Of("address") : kept[i].marked} ELSE {}) \in SUBSET Kept!Ids
      BY <2>1, <2>2
    <3> QED
      BY <1>2, <2>2, <2>3, <3>1 DEF Kept!NewAddress
  <2> QED
    BY <1>2, <1>3, <2>1, <2>2, <2>3 DEF Kept!ClaimCoupon, Kept!SaveProduct, Kept!ForgetProduct,
                                        Kept!ListMethods
<1>4. CASE Kept!AddClaim(r) \/ Kept!AddProduct(r) \/ Kept!AddAddress(r) \/ Kept!AddMethod(r)
  BY <1>4, KeptInserts DEF Kept!AddClaim, Kept!AddProduct, Kept!AddAddress, Kept!AddMethod
<1>5. CASE Kept!MarkClaim(r)
  <2> DEFINE new == {i \in phone[r].seen : ~kept[i].marked}
             q == [phone[r] EXCEPT !.pc = "flushed", !.marks = new]
  <2>1. q \in Kept!Keeping /\ q.added = phone[r].added /\ q.thing = phone[r].thing
    BY <1>0 DEF Kept!Keeping
  <2>2. phone' = [phone EXCEPT ![r] = q] /\ UNCHANGED <<kept, lastKept, offered>>
    BY <1>5 DEF Kept!MarkClaim
  <2> HIDE DEF q
  <2> QED
    BY <2>1, <2>2, KeptLooks
<1>6. CASE Kept!DeleteProduct(r)
  <2> DEFINE q == [phone[r] EXCEPT !.pc = "flushed", !.gone = phone[r].seen]
  <2>1. q \in Kept!Keeping /\ q.added = phone[r].added /\ q.thing = phone[r].thing
    BY <1>0 DEF Kept!Keeping
  <2>2. phone' = [phone EXCEPT ![r] = q] /\ UNCHANGED <<kept, lastKept, offered>>
    BY <1>6 DEF Kept!DeleteProduct
  <2> HIDE DEF q
  <2> QED
    BY <2>1, <2>2, KeptLooks
<1>7. CASE Kept!Fail(r)
  <2>1. Kept!Idle \in Kept!Keeping /\ Kept!Idle.added = 0
    BY 0 \in 0..MaxKept DEF Kept!Idle, Kept!Keeping
  <2> QED
    BY <1>7, <2>1, KeptLooks DEF Kept!Fail
<1> QED
  BY <1>1, <1>3, <1>4, <1>5, <1>6, <1>7, KeptCommits

LEMMA KeptInvariance == Kept!Spec => []Kept!RowsInv
<1>0. MaxKept \in Nat /\ MaxKept # 0
  BY Constants DEF Kept!BuyerRowsConstants
<1>1. Kept!Init => Kept!RowsInv
  <2> SUFFICES ASSUME Kept!Init PROVE Kept!RowsInv
    OBVIOUS
  <2>0. 0 \in 0..MaxKept /\ Kept!Idle \in Kept!Keeping
    BY <1>0 DEF Kept!Idle, Kept!Keeping
  <2>1. Kept!TypeOK
    <3>1. phone = [r \in Requests |-> Kept!Idle]
      BY DEF Kept!Init
    <3>2. /\ kept = [i \in Kept!Ids |-> IF i = 1 /\ lastKept = 1 THEN [thing |-> "coupon", marked |-> FALSE]
                                       ELSE [thing |-> "none", marked |-> FALSE]]
          /\ lastKept \in {0, 1} /\ offered \in BOOLEAN
      BY DEF Kept!Init, Kept!Vacant
    <3>3. kept \in [Kept!Ids -> [thing : Kept!Things \cup {"none"}, marked : BOOLEAN]]
      BY <3>2 DEF Kept!Things
    <3>4. phone \in [Requests -> Kept!Keeping]
      BY <2>0, <3>1
    <3> QED
      BY <1>0, <3>2, <3>3, <3>4 DEF Kept!TypeOK
  <2>2. \A r \in Requests : phone[r].added = 0
    BY DEF Kept!Init, Kept!Idle
  <2>3. Kept!UsedIds /\ Kept!OneOfEach
    BY <1>0 DEF Kept!Init, Kept!UsedIds, Kept!OneOfEach, Kept!Vacant, Kept!Ids, Kept!Unique
  <2> QED
    BY <2>1, <2>2, <2>3 DEF Kept!RowsInv, Kept!InsertInv, Kept!InsertOf
<1>2. Kept!RowsInv /\ [Kept!Next]_(Kept!vars) => Kept!RowsInv'
  <2>1. ASSUME Kept!RowsInv, UNCHANGED Kept!vars
        PROVE  Kept!RowsInv'
    BY <2>1 DEF Kept!vars, Kept!RowsInv, Kept!TypeOK, Kept!UsedIds, Kept!InsertInv, Kept!InsertOf,
                Kept!OneOfEach, Kept!Of, Kept!Ids
  <2> QED
    BY <1>0, <2>1, KeptStep
<1> QED
  BY <1>1, <1>2, PTL DEF Kept!Spec

\* Requests that look for a row and insert it together never leave two of a
\* coupon or of a saved product.
THEOREM RowsAnswerHolds == Spec => []RowsAnswer
<1>1. Kept!RowsInv => Kept!RowsAnswer
  <2> SUFFICES ASSUME Kept!RowsInv, NEW thing \in Kept!Unique
               PROVE  Cardinality(Kept!Of(thing)) <= 1
    BY DEF Kept!RowsAnswer, Kept!Cardinality, Cardinality
  <2>1. CASE Kept!Of(thing) = {}
    BY <2>1, FS_EmptySet
  <2>2. CASE Kept!Of(thing) # {}
    <3>1. PICK i : Kept!Of(thing) = {i}
      BY <2>2 DEF Kept!RowsInv, Kept!OneOfEach, Kept!Of
    <3>2. Cardinality(Kept!Of(thing)) = 1
      BY <3>1, FS_Singleton
    <3> QED
      BY <3>2
  <2> QED
    BY <2>1, <2>2
<1> QED
  BY <1>1, KeptInvariance, KeptRuns, PTL DEF RowsAnswer
-------------------------------------------------------------------------------
(* Access tokens: who is refused had a new one.                            *)

\* A token stays whose it is; one that ended stays so: nobody is given it again.
LEMMA TokensEnd ==
    ASSUME NEW m \in Merchants, NEW t, Tokens!Given(m, t), minted' >= minted,
           minted \in Nat, minted' \in Nat,
           \A u \in 1..minted : owner'[u] = owner[u] /\ (age[u] = "over" => age'[u] = "over"),
           revoked \subseteq revoked'
    PROVE  Tokens!Given(m, t)' /\ (Tokens!Ended(m, t) => Tokens!Ended(m, t)')
<1>1. t \in 1..minted /\ owner[t] = m
  BY DEF Tokens!Given
<1>2. Tokens!Given(m, t)'
  BY <1>1 DEF Tokens!Given
<1>3. ASSUME Tokens!Ended(m, t)
      PROVE  Tokens!Ended(m, t)'
  <2>1. age[t] = "over" \/ t \in revoked
    BY <1>1, <1>3 DEF Tokens!Ended, Tokens!Accepts
  <2> QED
    BY <1>1, <1>2, <2>1 DEF Tokens!Ended, Tokens!Accepts
<1> QED
  BY <1>2, <1>3

\* A call that changes by itself changes nothing of the tokens.
LEMMA TokenCalls ==
    ASSUME Tokens!TokensInv, NEW c \in Calls, NEW k \in Tokens!Call,
           call' = [call EXCEPT ![c] = k], UNCHANGED <<client, cache, minted, owner, age, revoked>>,
           \A d \in Calls \ {c} : call[d].pc = "fetching" => tokenLock'[call[d].of] = d,
           k.pc = "fetching" => tokenLock'[k.of] = c,
           tokenLock' \in [Merchants -> Calls \cup {NoReq}],
           k.first # 0 =>
               /\ client = "dipay" /\ Tokens!Given(k.of, k.first)
               /\ k.why = "token" => Tokens!Ended(k.of, k.first),
           k.pc \in {"sending", "refused"} => Tokens!Given(k.of, k.token) /\ k.token > k.first,
           k.pc = "refused" =>
               /\ k.why = "token" => Tokens!Ended(k.of, k.token)
               /\ client = "dipay" => k.first # 0
    PROVE  Tokens!TokensInv'
<1> USE DEF Tokens!TokensInv
<1>1. /\ call' \in [Calls -> Tokens!Call] /\ call'[c] = k
      /\ \A d \in Calls : d # c => call'[d] = call[d]
  BY DEF Tokens!TypeOK
<1>2. Tokens!TypeOK' /\ Tokens!CacheOwned'
  BY <1>1 DEF Tokens!TypeOK, Tokens!CacheOwned, Tokens!Tokens
<1>3. Tokens!OneFetches'
  <2> SUFFICES ASSUME NEW d \in Calls, call'[d].pc = "fetching" PROVE tokenLock'[call'[d].of] = d
    BY DEF Tokens!OneFetches
  <2> QED
    BY <1>1
<1>4. /\ \A m, t : Tokens!Given(m, t)' <=> Tokens!Given(m, t)
      /\ \A m, t : Tokens!Ended(m, t)' <=> Tokens!Ended(m, t)
  BY DEF Tokens!Given, Tokens!Ended, Tokens!Accepts
<1>5. ASSUME NEW d \in Calls PROVE Tokens!CallOwns(d)'
  <2>1. Tokens!CallOwns(d)
    OBVIOUS
  <2>2. CASE d = c
    BY <1>1, <1>4, <2>2 DEF Tokens!CallOwns, Tokens!NoToken
  <2>3. CASE d # c
    BY <1>1, <1>4, <2>1, <2>3 DEF Tokens!CallOwns
  <2> QED
    BY <2>2, <2>3
<1> QED
  BY <1>2, <1>3, <1>5

\* The provider's clock and its withdrawals only end tokens.
LEMMA TokensAge ==
    ASSUME Tokens!TokensInv, UNCHANGED <<client, cache, tokenLock, call, minted, owner>>,
           age' \in [Tokens!Tokens -> {"fresh", "margin", "over"}], revoked' \subseteq Tokens!Tokens,
           \A t \in Tokens!Tokens : age[t] = "over" => age'[t] = "over",
           revoked \subseteq revoked', MaxTokens \in Nat
    PROVE  Tokens!TokensInv'
<1> USE DEF Tokens!TokensInv
<1>1. Tokens!TypeOK' /\ Tokens!CacheOwned' /\ Tokens!OneFetches'
  BY DEF Tokens!TypeOK, Tokens!CacheOwned, Tokens!OneFetches
<1>2. ASSUME NEW d \in Calls PROVE Tokens!CallOwns(d)'
  <2>1. Tokens!CallOwns(d) /\ call[d].of \in Merchants /\ minted \in 0..MaxTokens
    BY DEF Tokens!TypeOK, Tokens!Call
  <2>2. /\ \A t : Tokens!Given(call[d].of, t) => Tokens!Given(call[d].of, t)'
        /\ \A t : Tokens!Ended(call[d].of, t) => Tokens!Ended(call[d].of, t)'
    BY <2>1 DEF Tokens!Given, Tokens!Ended, Tokens!Accepts, Tokens!Tokens
  <2> QED
    BY <2>1, <2>2 DEF Tokens!CallOwns
<1> QED
  BY <1>1, <1>2

\* A token that is given out is the merchant's who asks for it, and newer than
\* those before it.
LEMMA TokensMint ==
    ASSUME Tokens!TokensInv, NEW c \in Calls, Tokens!Fetched(c),
           NoReq \notin Calls, MaxTokens \in Nat
    PROVE  Tokens!TokensInv'
<1> USE DEF Tokens!TokensInv
<1>0. /\ Tokens!TypeOK /\ call[c] \in Tokens!Call /\ call[c].of \in Merchants /\ minted \in 0..MaxTokens
      /\ call[c].pc = "fetching" /\ minted < MaxTokens
  BY DEF Tokens!TypeOK, Tokens!Call, Tokens!Fetched
<1>a. PICK m \in Merchants : m = call[c].of
  BY <1>0
<1>b. PICK t \in 1..MaxTokens : t = minted + 1
  BY <1>0
<1>c. PICK k \in Tokens!Call : k = [call[c] EXCEPT !.pc = "sending", !.token = t]
  <2>1. t \in 0..MaxTokens
    BY <1>b
  <2>2. [call[c] EXCEPT !.pc = "sending", !.token = t] \in Tokens!Call
    BY <1>0, <2>1 DEF Tokens!Call
  <2> QED
    BY <2>2
<1>1. /\ minted' = t /\ owner' = [owner EXCEPT ![t] = m] /\ cache' = [cache EXCEPT ![m] = t]
      /\ tokenLock' = [tokenLock EXCEPT ![m] = NoReq]
      /\ call' = [call EXCEPT ![c] = k] /\ UNCHANGED <<client, age, revoked>>
      /\ Tokens!TypeOK /\ minted \in 0..MaxTokens
  BY <1>0, <1>a, <1>b, <1>c DEF Tokens!Fetched
<1>2. t \in 1..MaxTokens /\ t \in 0..MaxTokens /\ t > minted /\ t = minted + 1
  BY <1>0, <1>b
<1>3. /\ k \in Tokens!Call /\ k.pc = "sending" /\ k.token = t /\ k.of = m /\ k.first = call[c].first
      /\ k.why = call[c].why
  BY <1>0, <1>a, <1>c DEF Tokens!Call
<1>4. /\ call' \in [Calls -> Tokens!Call] /\ call'[c] = k
      /\ \A d \in Calls : d # c => call'[d] = call[d]
      /\ owner' \in [Tokens!Tokens -> Merchants] /\ owner'[t] = m
      /\ \A u \in 1..minted : owner'[u] = owner[u]
      /\ cache' \in [Merchants -> Tokens!Tokens \cup {0}] /\ cache'[m] = t
      /\ \A n \in Merchants : n # m => cache'[n] = cache[n]
      /\ tokenLock' \in [Merchants -> Calls \cup {NoReq}] /\ tokenLock'[m] = NoReq
      /\ \A n \in Merchants : n # m => tokenLock'[n] = tokenLock[n]
  BY <1>1, <1>2, <1>3 DEF Tokens!TypeOK, Tokens!Tokens, Tokens!NoToken
<1>5. Tokens!TypeOK'
  BY <1>1, <1>2, <1>4 DEF Tokens!TypeOK, Tokens!NoToken
<1>6. Tokens!CacheOwned'
  <2> SUFFICES ASSUME NEW n \in Merchants, cache'[n] # 0 PROVE cache'[n] <= minted' /\ owner'[cache'[n]] = n
    BY DEF Tokens!CacheOwned, Tokens!NoToken
  <2>1. CASE n = m
    BY <1>1, <1>2, <1>4, <2>1
  <2>2. CASE n # m
    <3>1. cache[n] \in 1..minted /\ owner[cache[n]] = n
      BY <1>1, <1>4, <2>2 DEF Tokens!CacheOwned, Tokens!TypeOK, Tokens!NoToken, Tokens!Tokens
    <3> QED
      BY <1>1, <1>2, <1>4, <2>2, <3>1
  <2> QED
    BY <2>1, <2>2
<1>7. Tokens!OneFetches'
  <2> SUFFICES ASSUME NEW d \in Calls, call'[d].pc = "fetching" PROVE tokenLock'[call'[d].of] = d
    BY DEF Tokens!OneFetches
  <2>1. d # c /\ call'[d] = call[d]
    BY <1>3, <1>4
  <2>2. call[d].of \in Merchants /\ tokenLock[call[d].of] = d /\ tokenLock[m] = c
    BY <1>0, <1>a, <2>1 DEF Tokens!OneFetches, Tokens!TypeOK, Tokens!Call
  <2> QED
    BY <1>4, <2>1, <2>2
<1>8. ASSUME NEW d \in Calls PROVE Tokens!CallOwns(d)'
  <2>1. /\ Tokens!CallOwns(d) /\ call[d] \in Tokens!Call /\ call[d].of \in Merchants
    BY DEF Tokens!TypeOK, Tokens!Call
  <2>2. \A n \in Merchants : \A u :
           /\ Tokens!Given(n, u) => Tokens!Given(n, u)'
           /\ Tokens!Ended(n, u) => Tokens!Ended(n, u)'
    <3>1. minted \in Nat /\ minted' \in Nat /\ minted' >= minted
      BY <1>1, <1>2
    <3> QED
      BY <1>1, <1>4, <3>1, TokensEnd DEF Tokens!Ended
  <2>3. CASE d = c
    <3>1. call[c].first # 0 => call[c].first <= minted
      BY <2>1, <2>3 DEF Tokens!CallOwns, Tokens!Given, Tokens!NoToken
    <3>2. call[c].first \in 0..MaxTokens
      BY <1>0 DEF Tokens!Call
    <3>3. Tokens!Given(k.of, k.token)' /\ k.token > k.first
      BY <1>1, <1>2, <1>3, <1>4, <3>1, <3>2 DEF Tokens!Given
    <3>4. k.first # 0 =>
             /\ client = "dipay" /\ Tokens!Given(k.of, k.first)'
             /\ k.why = "token" => Tokens!Ended(k.of, k.first)'
      BY <1>3, <1>a, <2>1, <2>2, <2>3 DEF Tokens!CallOwns, Tokens!NoToken
    <3> QED
      BY <1>1, <1>3, <1>4, <2>3, <3>3, <3>4 DEF Tokens!CallOwns, Tokens!NoToken
  <2>4. CASE d # c
    <3>1. call'[d] = call[d]
      BY <1>4, <2>4
    <3> QED
      BY <1>1, <2>1, <2>2, <3>1 DEF Tokens!CallOwns
  <2> QED
    BY <2>3, <2>4
<1> QED
  BY <1>5, <1>6, <1>7, <1>8

LEMMA TokensStep ==
    ASSUME Tokens!AccessTokensConstants, NoReq \notin Calls, Tokens!TokensInv, Tokens!Next
    PROVE  Tokens!TokensInv'
<1> USE DEF Tokens!TokensInv
<1>0. /\ MaxTokens \in Nat /\ Merchants # {} /\ 0 \in 0..MaxTokens /\ Tokens!Nobody \in Merchants
      /\ minted \in 0..MaxTokens
  BY DEF Tokens!AccessTokensConstants, Tokens!Nobody, Tokens!TypeOK
<1>1. ASSUME NEW c \in Calls, NEW m \in Merchants, Tokens!Begin(c, m)
      PROVE  Tokens!TokensInv'
  <2> DEFINE k == [Tokens!Idle(m) EXCEPT !.pc = "getting"]
  <2>1. k \in Tokens!Call /\ k.pc = "getting" /\ k.first = 0
    BY <1>0 DEF Tokens!Idle, Tokens!Call, Tokens!NoToken
  <2>2. call' = [call EXCEPT ![c] = k] /\ UNCHANGED <<client, cache, tokenLock, minted, owner, age, revoked>>
    BY <1>1 DEF Tokens!Begin
  <2>3. /\ tokenLock \in [Merchants -> Calls \cup {NoReq}]
        /\ \A d \in Calls : call[d].pc = "fetching" => tokenLock[call[d].of] = d
    BY DEF Tokens!TypeOK, Tokens!OneFetches
  <2> HIDE DEF k
  <2> QED
    BY <2>1, <2>2, <2>3, TokenCalls
<1>2. ASSUME NEW c \in Calls,
             \/ Tokens!TakeCached(c) \/ Tokens!Renew(c) \/ Tokens!NotFetched(c)
             \/ Tokens!Accepted(c) \/ Tokens!Unauthorised(c)
      PROVE  Tokens!TokensInv'
  <2> DEFINE m == call[c].of
  <2>1. /\ call[c] \in Tokens!Call /\ m \in Merchants /\ Tokens!CallOwns(c)
        /\ tokenLock \in [Merchants -> Calls \cup {NoReq}] /\ tokenLock[m] \in Calls \cup {NoReq}
        /\ \A d \in Calls : call[d] \in Tokens!Call /\ call[d].of \in Merchants
        /\ \A d \in Calls : call[d].pc = "fetching" => tokenLock[call[d].of] = d
        /\ cache[m] \in 0..MaxTokens
        /\ cache[m] # 0 => cache[m] \in 1..minted /\ owner[cache[m]] = m
    <3>1. /\ call[c] \in Tokens!Call /\ m \in Merchants /\ Tokens!CallOwns(c)
          /\ tokenLock \in [Merchants -> Calls \cup {NoReq}] /\ tokenLock[m] \in Calls \cup {NoReq}
          /\ cache[m] \in 1..MaxTokens \cup {0}
      BY DEF Tokens!TypeOK, Tokens!Call, Tokens!NoToken, Tokens!Tokens
    <3>2. \A d \in Calls : call[d] \in Tokens!Call /\ call[d].of \in Merchants
      BY DEF Tokens!TypeOK, Tokens!Call
    <3> QED
      BY <1>0, <3>1, <3>2 DEF Tokens!OneFetches, Tokens!CacheOwned, Tokens!NoToken
  <2> HIDE DEF m
  <2>2. CASE Tokens!TakeCached(c)
    <3> DEFINE k == [call[c] EXCEPT !.pc = "sending", !.token = cache[m]]
    <3>1. /\ call' = [call EXCEPT ![c] = k] /\ call[c].first = 0 /\ cache[m] # 0
          /\ UNCHANGED <<client, cache, tokenLock, minted, owner, age, revoked>>
      BY <2>2 DEF Tokens!TakeCached, Tokens!Forced, Tokens!Usable, Tokens!NoToken, m
    <3>2. k \in Tokens!Call /\ k.pc = "sending" /\ k.token = cache[m] /\ k.of = m /\ k.first = 0
      BY <2>1, <3>1 DEF Tokens!Call, m
    <3> HIDE DEF k
    <3>3. Tokens!Given(k.of, k.token) /\ k.token > k.first
      BY <1>0, <2>1, <3>1, <3>2 DEF Tokens!Given
    <3> QED
      BY <2>1, <3>1, <3>2, <3>3, TokenCalls
  <2>3. CASE Tokens!Renew(c)
    <3> DEFINE k == [call[c] EXCEPT !.pc = "fetching"]
    <3>1. /\ call' = [call EXCEPT ![c] = k] /\ tokenLock[m] = NoReq
          /\ tokenLock' = [tokenLock EXCEPT ![m] = c]
          /\ UNCHANGED <<client, cache, minted, owner, age, revoked>>
      BY <2>3 DEF Tokens!Renew, Tokens!Goes, m
    <3>2. /\ k \in Tokens!Call /\ k.pc = "fetching" /\ k.of = m /\ k.first = call[c].first
          /\ k.why = call[c].why
      BY <2>1 DEF Tokens!Call, m
    <3> HIDE DEF k
    <3>3. /\ tokenLock' \in [Merchants -> Calls \cup {NoReq}] /\ tokenLock'[m] = c
          /\ \A d \in Calls : call[d].pc = "fetching" => tokenLock'[call[d].of] = d
      BY <2>1, <3>1
    <3>4. k.first # 0 =>
             /\ client = "dipay" /\ Tokens!Given(k.of, k.first)
             /\ k.why = "token" => Tokens!Ended(k.of, k.first)
      BY <2>1, <3>2 DEF Tokens!CallOwns, Tokens!NoToken, m
    <3> QED
      BY <3>1, <3>2, <3>3, <3>4, TokenCalls
  <2>4. CASE Tokens!NotFetched(c)
    <3> DEFINE k == Tokens!Idle(Tokens!Nobody)
    <3>1. /\ call' = [call EXCEPT ![c] = k] /\ call[c].pc = "fetching"
          /\ tokenLock' = [tokenLock EXCEPT ![m] = NoReq]
          /\ UNCHANGED <<client, cache, minted, owner, age, revoked>>
      BY <2>4 DEF Tokens!NotFetched, Tokens!Ends, m
    <3>2. k \in Tokens!Call /\ k.pc = "idle" /\ k.first = 0
      BY <1>0 DEF Tokens!Call, Tokens!Idle, Tokens!NoToken
    <3> HIDE DEF k
    <3>3. tokenLock[m] = c
      BY <2>1, <3>1 DEF m
    <3>4. /\ tokenLock' \in [Merchants -> Calls \cup {NoReq}]
          /\ \A d \in Calls \ {c} : call[d].pc = "fetching" => tokenLock'[call[d].of] = d
      BY <2>1, <3>1, <3>3
    <3> QED
      BY <3>1, <3>2, <3>4, TokenCalls
  <2>5. CASE Tokens!Accepted(c)
    <3> DEFINE k == Tokens!Idle(Tokens!Nobody)
    <3>1. k \in Tokens!Call /\ k.pc = "idle" /\ k.first = 0
      BY <1>0 DEF Tokens!Call, Tokens!Idle, Tokens!NoToken
    <3>2. /\ call' = [call EXCEPT ![c] = k]
          /\ UNCHANGED <<client, cache, tokenLock, minted, owner, age, revoked>>
      BY <2>5 DEF Tokens!Accepted, Tokens!Ends
    <3> HIDE DEF k
    <3> QED
      BY <2>1, <3>1, <3>2, TokenCalls
  <2>6. CASE Tokens!Unauthorised(c)
    <3>1. PICK why : why = IF Tokens!Accepts(m, call[c].token) THEN "signature" ELSE call[c].why
      OBVIOUS
    <3>2. /\ call[c].pc = "sending" /\ UNCHANGED <<client, cache, tokenLock, minted, owner, age, revoked>>
          /\ \/ /\ client = "dipay" /\ call[c].first = 0
                /\ call' = [call EXCEPT ![c].pc = "getting", ![c].first = call[c].token,
                                        ![c].why = why]
             \/ /\ client = "dipay" => call[c].first # 0
                /\ call' = [call EXCEPT ![c].pc = "refused", ![c].why = why]
      BY <2>6, <3>1 DEF Tokens!Unauthorised, Tokens!Retries, Tokens!NoToken, m
    <3>3. /\ Tokens!Given(m, call[c].token) /\ call[c].token > call[c].first
          /\ why \in {"token", "signature"}
          /\ why = "token" => Tokens!Ended(m, call[c].token) /\ call[c].why = "token"
      BY <2>1, <3>1, <3>2 DEF Tokens!CallOwns, Tokens!Ended, Tokens!Call, m
    <3>4. CASE /\ client = "dipay" /\ call[c].first = 0
               /\ call' = [call EXCEPT ![c].pc = "getting", ![c].first = call[c].token,
                                       ![c].why = why]
      <4> DEFINE k == [call[c] EXCEPT !.pc = "getting", !.first = call[c].token, !.why = why]
      <4>1. /\ k \in Tokens!Call /\ k.pc = "getting" /\ k.first = call[c].token /\ k.of = m
            /\ k.why = why
        BY <2>1, <3>3 DEF Tokens!Call, m
      <4>2. call' = [call EXCEPT ![c] = k]
        BY <3>4
      <4>3. /\ client = "dipay" /\ Tokens!Given(k.of, k.first)
            /\ k.why = "token" => Tokens!Ended(k.of, k.first)
        BY <3>3, <3>4, <4>1
      <4>4. UNCHANGED <<client, cache, tokenLock, minted, owner, age, revoked>>
        BY <3>2
      <4> HIDE DEF k
      <4> QED
        BY <2>1, <4>1, <4>2, <4>3, <4>4, TokenCalls
    <3>5. CASE /\ client = "dipay" => call[c].first # 0
               /\ call' = [call EXCEPT ![c].pc = "refused", ![c].why = why]
      <4> DEFINE k == [call[c] EXCEPT !.pc = "refused", !.why = why]
      <4>1. /\ k \in Tokens!Call /\ k.pc = "refused" /\ k.first = call[c].first
            /\ k.token = call[c].token /\ k.of = m /\ k.why = why
        BY <2>1, <3>3 DEF Tokens!Call, m
      <4>2. call' = [call EXCEPT ![c] = k]
        BY <3>5
      <4>3. k.first # 0 =>
               /\ client = "dipay" /\ Tokens!Given(k.of, k.first)
               /\ k.why = "token" => Tokens!Ended(k.of, k.first)
        BY <2>1, <3>3, <4>1 DEF Tokens!CallOwns, Tokens!NoToken, m
      <4>4. /\ Tokens!Given(k.of, k.token) /\ k.token > k.first
            /\ k.why = "token" => Tokens!Ended(k.of, k.token)
            /\ client = "dipay" => k.first # 0
        BY <3>3, <3>5, <4>1
      <4>5. UNCHANGED <<client, cache, tokenLock, minted, owner, age, revoked>>
        BY <3>2
      <4> HIDE DEF k
      <4> QED
        BY <2>1, <4>1, <4>2, <4>3, <4>4, <4>5, TokenCalls
    <3> QED
      BY <3>2, <3>4, <3>5
  <2> QED
    BY <1>2, <2>2, <2>3, <2>4, <2>5, <2>6
<1>3. ASSUME NEW t \in Tokens!Tokens, Tokens!Older(t)
      PROVE  Tokens!TokensInv'
  <2>1. /\ age' = [age EXCEPT ![t] = IF @ = "fresh" THEN "margin" ELSE "over"] /\ age[t] # "over"
        /\ UNCHANGED <<client, cache, tokenLock, call, minted, owner, revoked>>
        /\ age \in [Tokens!Tokens -> {"fresh", "margin", "over"}] /\ revoked \subseteq Tokens!Tokens
    BY <1>3 DEF Tokens!Older, Tokens!TypeOK
  <2>2. /\ age' \in [Tokens!Tokens -> {"fresh", "margin", "over"}]
        /\ \A u \in Tokens!Tokens : age[u] = "over" => age'[u] = "over"
    BY <2>1
  <2> QED
    BY <1>0, <2>1, <2>2, TokensAge
<1>4. ASSUME NEW t \in Tokens!Tokens, Tokens!Revoke(t)
      PROVE  Tokens!TokensInv'
  <2>1. /\ revoked' = revoked \cup {t} /\ revoked \subseteq Tokens!Tokens
        /\ UNCHANGED <<client, cache, tokenLock, call, minted, owner, age>>
        /\ age \in [Tokens!Tokens -> {"fresh", "margin", "over"}]
    BY <1>4 DEF Tokens!Revoke, Tokens!TypeOK
  <2> QED
    BY <1>0, <2>1, TokensAge
<1>5. CASE Tokens!Restart
  <2>1. /\ cache' = [m \in Merchants |-> 0] /\ tokenLock' = [m \in Merchants |-> NoReq]
        /\ call' = [c \in Calls |-> Tokens!Idle(Tokens!Nobody)]
        /\ UNCHANGED <<client, minted, owner, age, revoked>>
    BY <1>5 DEF Tokens!Restart, Tokens!NoToken
  <2>2. Tokens!Idle(Tokens!Nobody) \in Tokens!Call
    BY <1>0 DEF Tokens!Call, Tokens!Idle, Tokens!NoToken
  <2>3. Tokens!TypeOK'
    BY <2>1, <2>2 DEF Tokens!TypeOK, Tokens!NoToken
  <2>4. \A c \in Calls : call'[c].pc = "idle" /\ call'[c].first = 0
    BY <2>1 DEF Tokens!Idle, Tokens!NoToken
  <2> QED
    BY <2>1, <2>3, <2>4 DEF Tokens!CacheOwned, Tokens!OneFetches, Tokens!CallOwns, Tokens!NoToken
<1> QED
  BY <1>1, <1>2, <1>3, <1>4, <1>5, TokensMint, <1>0 DEF Tokens!Next

LEMMA TokensInvariance == Spec /\ part = "tokens" => []Tokens!TokensInv
<1>0. Tokens!AccessTokensConstants /\ NoReq \notin Calls
  BY Constants DEF Tokens!AccessTokensConstants
<1>1. Tokens!Init => Tokens!TokensInv
  <2> SUFFICES ASSUME Tokens!Init PROVE Tokens!TokensInv
    OBVIOUS
  <2>0. /\ 0 \in 0..MaxTokens /\ Tokens!Nobody \in Merchants
        /\ Tokens!Idle(Tokens!Nobody) \in Tokens!Call
    BY <1>0 DEF Tokens!AccessTokensConstants, Tokens!Nobody, Tokens!Idle, Tokens!Call, Tokens!NoToken
  <2>1. /\ cache = [m \in Merchants |-> 0] /\ tokenLock = [m \in Merchants |-> NoReq]
        /\ call = [c \in Calls |-> Tokens!Idle(Tokens!Nobody)] /\ minted = 0
        /\ owner = [t \in Tokens!Tokens |-> Tokens!Nobody] /\ age = [t \in Tokens!Tokens |-> "fresh"]
        /\ revoked = {} /\ client \in {"dipay", "jubelio"}
    BY DEF Tokens!Init, Tokens!NoToken
  <2>2. Tokens!TypeOK
    BY <2>0, <2>1 DEF Tokens!TypeOK, Tokens!NoToken
  <2>3. \A c \in Calls : call[c].pc = "idle" /\ call[c].first = 0
    BY <2>1 DEF Tokens!Idle, Tokens!NoToken
  <2> QED
    BY <2>1, <2>2, <2>3 DEF Tokens!TokensInv, Tokens!CacheOwned, Tokens!OneFetches,
                            Tokens!CallOwns, Tokens!NoToken
<1>2. Tokens!TokensInv /\ [Tokens!Next]_(Tokens!tokenVars) => Tokens!TokensInv'
  <2>1. ASSUME Tokens!TokensInv, UNCHANGED Tokens!tokenVars
        PROVE  Tokens!TokensInv'
    BY <2>1 DEF Tokens!tokenVars, Tokens!TokensInv, Tokens!TypeOK, Tokens!CacheOwned,
                Tokens!OneFetches, Tokens!CallOwns, Tokens!Given, Tokens!Ended, Tokens!Accepts
  <2> QED
    BY <1>0, <2>1, TokensStep
<1>3. Tokens!Spec => []Tokens!TokensInv
  BY <1>1, <1>2, PTL DEF Tokens!Spec
<1> QED
  BY <1>3, TokensRuns, PTL

\* A call is refused as unauthorised only with its own merchant's token, and
\* Dipay's second one; each ended, unless a signature was rejected.
THEOREM RefusedWithNewHolds == Spec => []RefusedWithNew
<1>1. Tokens!TokensInv => Tokens!RefusedWithNew
  <2> SUFFICES ASSUME Tokens!TokensInv, NEW c \in Calls, call[c].pc = "refused"
               PROVE  /\ owner[call[c].token] = call[c].of
                      /\ call[c].why = "token" => ~Tokens!Accepts(call[c].of, call[c].token)
                      /\ client = "dipay" =>
                             /\ call[c].first \in Tokens!Tokens /\ owner[call[c].first] = call[c].of
                             /\ call[c].why = "token" => ~Tokens!Accepts(call[c].of, call[c].first)
                             /\ call[c].token > call[c].first
    BY DEF Tokens!RefusedWithNew
  <2>1. Tokens!CallOwns(c) /\ call[c].first \in 0..MaxTokens
    BY DEF Tokens!TokensInv, Tokens!TypeOK, Tokens!Call
  <2>2. call[c].first # 0 => call[c].first \in Tokens!Tokens
    BY <2>1 DEF Tokens!Tokens
  <2> QED
    BY <2>1, <2>2 DEF Tokens!CallOwns, Tokens!Given, Tokens!Ended, Tokens!NoToken
<1> QED
  BY <1>1, TokensInvariance, TokensRuns, PTL DEF RefusedWithNew
-------------------------------------------------------------------------------
(* Login: a code signs nobody in twice.                                    *)

\* What a request does without the row: it reads, ends, or waits for another
\* table.
LEMMA LoginAsks ==
    ASSUME Login!LoginInv, NEW r \in Requests, NEW k \in Login!Asked,
           visit' = [visit EXCEPT ![r] = k], UNCHANGED <<row, issued, accepted>>,
           known' \subseteq Login!Codes, profile' \in Login!Profile,
           invites' \in [pending : 0..MaxInvites, linked : 0..MaxInvites],
           invites'.pending + invites'.linked <= MaxInvites,
           k.row \in {row, visit[r].row, Login!NoCode},
           k.pc \in {"expiring", "comparing", "admitting"} => k.row.id # 0,
           k.pc = "comparing" => k.row.attempts < MaxAttempts,
           k.pc = "admitting" =>
               /\ k.row.id = row.id /\ k.code = k.row.code
               /\ \A q \in Requests \ {r} : visit[q].pc # "admitting"
    PROVE  Login!LoginInv'
<1> USE DEF Login!LoginInv
<1>1. /\ visit' \in [Requests -> Login!Asked] /\ visit'[r] = k
      /\ \A q \in Requests : q # r => visit'[q] = visit[q]
  BY DEF Login!TypeOK
<1>2. Login!TypeOK' /\ Login!WasIssued(row)'
  BY <1>1 DEF Login!TypeOK, Login!WasIssued
<1>3. Login!WasIssued(k.row)
  BY DEF Login!CopyOf, Login!WasIssued, Login!NoCode
<1>4. ASSUME NEW q \in Requests PROVE Login!CopyOf(q)'
  <2>1. Login!CopyOf(q) /\ Login!CopyOf(r)
    OBVIOUS
  <2>2. CASE q = r
    BY <1>1, <1>3, <2>2 DEF Login!CopyOf, Login!WasIssued
  <2>3. CASE q # r
    <3>1. visit'[q] = visit[q]
      BY <1>1, <2>3
    <3>2. visit[q].pc = "admitting" => k.pc # "admitting"
      BY <2>3
    <3> QED
      BY <1>1, <2>1, <2>3, <3>1, <3>2 DEF Login!CopyOf, Login!WasIssued
  <2> QED
    BY <2>2, <2>3
<1>5. ASSUME NEW c \in Login!Codes PROVE Login!UsedUp(c)'
  <2>1. Login!UsedUp(c)
    OBVIOUS
  <2>2. ASSUME accepted[c] # 0, NEW q \in Requests, visit'[q].row.id # 0, visit'[q].row.code = c
        PROVE  visit'[q].row.id # row.id
    BY <1>1, <2>1, <2>2 DEF Login!UsedUp, Login!NoCode
  <2> QED
    BY <2>1, <2>2 DEF Login!UsedUp
<1> QED
  BY <1>2, <1>4, <1>5

\* What the row's requests and its clock do to it: nobody admits while they do,
\* and its id stays or the row ends.
LEMMA LoginWrites ==
    ASSUME Login!LoginInv, visit' \in [Requests -> Login!Asked], row' \in Login!Row,
           UNCHANGED <<issued, known, profile, invites, accepted>>,
           \A q \in Requests : visit'[q] \in {visit[q], Login!Idle},
           row' = Login!NoCode \/ (row'.id = row.id /\ row'.code = row.code),
           \A q \in Requests : visit[q].pc = "admitting" => visit'[q] = Login!Idle \/ row'.id = row.id
    PROVE  Login!LoginInv'
<1> USE DEF Login!LoginInv
<1>1. Login!TypeOK' /\ Login!WasIssued(row)'
  BY DEF Login!TypeOK, Login!WasIssued, Login!NoCode
<1>2. ASSUME NEW q \in Requests PROVE Login!CopyOf(q)'
  <2>1. CASE visit'[q] = Login!Idle
    BY <2>1 DEF Login!CopyOf, Login!WasIssued, Login!Idle, Login!NoCode
  <2>2. CASE visit'[q] = visit[q]
    <3>1. \A p \in Requests : visit'[p].pc = "admitting" => visit[p].pc = "admitting"
      BY DEF Login!Idle
    <3>2. CASE visit[q].pc = "admitting"
      BY <2>2, <3>1, <3>2 DEF Login!CopyOf, Login!WasIssued, Login!Idle
    <3>3. CASE visit[q].pc # "admitting"
      BY <2>2, <3>1, <3>3 DEF Login!CopyOf, Login!WasIssued
    <3> QED
      BY <3>2, <3>3
  <2> QED
    BY <2>1, <2>2
<1>3. ASSUME NEW c \in Login!Codes PROVE Login!UsedUp(c)'
  <2>1. Login!UsedUp(c)
    OBVIOUS
  <2>2. ASSUME accepted[c] # 0, NEW q \in Requests, visit'[q].row.id # 0, visit'[q].row.code = c
        PROVE  visit'[q].row.id # row'.id
    BY <2>1, <2>2 DEF Login!UsedUp, Login!NoCode, Login!Idle
  <2> QED
    BY <2>1, <2>2 DEF Login!UsedUp, Login!NoCode
<1> QED
  BY <1>1, <1>2, <1>3

\* A new code is none that was issued before, and so is a new row's id.
LEMMA LoginStores ==
    ASSUME Login!LoginConstants, Login!LoginInv, NEW r \in Requests, Login!StoreCode(r)
    PROVE  Login!LoginInv'
<1> USE DEF Login!LoginInv
<1>0. /\ MaxCodes \in Nat /\ issued \in 0..MaxCodes /\ row \in Login!Row /\ visit[r] \in Login!Asked
      /\ Login!Idle \in Login!Asked /\ MaxAttempts \in Nat
  BY DEF Login!LoginConstants, Login!TypeOK, Login!Idle, Login!Asked, Login!NoCode, Login!Row,
         Login!Wrong
<1>1. /\ visit' = [visit EXCEPT ![r] = Login!Idle] /\ UNCHANGED <<profile, invites, accepted>>
      /\ visit[r].pc = "issuing"
  BY DEF Login!StoreCode, Login!Ends
<1>2. /\ visit' \in [Requests -> Login!Asked] /\ visit'[r] = Login!Idle
      /\ \A q \in Requests : q # r => visit'[q] = visit[q]
  BY <1>0, <1>1 DEF Login!TypeOK
<1>3. CASE visit[r].row.id # row.id
  <2>1. UNCHANGED <<row, issued, known>>
    BY <1>3 DEF Login!StoreCode
  <2> QED
    BY <1>0, <1>1, <2>1, LoginAsks DEF Login!TypeOK, Login!Idle
<1>4. CASE visit[r].row.id = row.id
  <2>1. /\ issued' = issued + 1 /\ issued < MaxCodes
        /\ row'.id = IF row.id = 0 THEN issued' ELSE row.id
        /\ row'.code = issued' /\ row' \in [id : {row'.id}, code : {issued'}, attempts : {0, row.attempts},
                                            recent : BOOLEAN, late : BOOLEAN]
        /\ known' \in Login!SendOtp(issued')
        /\ row.id # 0 => \A q \in Requests : visit[q].pc = "admitting" => visit[q].row.id # row.id
    <3>1. row' = [id       |-> IF visit[r].row.id = 0 THEN issued' ELSE visit[r].row.id,
                  code     |-> issued',
                  attempts |-> IF visit[r].row.id = 0 \/ visit[r].row.attempts # 0 THEN 0 ELSE row.attempts,
                  recent   |-> TRUE,
                  late     |-> FALSE]
      BY <1>4 DEF Login!StoreCode
    <3>2. /\ issued' = issued + 1 /\ issued < MaxCodes /\ known' \in Login!SendOtp(issued')
          /\ row.id # 0 => \A q \in Requests : visit[q].pc = "admitting" => visit[q].row.id # row.id
      BY <1>4 DEF Login!StoreCode, Login!Unlocked
    <3> QED
      BY <1>4, <3>1, <3>2
  <2>2. issued' \in 1..MaxCodes /\ issued' \in 0..MaxCodes /\ row'.id \in 1..issued'
    BY <1>0, <2>1 DEF Login!Row, Login!WasIssued
  <2>3. \A q \in Requests : visit[q].pc # "admitting"
    BY <2>1 DEF Login!CopyOf
  <2>4. Login!TypeOK'
    <3>1. row' \in Login!Row
      BY <1>0, <2>1, <2>2 DEF Login!Row
    <3>2. known' \subseteq Login!Codes
      BY <2>1, <2>2 DEF Login!SendOtp, Login!TypeOK, Login!Codes
    <3> QED
      BY <1>1, <1>2, <2>2, <3>1, <3>2 DEF Login!TypeOK
  <2>5. Login!WasIssued(row)'
    BY <2>1, <2>2 DEF Login!WasIssued
  <2>6. ASSUME NEW q \in Requests PROVE Login!CopyOf(q)'
    <3>1. Login!CopyOf(q)
      OBVIOUS
    <3>2. \A p \in Requests : visit'[p].pc # "admitting"
      BY <1>2, <2>3 DEF Login!Idle
    <3>3. CASE q = r
      BY <1>2, <3>3 DEF Login!CopyOf, Login!WasIssued, Login!Idle, Login!NoCode
    <3>4. CASE q # r
      BY <1>0, <1>2, <2>1, <3>1, <3>2, <3>4 DEF Login!CopyOf, Login!WasIssued
    <3> QED
      BY <3>3, <3>4
  <2>7. ASSUME NEW c \in Login!Codes PROVE Login!UsedUp(c)'
    <3>1. Login!UsedUp(c) /\ c \in 1..MaxCodes
      BY DEF Login!Codes
    <3>2. accepted[c] # 0 => c # issued'
      BY <1>0, <2>1, <3>1 DEF Login!UsedUp
    <3>3. ASSUME accepted[c] # 0, NEW q \in Requests, visit'[q].row.id # 0, visit'[q].row.code = c
          PROVE  visit'[q].row.id # row'.id
      <4>1. visit'[q] = visit[q]
        BY <1>2, <3>3 DEF Login!Idle, Login!NoCode
      <4>2. visit[q].row.id \in 1..issued
        BY <3>3, <4>1 DEF Login!CopyOf, Login!WasIssued
      <4> QED
        BY <1>0, <2>1, <3>1, <3>3, <4>1, <4>2 DEF Login!UsedUp
    <3> QED
      BY <1>0, <1>1, <2>1, <3>1, <3>2, <3>3 DEF Login!UsedUp
  <2> QED
    BY <1>1, <2>4, <2>5, <2>6, <2>7
<1> QED
  BY <1>3, <1>4

\* The code that is accepted was not before, and its row ends.
LEMMA LoginAdmits ==
    ASSUME Login!LoginConstants, Login!LoginInv, NEW r \in Requests, visit[r].pc = "admitting",
           row' = Login!NoCode, visit' = [visit EXCEPT ![r] = Login!Idle],
           profile' \in Login!Profile, invites' = Login!Claimed, UNCHANGED <<issued, known>>,
           accepted' = [accepted EXCEPT ![visit[r].code] = IF @ = 2 THEN 2 ELSE @ + 1]
    PROVE  Login!LoginInv'
<1> USE DEF Login!LoginInv
<1>0. /\ MaxCodes \in Nat /\ MaxAttempts \in Nat /\ MaxInvites \in Nat /\ issued \in 0..MaxCodes
      /\ invites \in [pending : 0..MaxInvites, linked : 0..MaxInvites]
      /\ accepted \in [Login!Codes -> 0..2]
  BY DEF Login!LoginConstants, Login!TypeOK
<1>1. Login!Idle \in Login!Asked /\ Login!NoCode \in Login!Row
  BY <1>0 DEF Login!Idle, Login!Asked, Login!NoCode, Login!Row, Login!Wrong
<1>2. /\ visit' \in [Requests -> Login!Asked] /\ visit'[r] = Login!Idle
      /\ \A q \in Requests : q # r => visit'[q] = visit[q]
  BY <1>1 DEF Login!TypeOK
<1>3. PICK c \in Login!Codes : c = visit[r].code /\ c = visit[r].row.code /\ visit[r].row.id = row.id
                                /\ row.id # 0 /\ c <= issued
  BY <1>0 DEF Login!CopyOf, Login!WasIssued, Login!Codes
<1>4. accepted[c] = 0 /\ accepted' = [accepted EXCEPT ![c] = 1]
  <2>1. Login!UsedUp(c)
    OBVIOUS
  <2>2. accepted[c] = 0
    BY <1>3, <2>1 DEF Login!UsedUp
  <2> QED
    BY <1>3, <2>2
<1>5. /\ invites' \in [pending : 0..MaxInvites, linked : 0..MaxInvites]
      /\ invites'.pending + invites'.linked <= MaxInvites
  BY <1>0 DEF Login!Claimed
<1>6. Login!TypeOK' /\ Login!WasIssued(row)'
  BY <1>0, <1>1, <1>2, <1>4, <1>5 DEF Login!TypeOK, Login!WasIssued, Login!NoCode
<1>7. ASSUME NEW q \in Requests PROVE Login!CopyOf(q)'
  <2>1. Login!CopyOf(q) /\ Login!CopyOf(r)
    OBVIOUS
  <2>2. CASE q = r
    BY <1>2, <2>2 DEF Login!CopyOf, Login!WasIssued, Login!Idle, Login!NoCode
  <2>3. CASE q # r
    <3>1. visit'[q] = visit[q] /\ visit[q].pc # "admitting"
      BY <1>2, <2>1, <2>3 DEF Login!CopyOf
    <3> QED
      BY <2>1, <3>1 DEF Login!CopyOf, Login!WasIssued
  <2> QED
    BY <2>2, <2>3
<1>8. ASSUME NEW d \in Login!Codes PROVE Login!UsedUp(d)'
  <2>1. Login!UsedUp(d) /\ row'.id = 0
    BY DEF Login!NoCode
  <2>2. accepted'[d] # 0 => accepted'[d] = 1 /\ d <= issued
    BY <1>0, <1>3, <1>4, <2>1 DEF Login!UsedUp
  <2> QED
    BY <2>1, <2>2 DEF Login!UsedUp
<1> QED
  BY <1>5, <1>6, <1>7, <1>8

LEMMA LoginStep ==
    ASSUME Login!LoginConstants, Login!LoginInv, Login!Next
    PROVE  Login!LoginInv'
<1> USE DEF Login!LoginInv
<1>0. /\ MaxCodes \in Nat /\ MaxAttempts \in Nat /\ MaxInvites \in Nat /\ Login!Idle \in Login!Asked
      /\ row \in Login!Row /\ known \subseteq Login!Codes /\ profile \in Login!Profile
      /\ invites \in [pending : 0..MaxInvites, linked : 0..MaxInvites]
      /\ Login!NoCode \in Login!Row
  BY DEF Login!LoginConstants, Login!TypeOK, Login!Idle, Login!Asked, Login!NoCode, Login!Row,
         Login!Wrong
<1>1. ASSUME NEW r \in Requests,
             \/ Login!Issue(r) \/ Login!Verify(r) \/ Login!SignIn(r) \/ Login!Invite(r)
      PROVE  Login!LoginInv'
  <2>1. ASSUME NEW pc \in {"issuing", "expiring", "comparing"}, NEW code \in 0..MaxCodes,
               visit' = [visit EXCEPT ![r] = Login!WithRow(pc, code)],
               pc \in {"expiring", "comparing"} => row.id # 0,
               pc = "comparing" => row.attempts < MaxAttempts,
               UNCHANGED <<row, issued, known, profile, invites, accepted>>
        PROVE  Login!LoginInv'
    <3> DEFINE k == Login!WithRow(pc, code)
    <3>1. k \in Login!Asked /\ k.pc = pc /\ k.row = row
      BY <1>0 DEF Login!WithRow, Login!Idle, Login!Asked
    <3>2. visit' = [visit EXCEPT ![r] = k]
      BY <2>1
    <3> HIDE DEF k
    <3> QED
      BY <1>0, <2>1, <3>1, <3>2, LoginAsks
  <2>2. ASSUME NEW pc \in {"signing", "inviting"},
               visit' = [visit EXCEPT ![r] = Login!WithProfile(pc)],
               UNCHANGED <<row, issued, known, profile, invites, accepted>>
        PROVE  Login!LoginInv'
    <3> DEFINE k == Login!WithProfile(pc)
    <3>1. k \in Login!Asked /\ k.pc = pc /\ k.row = Login!NoCode
      BY <1>0 DEF Login!WithProfile, Login!Idle, Login!Asked, Login!Profile, Login!Wrong
    <3>2. visit' = [visit EXCEPT ![r] = k]
      BY <2>2
    <3> HIDE DEF k
    <3> QED
      BY <1>0, <2>2, <3>1, <3>2, LoginAsks
  <2>3. known \cup {Login!Wrong} \subseteq 0..MaxCodes
    BY <1>0 DEF Login!Wrong, Login!Codes
  <2>4. CASE Login!Issue(r)
    BY <2>1, <2>3, <2>4 DEF Login!Issue, Login!Begins
  <2>5. CASE Login!Verify(r)
    BY <2>1, <2>3, <2>5 DEF Login!Verify, Login!Begins
  <2>6. CASE Login!SignIn(r) \/ Login!Invite(r)
    BY <2>2, <2>6 DEF Login!SignIn, Login!Invite, Login!Begins
  <2> QED
    BY <1>1, <2>4, <2>5, <2>6
<1>2. ASSUME NEW r \in Requests, Login!SignedIn(r) \/ Login!AddInvite(r) \/ Login!Crash(r)
      PROVE  Login!LoginInv'
  <2>1. /\ visit' = [visit EXCEPT ![r] = Login!Idle] /\ UNCHANGED <<row, issued, known, accepted>>
        /\ profile' = profile \/ profile' = [made |-> TRUE, google |-> TRUE]
    BY <1>2 DEF Login!SignedIn, Login!AddInvite, Login!Crash, Login!Ends
  <2>4. profile' \in Login!Profile
    <3>1. [made |-> TRUE, google |-> TRUE] \in Login!Profile
      BY DEF Login!Profile
    <3> QED
      BY <1>0, <2>1, <3>1
  <2>2. /\ invites' \in [pending : 0..MaxInvites, linked : 0..MaxInvites]
        /\ invites'.pending + invites'.linked <= MaxInvites
    <3>1. CASE invites' = invites
      BY <1>0, <3>1
    <3>2. CASE invites' = Login!Claimed
      BY <1>0, <3>2 DEF Login!Claimed
    <3>3. CASE /\ invites.pending + invites.linked < MaxInvites
               /\ invites' \in {[invites EXCEPT !.linked = @ + 1], [invites EXCEPT !.pending = @ + 1]}
      <4>1. invites' = [invites EXCEPT !.linked = @ + 1] \/ invites' = [invites EXCEPT !.pending = @ + 1]
        BY <3>3
      <4> QED
        BY <1>0, <3>3, <4>1
    <3> QED
      BY <1>2, <3>1, <3>2, <3>3 DEF Login!SignedIn, Login!AddInvite, Login!Crash
  <2>3. Login!Idle.pc = "idle" /\ Login!Idle.row = Login!NoCode
    BY DEF Login!Idle
  <2> QED
    BY <1>0, <2>1, <2>2, <2>3, <2>4, LoginAsks
<1>3. ASSUME NEW r \in Requests, Login!Expire(r)
      PROVE  Login!LoginInv'
  <2>1. /\ visit' = [visit EXCEPT ![r] = Login!Idle] /\ UNCHANGED <<issued, known, profile, invites, accepted>>
        /\ row' = IF row.id = visit[r].row.id THEN Login!NoCode ELSE row
        /\ \A q \in Requests : visit[q].pc = "admitting" => visit[q].row.id # visit[r].row.id
    BY <1>3 DEF Login!Expire, Login!Ends, Login!Unlocked
  <2>2. \A q \in Requests : visit[q].pc = "admitting" => row' = row
    BY <2>1 DEF Login!CopyOf
  <2>3. /\ visit' \in [Requests -> Login!Asked] /\ \A q \in Requests : visit'[q] \in {visit[q], Login!Idle}
    BY <1>0, <2>1 DEF Login!TypeOK
  <2>4. row' \in Login!Row
    BY <1>0, <2>1
  <2>5. row' = Login!NoCode \/ (row'.id = row.id /\ row'.code = row.code)
    BY <2>1
  <2> QED
    BY <2>1, <2>2, <2>3, <2>4, <2>5, LoginWrites
<1>4. ASSUME NEW r \in Requests, Login!Compare(r)
      PROVE  Login!LoginInv'
  <2>1. /\ Login!CopyOf(r) /\ visit[r] \in Login!Asked /\ visit[r].pc = "comparing"
        /\ visit[r].row.id # 0 /\ visit[r].row.attempts \in 0..MaxAttempts
        /\ visit[r].row.attempts < MaxAttempts
        /\ UNCHANGED <<issued, known, profile, invites, accepted>>
        /\ \A q \in Requests : visit[q].pc = "admitting" => visit[q].row.id # visit[r].row.id
    BY <1>4 DEF Login!Compare, Login!Unlocked, Login!TypeOK, Login!CopyOf, Login!Asked, Login!Row
  <2>2. CASE visit' = [visit EXCEPT ![r] = Login!Idle] /\ row' = row
    BY <1>0, <2>1, <2>2, LoginAsks DEF Login!Idle
  <2>3. CASE visit' = [visit EXCEPT ![r] = Login!Idle] /\ row' = [row EXCEPT !.attempts = visit[r].row.attempts + 1]
    <3>1. visit[r].row.attempts + 1 \in 0..MaxAttempts
      BY <1>0, <2>1
    <3>2. row' \in Login!Row /\ row'.id = row.id /\ row'.code = row.code
      BY <1>0, <2>3, <3>1 DEF Login!Row
    <3>3. /\ visit' \in [Requests -> Login!Asked] /\ \A q \in Requests : visit'[q] \in {visit[q], Login!Idle}
      BY <1>0, <2>3 DEF Login!TypeOK
    <3> QED
      BY <2>1, <3>2, <3>3, LoginWrites
  <2>4. CASE /\ row' = row /\ row.id = visit[r].row.id /\ visit[r].code = visit[r].row.code
             /\ visit' = [visit EXCEPT ![r].pc = "admitting", ![r].seen = profile.made]
    <3> DEFINE k == [visit[r] EXCEPT !.pc = "admitting", !.seen = profile.made]
    <3>1. k \in Login!Asked /\ k.pc = "admitting" /\ k.row = visit[r].row /\ k.code = visit[r].code
      BY <1>0, <2>1 DEF Login!Asked, Login!Profile
    <3>2. visit' = [visit EXCEPT ![r] = k]
      BY <2>4
    <3>3. \A q \in Requests : visit[q].pc # "admitting"
      BY <2>1, <2>4 DEF Login!CopyOf
    <3>4. k.row.id # 0 /\ k.row.id = row.id /\ k.code = k.row.code
      BY <2>1, <2>4, <3>1
    <3>5. row' = row
      BY <2>4
    <3> HIDE DEF k
    <3> QED
      BY <1>0, <2>1, <3>1, <3>2, <3>3, <3>4, <3>5, LoginAsks
  <2> QED
    BY <1>4, <2>2, <2>3, <2>4 DEF Login!Compare, Login!Gone, Login!Ends
<1>5. ASSUME NEW r \in Requests, Login!Admit(r)
      PROVE  Login!LoginInv'
  <2>1. CASE Login!FoundOrMade(r)
    <3>1. row.id = visit[r].row.id
      BY <1>5 DEF Login!Admit, Login!CopyOf
    <3>2. [profile EXCEPT !.made = TRUE] \in Login!Profile
      BY <1>0 DEF Login!Profile
    <3> QED
      BY <1>5, <2>1, <3>1, <3>2, LoginAdmits DEF Login!Admit, Login!Ends
  <2>2. CASE ~Login!FoundOrMade(r)
    <3>1. visit' = [visit EXCEPT ![r] = Login!Idle] /\ UNCHANGED <<row, issued, known, profile, invites, accepted>>
      BY <1>5, <2>2 DEF Login!Admit, Login!Ends
    <3> QED
      BY <1>0, <3>1, LoginAsks DEF Login!Idle
  <2> QED
    BY <2>1, <2>2
<1>6. CASE Login!Age
  <2>1. /\ row' = [row EXCEPT !.late = ~row.recent, !.recent = FALSE]
        /\ UNCHANGED <<issued, known, visit, profile, invites, accepted>>
    BY <1>6 DEF Login!Age
  <2>2. row' \in Login!Row /\ row'.id = row.id /\ row'.code = row.code
    BY <1>0, <2>1 DEF Login!Row
  <2> QED
    BY <2>1, <2>2, LoginWrites DEF Login!TypeOK
<1> QED
  BY <1>1, <1>2, <1>3, <1>4, <1>5, <1>6, LoginStores DEF Login!Next

LEMMA LoginInvariance == Spec /\ part = "login" => []Login!LoginInv
<1>0. Login!LoginConstants
  BY Constants
<1>1. Login!Init => Login!LoginInv
  <2> SUFFICES ASSUME Login!Init PROVE Login!LoginInv
    OBVIOUS
  <2>0. /\ MaxCodes \in Nat /\ MaxAttempts \in Nat /\ MaxInvites \in Nat
        /\ Login!NoCode \in Login!Row
    BY <1>0 DEF Login!LoginConstants, Login!NoCode, Login!Row
  <2>1. Login!Idle \in Login!Asked /\ Login!Idle.pc = "idle" /\ Login!Idle.row.id = 0
    BY <2>0 DEF Login!Idle, Login!Asked, Login!Wrong, Login!NoCode
  <2>2. Login!TypeOK
    <3>1. row = Login!NoCode /\ issued = 0 /\ known = {} /\ visit = [r \in Requests |-> Login!Idle]
      BY DEF Login!Init
    <3>2. profile \in Login!Profile
      BY DEF Login!Init, Login!Profile
    <3>3. invites \in [pending : 0..MaxInvites, linked : 0..MaxInvites]
      BY <2>0 DEF Login!Init
    <3>4. accepted \in [Login!Codes -> 0..2]
      BY DEF Login!Init
    <3> QED
      BY <2>0, <2>1, <3>1, <3>2, <3>3, <3>4 DEF Login!TypeOK
  <2>3. \A r \in Requests : visit[r] = Login!Idle
    BY DEF Login!Init
  <2>4. row.id = 0 /\ (\A c \in Login!Codes : accepted[c] = 0) /\ invites.pending + invites.linked = 0
    BY DEF Login!Init, Login!NoCode
  <2>5. \A r \in Requests : visit[r].row.id = 0 /\ visit[r].pc = "idle"
    BY <2>1, <2>3
  <2> QED
    BY <2>0, <2>2, <2>4, <2>5 DEF Login!LoginInv, Login!WasIssued, Login!CopyOf, Login!UsedUp
<1>2. Login!LoginInv /\ [Login!Next]_(Login!vars) => Login!LoginInv'
  <2>1. ASSUME Login!LoginInv, UNCHANGED Login!vars
        PROVE  Login!LoginInv'
    BY <2>1 DEF Login!vars, Login!LoginInv, Login!TypeOK, Login!WasIssued, Login!CopyOf, Login!UsedUp
  <2> QED
    BY <1>0, <2>1, LoginStep
<1>3. Login!Spec => []Login!LoginInv
  BY <1>1, <1>2, PTL DEF Login!Spec
<1> QED
  BY <1>3, LoginRuns, PTL

\* A one-time code signs nobody in twice.
THEOREM CodeOnceHolds == Spec => []CodeOnce
<1>1. Login!LoginInv => Login!CodeOnce
  BY DEF Login!LoginInv, Login!UsedUp, Login!CodeOnce
<1> QED
  BY <1>1, LoginInvariance, LoginRuns, PTL DEF CodeOnce
-------------------------------------------------------------------------------
(* Stores: while one request runs at a time, an address has one row.       *)

\* A live row is one with an address.
LEMMA MembersRows ==
    ASSUME Members!StoresConstants
    PROVE  /\ \A m \in Mails : Members!RowsTo(m) = {i \in Members!Ids : rows[i].mail = m}
           /\ \A p \in People : Members!RowsOf(p) = {i \in Members!Ids : rows[i].person = p}
BY DEF Members!StoresConstants, Members!RowsTo, Members!RowsOf, Members!Live, Members!NoMember

\* Where there is one row at most, RowTo is its id.
LEMMA MembersRowTo ==
    ASSUME Members!StoresConstants, NEW m \in Mails
    PROVE  \/ Members!RowTo(m) = 0 /\ \A i \in Members!Ids : rows[i].mail # m
           \/ Members!RowTo(m) \in Members!Ids /\ rows[Members!RowTo(m)].mail = m
<1>1. Members!RowsTo(m) = {i \in Members!Ids : rows[i].mail = m}
  BY MembersRows
<1>2. CASE Members!RowsTo(m) = {}
  BY <1>1, <1>2 DEF Members!RowTo
<1>3. CASE Members!RowsTo(m) # {}
  <2>1. Members!RowTo(m) \in Members!RowsTo(m)
    BY <1>3 DEF Members!RowTo
  <2> QED
    BY <1>1, <2>1
<1> QED
  BY <1>2, <1>3

LEMMA MembersProfileOf ==
    ASSUME NEW m \in Mails
    PROVE  \/ Members!ProfileOf(m) = NoOne
           \/ Members!ProfileOf(m) \in People /\ mail[Members!ProfileOf(m)] = m
BY DEF Members!ProfileOf

\* What a request reads about an address is so while it runs.
LEMMA MembersReads ==
    ASSUME Members!StoresConstants, Members!AccessInv, NEW m \in Mails, NEW role \in Members!Roles,
           NEW pc \in {"inviting", "seeding"},
           begun' = [begun EXCEPT ![r1] = Members!Copy(pc, m, role)],
           UNCHANGED <<mail, rows, last>>
    PROVE  Members!AccessInv'
<1> USE DEF Members!AccessInv
<1> DEFINE k == Members!Copy(pc, m, role)
<1>1. /\ MaxMembers \in Nat /\ NoOne \notin People \cup Mails /\ Members!TypeOK
  BY DEF Members!StoresConstants
<1>2. /\ k.pc = pc /\ k.mail = m /\ k.id = Members!RowTo(m) /\ k.role = role
      /\ k.was = IF k.id = 0 THEN role ELSE rows[k.id].role
      /\ k.person \in {NoOne, Members!ProfileOf(m)}
      /\ k = [pc |-> k.pc, id |-> k.id, mail |-> k.mail, role |-> k.role, was |-> k.was,
              person |-> k.person]
  BY DEF Members!Copy
<1>3. \/ k.id = 0 /\ \A i \in Members!Ids : rows[i].mail # m
      \/ k.id \in Members!Ids /\ rows[k.id].mail = m
  BY <1>2, MembersRowTo
<1>4. k.person = NoOne \/ (k.person \in People /\ mail[k.person] = m)
  BY <1>2, MembersProfileOf
<1> HIDE DEF k
<1>5. k.id \in 0..MaxMembers /\ k.was \in Members!Roles
  BY <1>1, <1>2, <1>3 DEF Members!Ids, Members!TypeOK, Members!Member
<1>6. k \in Members!Begun
  <2>1. k.pc \in {"idle", "inviting", "revoking", "seeding"} /\ k.mail \in Mails \cup {NoOne}
        /\ k.person \in People \cup {NoOne} /\ k.role \in Members!Roles
    BY <1>2, <1>4
  <2> QED
    BY <1>2, <1>5, <2>1 DEF Members!Begun
<1>7. begun' \in [{r1} -> Members!Begun] /\ begun'[r1] = k
  BY <1>6 DEF Members!TypeOK, k
<1>8. Members!TypeOK' /\ Members!OwnAddress' /\ Members!OneOfAddress' /\ Members!LinkedByAddress'
  BY <1>7 DEF Members!TypeOK, Members!OwnAddress, Members!OneOfAddress, Members!LinkedByAddress
<1>9. Members!ReadStands(r1)'
  BY <1>1, <1>2, <1>3, <1>4, <1>7 DEF Members!ReadStands, Members!Ids
<1> QED
  BY <1>8, <1>9

\* A person who signs in takes the rows of an address that is nobody else's.
LEMMA MembersSignIn ==
    ASSUME Members!StoresConstants, Members!AccessInv, NEW p \in People, NEW m \in Mails,
           Members!SignIn(p, m)
    PROVE  Members!AccessInv'
<1> USE DEF Members!AccessInv
<1>1. /\ mail[p] \in {NoOne, m} /\ \A q \in People \ {p} : mail[q] # m
      /\ mail' = [mail EXCEPT ![p] = m] /\ rows' = Members!Claim(p, m)
      /\ UNCHANGED <<last, begun>> /\ NoOne \notin People \cup Mails
  BY DEF Members!SignIn, Members!StoresConstants
<1>2. /\ mail' \in [People -> Mails \cup {NoOne}] /\ mail'[p] = m
      /\ \A q \in People : q # p => mail'[q] = mail[q]
  BY <1>1 DEF Members!TypeOK
<1>3. \A q \in People : mail[q] # NoOne => mail'[q] = mail[q]
  BY <1>1, <1>2
<1>4. /\ rows' \in [Members!Ids -> Members!Member]
      /\ \A i \in Members!Ids : /\ rows'[i].mail = rows[i].mail
                                /\ \/ rows'[i].person = rows[i].person
                                   \/ rows'[i].person = p /\ rows[i].mail = m
  <2>1. rows' = [i \in Members!Ids |-> IF rows[i].mail = m /\ rows[i].person = NoOne
                                       THEN [rows[i] EXCEPT !.person = p] ELSE rows[i]]
    BY <1>1, MembersRows DEF Members!Claim
  <2>2. ASSUME NEW i \in Members!Ids
        PROVE  /\ rows'[i] \in Members!Member
               /\ rows'[i].mail = rows[i].mail
               /\ \/ rows'[i].person = rows[i].person
                  \/ rows'[i].person = p /\ rows[i].mail = m
    <3>1. rows[i] \in Members!Member
      BY DEF Members!TypeOK
    <3> QED
      BY <2>1, <3>1 DEF Members!Member
  <2> QED
    BY <2>1, <2>2
<1>5. Members!TypeOK'
  BY <1>1, <1>2, <1>4 DEF Members!TypeOK
<1>6. Members!OwnAddress'
  BY <1>1, <1>2 DEF Members!OwnAddress
<1>7. Members!OneOfAddress'
  BY <1>4 DEF Members!OneOfAddress, Members!Ids
<1>8. Members!LinkedByAddress'
  <2> SUFFICES ASSUME NEW i \in Members!Ids, rows'[i].person # NoOne
               PROVE  rows'[i].mail \in Mails /\ mail'[rows'[i].person] = rows'[i].mail
    BY DEF Members!LinkedByAddress, Members!Ids
  <2>1. CASE rows'[i].person = rows[i].person
    <3>1. rows[i].person \in People
      BY <1>4, <2>1 DEF Members!TypeOK, Members!Member
    <3>2. rows[i].mail \in Mails /\ mail[rows[i].person] = rows[i].mail
      BY <2>1 DEF Members!LinkedByAddress
    <3> QED
      BY <1>1, <1>3, <1>4, <2>1, <3>1, <3>2
  <2>2. CASE rows'[i].person = p /\ rows[i].mail = m
    BY <1>2, <1>4, <2>2
  <2> QED
    BY <1>4, <2>1, <2>2
<1>9. Members!ReadStands(r1)'
  <2>1. Members!ReadStands(r1) /\ begun[r1] \in Members!Begun
    BY DEF Members!TypeOK
  <2>2. begun[r1].id # 0 => begun[r1].id \in Members!Ids
    BY <2>1 DEF Members!Begun, Members!Ids
  <2>3. begun[r1].person # NoOne => begun[r1].person \in People
    BY <2>1 DEF Members!Begun
  <2> QED
    BY <1>1, <1>3, <1>4, <2>1, <2>2, <2>3 DEF Members!ReadStands, Members!Ids
<1> QED
  BY <1>5, <1>6, <1>7, <1>8, <1>9

\* A request that ends is the only one: nothing else has read the rows it writes.
LEMMA MembersEnds ==
    ASSUME Members!StoresConstants, Members!AccessInv, UNCHANGED mail, Members!Ends(r1),
           last' \in 0..MaxMembers, rows' \in [Members!Ids -> Members!Member],
           Members!OneOfAddress', Members!LinkedByAddress'
    PROVE  Members!AccessInv'
<1> USE DEF Members!AccessInv
<1>1. begun' = [begun EXCEPT ![r1] = Members!Nothing] /\ MaxMembers \in Nat
  BY DEF Members!Ends, Members!StoresConstants
<1>2. Members!Nothing \in Members!Begun /\ Members!Nothing.pc = "idle"
  BY <1>1 DEF Members!Nothing, Members!Begun, Members!Roles
<1>3. begun' \in [{r1} -> Members!Begun] /\ begun'[r1].pc = "idle"
  BY <1>1, <1>2 DEF Members!TypeOK
<1>4. Members!TypeOK' /\ Members!OwnAddress' /\ Members!ReadStands(r1)'
  BY <1>3 DEF Members!TypeOK, Members!OwnAddress, Members!ReadStands
<1> QED
  BY <1>4

LEMMA MembersStep ==
    ASSUME Members!StoresConstants, Members!AccessInv, Members!Next
    PROVE  Members!AccessInv'
<1> USE DEF Members!AccessInv
<1>0. /\ MaxMembers \in Nat /\ NoOne \notin People \cup Mails /\ last \in 0..MaxMembers
      /\ rows \in [Members!Ids -> Members!Member] /\ begun[r1] \in Members!Begun
      /\ Members!NoMember \in Members!Member /\ Members!NoMember.mail \notin Mails
      /\ Members!NoMember.person = NoOne /\ Members!NoMember.mail = NoOne
  BY DEF Members!StoresConstants, Members!TypeOK, Members!NoMember, Members!Member, Members!Roles
<1>1. ASSUME Members!AddRow(r1)
      PROVE  Members!AccessInv'
  <2>1. /\ begun[r1].pc \in {"inviting", "seeding"} /\ begun[r1].id = 0 /\ last < MaxMembers
        /\ last' = last + 1 /\ Members!Ends(r1) /\ UNCHANGED mail
    BY <1>1 DEF Members!AddRow
  <2>2. /\ begun[r1].mail \in Mails /\ begun[r1].person \in People \cup {NoOne}
        /\ begun[r1].role \in Members!Roles
        /\ \A i \in Members!Ids : rows[i].mail # begun[r1].mail
        /\ begun[r1].person # NoOne => mail[begun[r1].person] = begun[r1].mail
    BY <1>0, <2>1 DEF Members!ReadStands, Members!Begun
  <2>3. PICK i \in Members!Ids : i = last + 1
    BY <1>0, <2>1 DEF Members!Ids
  <2>4. PICK c \in Members!Member : c = [mail |-> begun[r1].mail, person |-> begun[r1].person,
                                          role |-> begun[r1].role]
    BY <2>2 DEF Members!Member
  <2>5. rows' = [rows EXCEPT ![i] = c]
    BY <1>1, <2>1, <2>3, <2>4 DEF Members!AddRow
  <2>6. /\ rows' \in [Members!Ids -> Members!Member] /\ rows'[i] = c
        /\ \A j \in Members!Ids : j # i => rows'[j] = rows[j]
    BY <1>0, <2>5
  <2>7. Members!OneOfAddress'
    BY <2>2, <2>4, <2>6 DEF Members!OneOfAddress, Members!Ids
  <2>8. Members!LinkedByAddress'
    BY <2>1, <2>2, <2>4, <2>6 DEF Members!LinkedByAddress, Members!Ids
  <2>9. last' \in 0..MaxMembers
    BY <1>0, <2>1
  <2> QED
    BY <2>1, <2>6, <2>7, <2>8, <2>9, MembersEnds
<1>2. ASSUME Members!ChangeRow(r1)
      PROVE  Members!AccessInv'
  <2>1. /\ begun[r1].pc \in {"inviting", "seeding"} /\ begun[r1].id # 0
        /\ Members!Ends(r1) /\ UNCHANGED <<mail, last>>
    BY <1>2 DEF Members!ChangeRow
  <2>2. CASE rows' = rows
    BY <1>0, <2>1, <2>2, MembersEnds DEF Members!OneOfAddress, Members!LinkedByAddress
  <2>3. CASE rows' # rows
    <3>1. PICK i \in Members!Ids : i = begun[r1].id
      BY <1>0, <2>1 DEF Members!Begun, Members!Ids
    <3>2. /\ rows[i].mail = begun[r1].mail /\ begun[r1].mail \in Mails
          /\ begun[r1].person \in People \cup {NoOne} /\ begun[r1].role \in Members!Roles
          /\ begun[r1].person # NoOne => mail[begun[r1].person] = rows[i].mail
          /\ rows[i] \in Members!Member
      BY <1>0, <2>1, <3>1 DEF Members!ReadStands, Members!Begun
    <3>3. rows' = [rows EXCEPT
                     ![i].role   = IF begun[r1].role = begun[r1].was THEN @ ELSE begun[r1].role,
                     ![i].person = IF begun[r1].pc = "seeding" /\ begun[r1].person # NoOne
                                   THEN begun[r1].person ELSE @]
      BY <1>2, <2>3, <3>1 DEF Members!ChangeRow
    <3>4. /\ rows' \in [Members!Ids -> Members!Member] /\ rows'[i].mail = rows[i].mail
          /\ rows'[i].person \in {rows[i].person, begun[r1].person}
          /\ \A j \in Members!Ids : j # i => rows'[j] = rows[j]
      BY <1>0, <3>2, <3>3 DEF Members!Member
    <3>5. Members!OneOfAddress'
      BY <3>4 DEF Members!OneOfAddress, Members!Ids
    <3>6. Members!LinkedByAddress'
      BY <2>1, <3>2, <3>4 DEF Members!LinkedByAddress, Members!Ids
    <3> QED
      BY <1>0, <2>1, <3>4, <3>5, <3>6, MembersEnds
  <2> QED
    BY <2>2, <2>3
<1>3. ASSUME Members!RemoveRow(r1)
      PROVE  Members!AccessInv'
  <2>1. PICK i \in Members!Ids : i = begun[r1].id
    BY <1>0, <1>3 DEF Members!RemoveRow, Members!ReadStands, Members!Begun, Members!Ids
  <2>2. /\ Members!Ends(r1) /\ UNCHANGED <<mail, last>> /\ rows' = [rows EXCEPT ![i] = Members!NoMember]
    BY <1>3, <2>1 DEF Members!RemoveRow
  <2>3. /\ rows' \in [Members!Ids -> Members!Member] /\ rows'[i] = Members!NoMember
        /\ \A j \in Members!Ids : j # i => rows'[j] = rows[j]
    BY <1>0, <2>2
  <2>4. Members!OneOfAddress'
    BY <1>0, <2>3 DEF Members!OneOfAddress, Members!Ids
  <2>5. Members!LinkedByAddress'
    BY <1>0, <2>2, <2>3 DEF Members!LinkedByAddress, Members!Ids
  <2> QED
    BY <1>0, <2>2, <2>3, <2>4, <2>5, MembersEnds
<1>4. ASSUME NEW p \in People, NEW i \in Members!Ids, Members!Revoke(r1, p, i)
      PROVE  Members!AccessInv'
  <2> DEFINE k == [Members!Nothing EXCEPT !.pc = "revoking", !.id = i]
  <2>0. i \in 0..MaxMembers /\ i # 0
    BY <1>0 DEF Members!Ids
  <2>1. k \in Members!Begun /\ k.pc = "revoking" /\ k.id # 0
    BY <2>0 DEF Members!Nothing, Members!Begun, Members!Roles
  <2>2. begun' = [begun EXCEPT ![r1] = k] /\ UNCHANGED <<mail, rows, last>>
    BY <1>4 DEF Members!Revoke, Members!Begins
  <2> HIDE DEF k
  <2>3. begun' \in [{r1} -> Members!Begun] /\ begun'[r1] = k
    BY <2>1, <2>2 DEF Members!TypeOK
  <2>4. Members!TypeOK' /\ Members!OwnAddress' /\ Members!OneOfAddress' /\ Members!LinkedByAddress'
    BY <2>2, <2>3 DEF Members!TypeOK, Members!OwnAddress, Members!OneOfAddress, Members!LinkedByAddress
  <2>5. Members!ReadStands(r1)'
    BY <2>1, <2>3 DEF Members!ReadStands
  <2> QED
    BY <2>4, <2>5
<1>5. ASSUME NEW m \in Mails, NEW role \in Members!Roles,
             (\E p \in People : Members!Invite(r1, p, m, role)) \/ Members!Seed(r1, m, role)
      PROVE  Members!AccessInv'
  BY <1>5, MembersReads DEF Members!Invite, Members!Seed, Members!Begins
<1> QED
  BY <1>1, <1>2, <1>3, <1>4, <1>5, MembersSignIn DEF Members!Next

LEMMA MembersInvariance == Spec /\ part = "members" => []Members!AccessInv
<1>0. Members!StoresConstants
  BY Constants
<1>1. Members!Init => Members!AccessInv
  <2> SUFFICES ASSUME Members!Init PROVE Members!AccessInv
    OBVIOUS
  <2>1. /\ MaxMembers \in Nat /\ NoOne \notin People \cup Mails
        /\ mail = [p \in People |-> NoOne] /\ rows = [i \in Members!Ids |-> Members!NoMember]
        /\ last = 0 /\ begun = [r \in {r1} |-> Members!Nothing]
    BY <1>0 DEF Members!Init, Members!StoresConstants
  <2>2. /\ Members!NoMember \in Members!Member /\ Members!NoMember.mail = NoOne
        /\ Members!NoMember.person = NoOne
    BY DEF Members!NoMember, Members!Member, Members!Roles
  <2>3. Members!Nothing \in Members!Begun /\ Members!Nothing.pc = "idle"
    BY <2>1 DEF Members!Nothing, Members!Begun, Members!Roles
  <2>4. Members!TypeOK
    BY <2>1, <2>2, <2>3 DEF Members!TypeOK
  <2>5. Members!OwnAddress /\ Members!OneOfAddress /\ Members!LinkedByAddress
    BY <2>1, <2>2 DEF Members!OwnAddress, Members!OneOfAddress, Members!LinkedByAddress
  <2>6. begun[r1].pc = "idle"
    BY <2>1, <2>3
  <2> QED
    BY <2>4, <2>5, <2>6 DEF Members!AccessInv, Members!ReadStands
<1>2. Members!AccessInv /\ [Members!Next]_(Members!vars) => Members!AccessInv'
  <2>1. ASSUME Members!AccessInv, UNCHANGED Members!vars
        PROVE  Members!AccessInv'
    BY <2>1 DEF Members!vars, Members!AccessInv, Members!TypeOK, Members!OwnAddress,
                Members!OneOfAddress, Members!LinkedByAddress, Members!ReadStands
  <2> QED
    BY <1>0, <2>1, MembersStep
<1>3. Members!Spec => []Members!AccessInv
  BY <1>1, <1>2, PTL DEF Members!Spec
<1> QED
  BY <1>3, MembersRuns, PTL

\* Every check of a permission finds one row at most.
THEOREM AccessAnswersHolds == Spec => []AccessAnswers
<1>0. Members!StoresConstants
  BY Constants
<1>1. Members!AccessInv => Members!AccessAnswers
  <2> SUFFICES ASSUME Members!AccessInv PROVE Members!AccessAnswers
    OBVIOUS
  <2>1. ASSUME NEW S, \A i, j \in S : i = j
        PROVE  Cardinality(S) <= 1
    <3>1. CASE S = {}
      BY <3>1, FS_EmptySet
    <3>2. CASE S # {}
      <4>1. PICK i : S = {i}
        BY <2>1, <3>2
      <4>2. Cardinality(S) = 1
        BY <4>1, FS_Singleton
      <4> QED
        BY <4>2
    <3> QED
      BY <3>1, <3>2
  <2>2. ASSUME NEW m \in Mails PROVE Members!OneRowTo(m)
    <3>1. \A i, j \in Members!RowsTo(m) : i = j
      BY <1>0, MembersRows DEF Members!AccessInv, Members!OneOfAddress
    <3> QED
      BY <2>1, <3>1 DEF Members!OneRowTo, Members!Cardinality, Cardinality
  <2>3. ASSUME NEW p \in People PROVE Members!Answered(p)
    <3>1. NoOne \notin People
      BY <1>0 DEF Members!StoresConstants
    <3>2. \A i, j \in Members!RowsOf(p) : i = j
      BY <1>0, <3>1, MembersRows DEF Members!AccessInv, Members!OneOfAddress, Members!LinkedByAddress
    <3> QED
      BY <2>1, <3>2 DEF Members!Answered, Members!Cardinality, Cardinality
  <2> QED
    BY <2>2, <2>3 DEF Members!AccessAnswers
<1> QED
  BY <1>1, MembersInvariance, MembersRuns, PTL DEF AccessAnswers
-------------------------------------------------------------------------------
(* SellerSync: the seller hears of one payment, and of no end that is none. *)

\* An order that is at its payment or past it does not come back to it.
LEMMA ToldMoves ==
    ASSUME NEW s \in Told!OrderState, s \notin {"PRE_AUTH", "AUTHED"}, NEW t \in Told!Allowed[s]
    PROVE  /\ t \in Told!OrderState /\ t \notin {"PRE_AUTH", "AUTHED", "CART_REVIEWED"}
           /\ s \notin Told!EndStates
BY DEF Told!Allowed, Told!OrderState, Told!EndStates

\* A request that begins or gives up without writing leaves the rest as it is.
LEMMA ToldLooks ==
    ASSUME Told!AgreeInv, NEW r \in Requests, NEW k \in Told!Asked,
           paying' = [paying EXCEPT ![r] = k], k.pc # "committing", k.to = "none",
           paying[r].to = "none", UNCHANGED <<flow, paidState, task, purchase, seller, meta>>
    PROVE  Told!AgreeInv'
<1> USE DEF Told!AgreeInv
<1>1. /\ paying' \in [Requests -> Told!Asked] /\ paying'[r] = k
      /\ \A q \in Requests : q # r => paying'[q] = paying[q]
  BY DEF Told!TypeOK
<1>2. \A q \in Requests : paying'[q].to = paying[q].to
  BY <1>1
<1>3. Told!TypeOK'
  BY <1>1 DEF Told!TypeOK
<1>4. Told!OneWrites'
  BY <1>1, <1>2 DEF Told!OneWrites, Told!Writing
<1>5. Told!OneDispatch'
  BY <1>2 DEF Told!OneDispatch, Told!Dispatching, Told!Paid
<1>6. Told!EndsAgree'
  BY <1>2 DEF Told!EndsAgree, Told!EndStates
<1> QED
  BY <1>3, <1>4, <1>5, <1>6

\* The first mark finds nothing dispatched, and nobody else can make one.
LEMMA ToldMark ==
    ASSUME Told!AgreeInv, NEW r \in Requests, Told!Mark(r)
    PROVE  Told!AgreeInv'
<1> USE DEF Told!AgreeInv
<1>1. /\ paidState = "CART_REVIEWED" /\ \A q \in Requests : paying[q].pc # "committing"
      /\ paying' = [paying EXCEPT ![r] = [Told!Idle EXCEPT !.pc = "committing", !.to = "ESCROW_HELD"]]
      /\ task' = [task EXCEPT ![r] = "starting"] /\ purchase' = [purchase EXCEPT ![r] = TRUE]
      /\ UNCHANGED <<flow, paidState, seller, meta>>
  BY DEF Told!Mark, Told!RowFree, Told!Reaches, Told!Seen
<1>2. \A q \in Requests : paying[q].to = "none"
  BY <1>1 DEF Told!OneWrites, Told!Writing
<1>3. /\ \A q \in Requests : ~Told!Dispatching(q) /\ ~purchase[q]
      /\ ~(seller.confirms + seller.posts > 0) /\ ~meta /\ seller.badge \notin Told!EndStates
      /\ \A q \in Requests : task[q] \notin Told!EndStates
  BY <1>1, <1>2 DEF Told!OneDispatch, Told!Paid, Told!EndsAgree, Told!EndStates
<1>4. PICK k \in Told!Asked : k = [Told!Idle EXCEPT !.pc = "committing", !.to = "ESCROW_HELD"]
  BY DEF Told!Idle, Told!Asked, Told!OrderState
<1>5. k.pc = "committing" /\ k.to = "ESCROW_HELD"
  BY <1>4 DEF Told!Idle
<1>6. /\ paying' \in [Requests -> Told!Asked] /\ paying'[r] = k
      /\ \A q \in Requests : q # r => paying'[q] = paying[q]
      /\ task' \in [Requests -> {"none", "starting", "confirming", "posting"} \cup Told!EndStates]
      /\ task'[r] = "starting" /\ \A q \in Requests : q # r => task'[q] = task[q]
      /\ purchase' \in [Requests -> BOOLEAN]
  BY <1>1, <1>4 DEF Told!TypeOK
<1>7. Told!TypeOK'
  BY <1>1, <1>6 DEF Told!TypeOK
<1>8. Told!OneWrites'
  BY <1>1, <1>2, <1>5, <1>6 DEF Told!OneWrites, Told!Writing
<1>9. Told!Paid'
  BY <1>5, <1>6 DEF Told!Paid
<1>10. seller.confirms = 0 /\ seller.posts = 0
  BY <1>3 DEF Told!TypeOK, Told!SellerHas
<1>11. Told!OneDispatch'
  BY <1>1, <1>3, <1>6, <1>9, <1>10 DEF Told!OneDispatch, Told!Dispatching
<1>12. Told!EndsAgree'
  BY <1>1, <1>3, <1>6 DEF Told!EndsAgree, Told!EndStates
<1> QED
  BY <1>1, <1>7, <1>8, <1>11, <1>12

LEMMA ToldClose ==
    ASSUME Told!AgreeInv, NEW r \in Requests, NEW to \in Told!EndStates, Told!Close(r, to)
    PROVE  Told!AgreeInv'
<1> USE DEF Told!AgreeInv
<1>1. /\ \A q \in Requests : paying[q].pc # "committing"
      /\ paying' = [paying EXCEPT ![r] = [Told!Idle EXCEPT !.pc = "committing", !.to = to]]
      /\ task' = [task EXCEPT ![r] = to]
      /\ UNCHANGED <<flow, paidState, purchase, seller, meta>>
  BY DEF Told!Close, Told!RowFree
<1>2. \A q \in Requests : paying[q].to = "none"
  BY <1>1 DEF Told!OneWrites, Told!Writing
<1>3. PICK k \in Told!Asked : k = [Told!Idle EXCEPT !.pc = "committing", !.to = to]
  BY DEF Told!Idle, Told!Asked, Told!OrderState
<1>4. k.pc = "committing" /\ k.to = to
  BY <1>3 DEF Told!Idle
<1>5. /\ paying' \in [Requests -> Told!Asked] /\ paying'[r] = k
      /\ \A q \in Requests : q # r => paying'[q] = paying[q]
      /\ task' \in [Requests -> {"none", "starting", "confirming", "posting"} \cup Told!EndStates]
      /\ task'[r] = to /\ \A q \in Requests : q # r => task'[q] = task[q]
  BY <1>1, <1>3 DEF Told!TypeOK
<1>6. Told!TypeOK'
  BY <1>1, <1>5 DEF Told!TypeOK
<1>7. to \notin {"none", "ESCROW_HELD", "starting", "confirming", "posting"}
  BY DEF Told!EndStates
<1>8. Told!OneWrites'
  BY <1>1, <1>2, <1>4, <1>5, <1>7 DEF Told!OneWrites, Told!Writing
<1>9. Told!Paid => Told!Paid'
  BY <1>1, <1>2 DEF Told!Paid
<1>10. Told!OneDispatch'
  BY <1>1, <1>5, <1>7, <1>9 DEF Told!OneDispatch, Told!Dispatching
<1>11. Told!EndsAgree'
  BY <1>1, <1>2, <1>4, <1>5 DEF Told!EndsAgree, Told!EndStates
<1> QED
  BY <1>1, <1>6, <1>8, <1>10, <1>11

LEMMA ToldCommit ==
    ASSUME Told!AgreeInv, NEW r \in Requests, Told!Commit(r)
    PROVE  Told!AgreeInv'
<1> USE DEF Told!AgreeInv
<1>1. /\ paying[r].pc = "committing" /\ paidState' = paying[r].to
      /\ paying' = [paying EXCEPT ![r] = Told!Idle]
      /\ UNCHANGED <<flow, task, purchase, seller, meta>>
  BY DEF Told!Commit
<1>2. /\ paying[r].to \in {"ESCROW_HELD"} \cup Told!EndStates
      /\ \A q \in Requests : q # r => paying[q].pc # "committing" /\ paying[q].to = "none"
      /\ paying[r].to = "ESCROW_HELD" => paidState = "CART_REVIEWED"
  BY <1>1 DEF Told!OneWrites, Told!Writing, Told!TypeOK, Told!Asked
<1>3. Told!Idle \in Told!Asked /\ Told!Idle.to = "none" /\ Told!Idle.pc = "idle"
  BY DEF Told!Idle, Told!Asked, Told!OrderState
<1>4. /\ paying' \in [Requests -> Told!Asked] /\ paying'[r] = Told!Idle
      /\ \A q \in Requests : q # r => paying'[q] = paying[q]
  BY <1>1, <1>3 DEF Told!TypeOK
<1>5. /\ paidState' \in Told!OrderState
      /\ paidState' \notin {"PRE_AUTH", "AUTHED", "CART_REVIEWED"}
  BY <1>1, <1>2 DEF Told!OrderState, Told!EndStates
<1>6. Told!TypeOK'
  BY <1>1, <1>4, <1>5 DEF Told!TypeOK
<1>7. Told!OneWrites'
  BY <1>2, <1>3, <1>4 DEF Told!OneWrites, Told!Writing
<1>8. Told!Paid'
  BY <1>5 DEF Told!Paid
<1>9. Told!OneDispatch'
  BY <1>1, <1>8 DEF Told!OneDispatch, Told!Dispatching
<1>10. Told!EndsAgree'
  <2>1. CASE paying[r].to \in Told!EndStates
    BY <1>1, <2>1 DEF Told!EndsAgree, Told!EndStates
  <2>2. CASE paying[r].to = "ESCROW_HELD"
    <3>1. /\ \A q \in Requests : paying[q].to \notin Told!EndStates
          /\ paidState \notin Told!EndStates
      BY <1>2, <2>2 DEF Told!EndStates
    <3>2. (\A q \in Requests : task[q] \notin Told!EndStates) /\ seller.badge \notin Told!EndStates
      BY <3>1 DEF Told!EndsAgree
    <3> QED
      BY <1>1, <3>2 DEF Told!EndsAgree, Told!EndStates
  <2> QED
    BY <1>2, <2>1, <2>2
<1> QED
  BY <1>5, <1>6, <1>7, <1>9, <1>10

\* Nobody is writing the order while somebody else moves it.
LEMMA ToldOther ==
    ASSUME Told!AgreeInv, Told!OtherTransition
    PROVE  Told!AgreeInv'
<1> USE DEF Told!AgreeInv
<1>1. /\ \A q \in Requests : paying[q].pc # "committing"
      /\ paidState' \in Told!Allowed[paidState] /\ UNCHANGED <<flow, paying, task, purchase, seller, meta>>
  BY DEF Told!OtherTransition, Told!RowFree
<1>2. /\ paidState' \in Told!OrderState /\ paidState' \notin {"PRE_AUTH", "AUTHED", "CART_REVIEWED"}
      /\ paidState \notin Told!EndStates
  BY <1>1, ToldMoves DEF Told!TypeOK
<1>3. \A q \in Requests : paying[q].to = "none"
  BY <1>1 DEF Told!OneWrites, Told!Writing
<1>4. Told!TypeOK'
  BY <1>1, <1>2 DEF Told!TypeOK
<1>5. Told!OneWrites'
  BY <1>1, <1>3 DEF Told!OneWrites, Told!Writing
<1>6. Told!Paid'
  BY <1>2 DEF Told!Paid
<1>7. Told!OneDispatch'
  BY <1>1, <1>6 DEF Told!OneDispatch, Told!Dispatching
<1>8. Told!EndsAgree'
  <2>1. (\A q \in Requests : task[q] \notin Told!EndStates) /\ seller.badge \notin Told!EndStates
    BY <1>2, <1>3 DEF Told!EndsAgree, Told!EndStates
  <2> QED
    BY <1>1, <2>1 DEF Told!EndsAgree, Told!EndStates
<1> QED
  BY <1>2, <1>4, <1>5, <1>7, <1>8

\* The one dispatch goes on.
LEMMA ToldTasks ==
    ASSUME Told!AgreeInv, NEW r \in Requests,
           Told!Dispatch(r) \/ Told!Confirm(r) \/ Told!Post(r)
    PROVE  Told!AgreeInv'
<1> USE DEF Told!AgreeInv
<1>1. UNCHANGED <<flow, paidState, paying, purchase, meta>>
  BY DEF Told!Dispatch, Told!Confirm, Told!Post
<1>2. /\ Told!Dispatching(r) /\ seller.posts = 0 /\ Told!Paid /\ seller \in Told!SellerHas
      /\ task[r] \in {"starting", "confirming"} => seller.confirms = 0
      /\ seller.confirms \in {0, 1}
  BY DEF Told!Dispatch, Told!Confirm, Told!Post, Told!Dispatching, Told!OneDispatch, Told!TypeOK,
         Told!SellerHas
<1>3. PICK t \in {"confirming", "posting", "none"} : task' = [task EXCEPT ![r] = t]
  BY DEF Told!Dispatch, Told!Confirm, Told!Post
<1>4. /\ task' \in [Requests -> {"none", "starting", "confirming", "posting"} \cup Told!EndStates]
      /\ task'[r] = t /\ \A q \in Requests : q # r => task'[q] = task[q]
      /\ \A q \in Requests : q # r => ~Told!Dispatching(q)
  BY <1>2, <1>3 DEF Told!TypeOK, Told!OneDispatch
<1>5. /\ seller' \in Told!SellerHas /\ seller'.confirms <= 1 /\ seller'.posts <= 1
      /\ t # "none" => seller'.posts = 0
      /\ t = "confirming" => seller'.confirms = 0
      /\ seller'.badge = seller.badge \/ seller'.badge = "ESCROW_HELD"
  <2>1. CASE Told!Dispatch(r)
    <3>1. seller' = seller /\ seller.confirms = 0
      BY <1>2, <2>1 DEF Told!Dispatch
    <3> QED
      BY <1>2, <3>1
  <2>2. CASE Told!Confirm(r)
    <3>1. /\ seller' = seller \/ seller' = [seller EXCEPT !.confirms = Told!Count(@)]
          /\ seller.confirms = 0 /\ task' = [task EXCEPT ![r] = IF flow = "on" THEN "none" ELSE "posting"]
      BY <1>2, <2>2 DEF Told!Confirm, Told!ConfirmOrder, Told!Heard
    <3>2. seller' = seller \/ seller' = [seller EXCEPT !.confirms = 1]
      BY <3>1 DEF Told!Count
    <3>3. seller' \in Told!SellerHas /\ seller'.confirms \in {0, 1} /\ seller'.posts = 0
          /\ seller'.badge = seller.badge
      BY <1>2, <3>1, <3>2 DEF Told!SellerHas
    <3>4. t # "confirming"
      BY <1>3, <3>1 DEF Told!TypeOK
    <3> QED
      BY <3>3, <3>4
  <2>3. CASE Told!Post(r)
    <3>1. /\ \/ seller' = seller
             \/ seller' = [seller EXCEPT !.posts = Told!Count(@),
                                         !.badge = IF @ = "none" THEN "ESCROW_HELD" ELSE @]
          /\ task' = [task EXCEPT ![r] = "none"]
      BY <2>3 DEF Told!Post, Told!Heard
    <3> DEFINE ha == IF seller.badge = "none" THEN "ESCROW_HELD" ELSE seller.badge
    <3>a. PICK b : b = ha
      OBVIOUS
    <3>b. b \in {"none", "ESCROW_HELD"} \cup Told!EndStates /\ (b = seller.badge \/ b = "ESCROW_HELD")
      BY <1>2, <3>a DEF Told!SellerHas
    <3>2. seller' = seller \/ seller' = [seller EXCEPT !.posts = 1, !.badge = b]
      BY <1>2, <3>1, <3>a DEF Told!Count
    <3>4. t = "none"
      BY <1>3, <3>1 DEF Told!TypeOK
    <3>c. CASE seller' = seller
      BY <1>2, <3>4, <3>c
    <3>d. CASE seller' = [seller EXCEPT !.posts = 1, !.badge = b]
      <4>1. seller' = [confirms |-> seller.confirms, posts |-> 1, badge |-> b]
        BY <1>2, <3>d DEF Told!SellerHas
      <4>2. seller.confirms \in 0..2 /\ 1 \in 0..2
        BY <1>2
      <4>3. seller' \in Told!SellerHas
        BY <3>b, <4>1, <4>2 DEF Told!SellerHas
      <4> QED
        BY <1>2, <3>b, <3>4, <4>1, <4>3
    <3> QED
      BY <3>2, <3>c, <3>d
  <2> QED
    BY <2>1, <2>2, <2>3
<1>6. Told!TypeOK'
  BY <1>1, <1>4, <1>5 DEF Told!TypeOK
<1>7. Told!OneWrites'
  BY <1>1 DEF Told!OneWrites, Told!Writing
<1>8. Told!Paid'
  BY <1>1, <1>2 DEF Told!Paid
<1>9. Told!OneDispatch'
  BY <1>1, <1>4, <1>5, <1>8 DEF Told!OneDispatch, Told!Dispatching
<1>10. Told!EndsAgree'
  BY <1>1, <1>4, <1>5 DEF Told!EndsAgree, Told!EndStates
<1> QED
  BY <1>1, <1>6, <1>7, <1>9, <1>10

\* A patch shows what its task was started with; the event follows a payment.
LEMMA ToldShows ==
    ASSUME Told!AgreeInv, NEW r \in Requests, Told!Patch(r) \/ Told!Purchase(r)
    PROVE  Told!AgreeInv'
<1> USE DEF Told!AgreeInv
<1>1. UNCHANGED <<flow, paidState, paying>> /\ (Told!Paid => Told!Paid')
  BY DEF Told!Patch, Told!Purchase, Told!Paid
<1>2. CASE Told!Patch(r)
  <2>1. task[r] \in Told!EndStates /\ task' = [task EXCEPT ![r] = "none"] /\ UNCHANGED <<purchase, meta>>
    BY <1>2 DEF Told!Patch
  <2>2. /\ seller' \in Told!SellerHas /\ seller'.confirms = seller.confirms /\ seller'.posts = seller.posts
        /\ seller'.badge = seller.badge \/ seller'.badge = task[r]
    <3>1. \/ seller' = seller
          \/ seller' = [seller EXCEPT !.badge = IF @ = "none" THEN @ ELSE task[r]]
      BY <1>2 DEF Told!Patch, Told!Heard
    <3> QED
      BY <2>1, <3>1 DEF Told!TypeOK, Told!SellerHas
  <2>3. /\ task' \in [Requests -> {"none", "starting", "confirming", "posting"} \cup Told!EndStates]
        /\ task'[r] = "none" /\ \A q \in Requests : q # r => task'[q] = task[q]
    BY <2>1 DEF Told!TypeOK
  <2>4. Told!TypeOK'
    BY <1>1, <2>1, <2>2, <2>3 DEF Told!TypeOK
  <2>5. Told!OneWrites'
    BY <1>1 DEF Told!OneWrites, Told!Writing
  <2>6. Told!OneDispatch'
    BY <1>1, <2>1, <2>2, <2>3 DEF Told!OneDispatch, Told!Dispatching
  <2>7. Told!EndsAgree'
    BY <1>1, <2>1, <2>2, <2>3 DEF Told!EndsAgree, Told!EndStates
  <2> QED
    BY <1>1, <2>4, <2>5, <2>6, <2>7
<1>3. CASE Told!Purchase(r)
  <2>1. /\ purchase[r] /\ purchase' = [purchase EXCEPT ![r] = FALSE] /\ UNCHANGED <<task, seller>>
        /\ meta' \in {TRUE, meta}
    BY <1>3 DEF Told!Purchase, Told!SendPurchase, Told!Heard
  <2>2. Told!Paid
    BY <2>1 DEF Told!OneDispatch
  <2>3. purchase' \in [Requests -> BOOLEAN] /\ meta' \in BOOLEAN
    BY <2>1 DEF Told!TypeOK
  <2>4. Told!TypeOK'
    BY <1>1, <2>1, <2>3 DEF Told!TypeOK
  <2>5. Told!OneWrites'
    BY <1>1 DEF Told!OneWrites, Told!Writing
  <2>6. Told!OneDispatch'
    BY <1>1, <2>1, <2>2 DEF Told!OneDispatch, Told!Dispatching
  <2>7. Told!EndsAgree'
    BY <1>1, <2>1 DEF Told!EndsAgree, Told!EndStates
  <2> QED
    BY <1>1, <2>4, <2>5, <2>6, <2>7
<1> QED
  BY <1>2, <1>3

LEMMA ToldStep ==
    ASSUME Told!AgreeInv, Told!Next
    PROVE  Told!AgreeInv'
<1>0. /\ \A r \in Requests : paying[r] \in Told!Asked /\ (paying[r].pc # "committing" => paying[r].to = "none")
      /\ paidState \in Told!OrderState
  BY DEF Told!AgreeInv, Told!TypeOK, Told!OneWrites, Told!Writing
<1>1. ASSUME NEW r \in Requests, Told!Pay(r) \/ Told!NotPaid(r)
      PROVE  Told!AgreeInv'
  <2>1. /\ Told!Idle \in Told!Asked /\ Told!Idle.pc = "idle" /\ Told!Idle.to = "none"
        /\ [Told!Idle EXCEPT !.pc = "paying", !.copy = paidState] \in Told!Asked
        /\ [Told!Idle EXCEPT !.pc = "paying", !.copy = paidState].pc = "paying"
        /\ [Told!Idle EXCEPT !.pc = "paying", !.copy = paidState].to = "none"
    BY <1>0 DEF Told!Idle, Told!Asked, Told!OrderState
  <2>2. paying[r].to = "none"
    BY <1>0, <1>1 DEF Told!Pay, Told!NotPaid, Told!Free
  <2> QED
    BY <1>1, <2>1, <2>2, ToldLooks DEF Told!Pay, Told!NotPaid
<1>2. ASSUME NEW r \in Requests PROVE ~Told!Load(r) /\ ~Told!MarkAgain(r) /\ ~Told!Rollback(r)
  BY DEF Told!Load, Told!MarkAgain, Told!Rollback
<1>3. ~Told!Crash
  BY DEF Told!Crash
<1> QED
  BY <1>1, <1>2, <1>3, ToldMark, ToldClose, ToldCommit, ToldOther, ToldTasks, ToldShows DEF Told!Next

LEMMA ToldInvariance == Spec /\ part = "told" => []Told!AgreeInv
<1>1. Told!Init => Told!AgreeInv
  <2> SUFFICES ASSUME Told!Init PROVE Told!AgreeInv
    OBVIOUS
  <2>1. /\ flow \in {"off", "shadow", "on"} /\ paidState = "CART_REVIEWED"
        /\ paying = [r \in Requests |-> Told!Idle] /\ task = [r \in Requests |-> "none"]
        /\ purchase = [r \in Requests |-> FALSE] /\ meta = FALSE
        /\ seller = [confirms |-> 0, posts |-> 0, badge |-> "none"]
    BY DEF Told!Init
  <2>2. Told!Idle \in Told!Asked /\ Told!Idle.pc = "idle" /\ Told!Idle.to = "none"
    BY DEF Told!Idle, Told!Asked, Told!OrderState
  <2>3. seller \in Told!SellerHas /\ seller.confirms = 0 /\ seller.posts = 0 /\ seller.badge = "none"
    BY <2>1 DEF Told!SellerHas
  <2>4. Told!TypeOK
    BY <2>1, <2>2, <2>3 DEF Told!TypeOK, Told!OrderState
  <2>5. \A r \in Requests : paying[r].pc = "idle" /\ paying[r].to = "none" /\ task[r] = "none" /\ ~purchase[r]
    BY <2>1, <2>2
  <2> QED
    BY <2>1, <2>3, <2>4, <2>5 DEF Told!AgreeInv, Told!OneWrites, Told!Writing, Told!OneDispatch,
                                  Told!Dispatching, Told!EndsAgree, Told!EndStates
<1>2. Told!AgreeInv /\ [Told!Next]_(Told!vars) => Told!AgreeInv'
  <2>1. ASSUME Told!AgreeInv, UNCHANGED Told!vars
        PROVE  Told!AgreeInv'
    BY <2>1 DEF Told!vars, Told!AgreeInv, Told!TypeOK, Told!OneWrites, Told!Writing,
                Told!OneDispatch, Told!Dispatching, Told!Paid, Told!EndsAgree, Told!EndStates
  <2> QED
    BY <2>1, ToldStep
<1>3. Told!Spec => []Told!AgreeInv
  BY <1>1, <1>2, PTL DEF Told!Spec
<1> QED
  BY <1>3, ToldRuns, PTL

\* One payment is dispatched once, and the seller's dashboard never shows an end
\* that the order does not come to.
THEOREM SellerAgreesHolds == Spec => []SellerAgrees
<1>1. Told!AgreeInv => Told!SellerAgrees
  BY DEF Told!AgreeInv, Told!OneDispatch, Told!Paid, Told!EndsAgree, Told!SellerAgrees
<1> QED
  BY <1>1, ToldInvariance, ToldRuns, PTL DEF SellerAgrees
-------------------------------------------------------------------------------
(* Carts: of any bot and any webhook handlers, and of a bot that waits.    *)

LEMMA CartTypes ==
    ASSUME NEW R, NEW N, CartOf(R, N)!WholeInv
    PROVE  /\ MaxUnits \in Nat \ {0} /\ MaxConfirms \in Nat \ {0}
           /\ cart \in CartOf(R, N)!Cart /\ cart.order = cart.invoice
           /\ cart.status = "confirmed" => cart.order # 0
           /\ bot \in [R -> CartOf(R, N)!Asking] /\ hook \in [N -> CartOf(R, N)!Hooked]
BY Constants DEF CartOf!WholeInv, CartOf!TypeOK, CartOf!CartConstants

\* A request that is begun has something to write, and nobody else makes the row.
LEMMA CartStarts ==
    ASSUME NEW R, NEW N, CartOf(R, N)!WholeInv, NEW r \in R,
           NEW kind \in {"select", "add", "init", "confirm", "view", "status"},
           NEW pc \in {"telling", "writing"}, NEW id \in 0..MaxConfirms,
           CartOf(R, N)!Starts(r, kind, pc, id),
           kind = "select" => cart.status = "none" /\ \A q \in R : bot[q].pc = "idle",
           kind # "select" => cart.status # "none",
           kind \in {"select", "add"} => cart.units < MaxUnits,
           kind = "confirm" => id # 0
    PROVE  CartOf(R, N)!WholeInv'
<1>1. PICK k \in CartOf(R, N)!Asking : k = [pc |-> pc, kind |-> kind, copy |-> cart, id |-> id]
  BY CartTypes DEF CartOf!Asking
<1>2. /\ bot' = [bot EXCEPT ![r] = k]
      /\ UNCHANGED <<mock, cart, passed, hook, heard, page, settled>>
  BY <1>1 DEF CartOf!Starts
<1>3. /\ bot' \in [R -> CartOf(R, N)!Asking] /\ bot'[r] = k
      /\ \A q \in R : q # r => bot'[q] = bot[q]
  BY <1>2, CartTypes
<1>4. CartOf(R, N)!TypeOK'
  BY <1>2, <1>3 DEF CartOf!WholeInv, CartOf!TypeOK
<1>5. CartOf(R, N)!FirstIsAlone'
  <2>1. ASSUME NEW q \in R, bot'[q].kind = "select"
        PROVE  cart.status = "none" /\ \A p \in R \ {q} : bot'[p] = CartOf(R, N)!Nothing
    <3>1. CASE q = r
      BY <1>1, <1>3, <2>1, <3>1 DEF CartOf!WholeInv, CartOf!Writable
    <3>2. CASE q # r
      <4>1. bot[q].kind = "select" /\ bot[q].pc # "idle"
        BY <1>3, <2>1, <3>2 DEF CartOf!WholeInv, CartOf!Writable, CartOf!Nothing
      <4>2. cart.status = "none"
        BY <4>1 DEF CartOf!WholeInv, CartOf!FirstIsAlone
      <4> QED
        BY <4>1, <4>2
    <3> QED
      BY <3>1, <3>2
  <2>2. ASSUME NEW q \in R, bot'[q].kind \notin {"none", "select"}
        PROVE  cart.status # "none"
    BY <1>1, <1>3, <2>2 DEF CartOf!WholeInv, CartOf!FirstIsAlone
  <2>3. cart.status = "none" => cart = CartOf(R, N)!NoCart
    BY DEF CartOf!WholeInv, CartOf!FirstIsAlone
  <2> QED
    BY <1>2, <2>1, <2>2, <2>3 DEF CartOf!FirstIsAlone, CartOf!Nothing, CartOf!NoCart
<1>6. CartOf(R, N)!OrderIsKept'
  BY <1>2 DEF CartOf!WholeInv, CartOf!OrderIsKept
<1>7. ASSUME NEW q \in R PROVE CartOf(R, N)!Writable(q)'
  BY <1>1, <1>3 DEF CartOf!WholeInv, CartOf!Writable
<1> QED
  BY <1>2, <1>4, <1>5, <1>6, <1>7 DEF CartOf!WholeInv

\* What a request tells the seller is in the cart; only its place moves.
LEMMA CartTells ==
    ASSUME NEW R, NEW N, CartOf(R, N)!WholeInv, NEW r \in R,
           bot[r].pc = "telling", bot' = [bot EXCEPT ![r].pc = "writing"],
           heard' \in [list : 0..MaxUnits, orders : SUBSET (1..MaxConfirms)],
           UNCHANGED <<mock, cart, passed, hook, page, settled>>
    PROVE  CartOf(R, N)!WholeInv'
<1>0. bot[r] \in CartOf(R, N)!Asking
  BY CartTypes
<1>1. PICK k \in CartOf(R, N)!Asking : k = [bot[r] EXCEPT !.pc = "writing"]
  BY <1>0 DEF CartOf!Asking
<1>2. k.pc = "writing" /\ k.kind = bot[r].kind /\ k.copy = bot[r].copy /\ k.id = bot[r].id
  BY <1>0, <1>1 DEF CartOf!Asking
<1>3. /\ bot' \in [R -> CartOf(R, N)!Asking] /\ bot'[r] = k
      /\ \A q \in R : q # r => bot'[q] = bot[q]
  BY <1>1, CartTypes
<1>4. CartOf(R, N)!TypeOK'
  BY <1>3 DEF CartOf!WholeInv, CartOf!TypeOK, CartOf!Confirms
<1>5. CartOf(R, N)!FirstIsAlone'
  <2>1. ASSUME NEW q \in R, bot'[q].kind = "select"
        PROVE  cart.status = "none" /\ \A p \in R \ {q} : bot'[p] = CartOf(R, N)!Nothing
    <3>1. cart.status = "none" /\ \A p \in R \ {q} : bot[p] = CartOf(R, N)!Nothing
      BY <1>2, <1>3, <2>1 DEF CartOf!WholeInv, CartOf!FirstIsAlone
    <3>2. q = r
      BY <3>1 DEF CartOf!Nothing
    <3> QED
      BY <1>3, <3>1, <3>2
  <2>2. ASSUME NEW q \in R, bot'[q].kind \notin {"none", "select"}
        PROVE  cart.status # "none"
    BY <1>2, <1>3, <2>2 DEF CartOf!WholeInv, CartOf!FirstIsAlone
  <2>3. cart.status = "none" => cart = CartOf(R, N)!NoCart
    BY DEF CartOf!WholeInv, CartOf!FirstIsAlone
  <2> QED
    BY <2>1, <2>2, <2>3 DEF CartOf!FirstIsAlone, CartOf!Nothing, CartOf!NoCart
<1>6. CartOf(R, N)!OrderIsKept'
  BY DEF CartOf!WholeInv, CartOf!OrderIsKept
<1>7. ASSUME NEW q \in R PROVE CartOf(R, N)!Writable(q)'
  BY <1>2, <1>3 DEF CartOf!WholeInv, CartOf!Writable
<1> QED
  BY <1>4, <1>5, <1>6, <1>7, CartTypes DEF CartOf!WholeInv

\* The commit of a request writes a row that has one order id or none.
LEMMA CartWrites ==
    ASSUME NEW R, NEW N, CartOf(R, N)!WholeInv, NEW r \in R, bot[r].pc = "writing"
    PROVE  /\ CartOf(R, N)!Written(r) \in CartOf(R, N)!Cart
           /\ CartOf(R, N)!Written(r).status # "none"
           /\ CartOf(R, N)!Written(r).order = CartOf(R, N)!Written(r).invoice
           /\ bot[r].kind = "confirm" => CartOf(R, N)!Written(r).order = bot[r].id
           /\ bot[r].kind # "confirm" =>
                 /\ CartOf(R, N)!Written(r).order = cart.order
                 /\ CartOf(R, N)!Written(r).status \in {"open", "drafted", "expired", cart.status}
<1> DEFINE w == CartOf(R, N)!Written(r)
<1>1. /\ bot[r] \in CartOf(R, N)!Asking /\ bot[r].kind # "none"
      /\ bot[r].kind \in {"select", "add"} => bot[r].copy.units < MaxUnits
      /\ bot[r].kind = "select" => cart = CartOf(R, N)!NoCart
      /\ bot[r].kind # "select" => cart.status # "none"
  BY CartTypes DEF CartOf!WholeInv, CartOf!Writable, CartOf!FirstIsAlone
<1>2. /\ bot[r].copy \in CartOf(R, N)!Cart /\ bot[r].id \in 0..MaxConfirms
      /\ 0 \in 0..MaxConfirms /\ 1 \in 0..MaxUnits
  BY <1>1, CartTypes DEF CartOf!Asking
<1>3. CASE bot[r].kind = "select"
  <2>1. w = [status |-> "open", units |-> 1, order |-> 0, invoice |-> 0, pay |-> "pending"]
    BY <1>3 DEF CartOf!Written, CartOf!NoCart
  <2> QED
    BY <1>1, <1>2, <1>3, <2>1 DEF CartOf!Cart, CartOf!NoCart, CartOf!CartStatus
<1>4. CASE bot[r].kind = "add"
  <2>1. w = [cart EXCEPT !.units = bot[r].copy.units + 1]
    BY <1>4 DEF CartOf!Written
  <2>2. bot[r].copy.units + 1 \in 0..MaxUnits
    BY <1>1, <1>2, <1>4, CartTypes DEF CartOf!Cart
  <2> QED
    BY <1>1, <1>4, <2>1, <2>2, CartTypes DEF CartOf!Cart
<1>5. CASE bot[r].kind = "init"
  <2>1. PICK s \in {cart.status, "drafted"} : w = [cart EXCEPT !.status = s]
    BY <1>5 DEF CartOf!Written
  <2> QED
    BY <1>1, <1>5, <2>1, CartTypes DEF CartOf!Cart, CartOf!CartStatus
<1>6. CASE bot[r].kind = "confirm"
  <2>1. PICK p \in {cart.pay, "pending"} :
           w = [cart EXCEPT !.status = "confirmed", !.order = bot[r].id, !.invoice = bot[r].id,
                            !.pay = p]
    BY <1>6 DEF CartOf!Written, CartOf!Confirmed
  <2>2. w = [status |-> "confirmed", units |-> cart.units, order |-> bot[r].id,
             invoice |-> bot[r].id, pay |-> p]
    BY <2>1, CartTypes DEF CartOf!Cart
  <2>3. p \in {"pending", "expired"} /\ cart.units \in 0..MaxUnits
    BY CartTypes DEF CartOf!Cart
  <2> QED
    BY <1>2, <1>6, <2>2, <2>3 DEF CartOf!Cart, CartOf!CartStatus
<1>7. CASE bot[r].kind = "view"
  <2>1. w = [cart EXCEPT !.status = "expired"]
    BY <1>7 DEF CartOf!Written
  <2> QED
    BY <1>1, <1>7, <2>1, CartTypes DEF CartOf!Cart, CartOf!CartStatus
<1>8. CASE bot[r].kind = "status"
  <2>1. PICK s \in {cart.status, "expired"}, p \in {cart.pay, "expired"} :
           w = [cart EXCEPT !.status = s, !.pay = p]
    BY <1>8 DEF CartOf!Written
  <2>2. w = [status |-> s, units |-> cart.units, order |-> cart.order,
             invoice |-> cart.invoice, pay |-> p]
    BY <2>1, CartTypes DEF CartOf!Cart
  <2>3. /\ p \in {"pending", "expired"} /\ cart.units \in 0..MaxUnits
        /\ cart.order \in 0..MaxConfirms /\ cart.invoice \in 0..MaxConfirms
        /\ s \in CartOf(R, N)!CartStatus
    BY CartTypes DEF CartOf!Cart, CartOf!CartStatus
  <2> QED
    BY <1>1, <1>8, <2>2, <2>3, CartTypes DEF CartOf!Cart
<1>9. bot[r].kind \in {"select", "add", "init", "confirm", "view", "status"}
  BY <1>1 DEF CartOf!Asking
<1> QED
  BY <1>3, <1>4, <1>5, <1>6, <1>7, <1>8, <1>9

\* A request that ends leaves the others as they are.
LEMMA CartEnds ==
    ASSUME NEW R, NEW N, CartOf(R, N)!WholeInv, NEW r \in R,
           bot' = [bot EXCEPT ![r] = CartOf(R, N)!Nothing]
    PROVE  /\ bot' \in [R -> CartOf(R, N)!Asking] /\ bot'[r] = CartOf(R, N)!Nothing
           /\ \A q \in R : q # r => bot'[q] = bot[q]
           /\ \A q \in R : CartOf(R, N)!Writable(q)'
<1>1. CartOf(R, N)!Nothing \in CartOf(R, N)!Asking
  <2>1. CartOf(R, N)!NoCart \in CartOf(R, N)!Cart /\ 0 \in 0..MaxConfirms
    BY CartTypes DEF CartOf!NoCart, CartOf!Cart, CartOf!CartStatus
  <2> QED
    BY <2>1 DEF CartOf!Nothing, CartOf!Asking
<1>2. /\ bot' \in [R -> CartOf(R, N)!Asking] /\ bot'[r] = CartOf(R, N)!Nothing
      /\ \A q \in R : q # r => bot'[q] = bot[q]
  BY <1>1, CartTypes
<1>3. ASSUME NEW q \in R PROVE CartOf(R, N)!Writable(q)'
  BY <1>2 DEF CartOf!WholeInv, CartOf!Writable, CartOf!Nothing, CartOf!NoCart
<1> QED
  BY <1>2, <1>3

\* Where no request moves and the row stays one, the rest is the pages' and the handlers'.
LEMMA CartPays ==
    ASSUME NEW R, NEW N, CartOf(R, N)!WholeInv, UNCHANGED bot, cart.status # "none",
           cart'.status # "none", cart' \in CartOf(R, N)!Cart, cart'.order = cart'.invoice,
           cart'.status = "confirmed" => cart'.order # 0,
           CartOf(R, N)!TypeOK', CartOf(R, N)!OrderIsKept'
    PROVE  CartOf(R, N)!WholeInv'
<1>1. CartOf(R, N)!FirstIsAlone'
  BY DEF CartOf!WholeInv, CartOf!FirstIsAlone
<1>2. ASSUME NEW q \in R PROVE CartOf(R, N)!Writable(q)'
  BY DEF CartOf!WholeInv, CartOf!Writable, CartOf!Nothing, CartOf!NoCart
<1> QED
  BY <1>1, <1>2 DEF CartOf!WholeInv

LEMMA CartStep ==
    ASSUME NEW R, NEW N, CartOf(R, N)!WholeInv, CartOf(R, N)!Next
    PROVE  CartOf(R, N)!WholeInv'
<1>0. /\ MaxUnits \in Nat \ {0} /\ MaxConfirms \in Nat \ {0} /\ 0 \in 0..MaxConfirms
      /\ heard.list \in 0..MaxUnits /\ heard.orders \subseteq 1..MaxConfirms
      /\ heard \in [list : 0..MaxUnits, orders : SUBSET (1..MaxConfirms)]
  BY CartTypes DEF CartOf!WholeInv, CartOf!TypeOK, CartOf!Confirms
<1>1. ASSUME NEW r \in R, CartOf(R, N)!Select(r)
      PROVE  CartOf(R, N)!WholeInv'
  <2>1. cart.units = 0
    BY <1>1 DEF CartOf!WholeInv, CartOf!FirstIsAlone, CartOf!NoCart, CartOf!Select
  <2> QED
    BY <1>0, <1>1, <2>1, CartStarts DEF CartOf!Select
<1>2. ASSUME NEW r \in R, CartOf(R, N)!Add(r) \/ CartOf(R, N)!Draft(r)
      PROVE  CartOf(R, N)!WholeInv'
  BY <1>0, <1>2, CartStarts DEF CartOf!Add, CartOf!Draft
<1>3. ASSUME NEW r \in R, CartOf(R, N)!Confirm(r)
      PROVE  CartOf(R, N)!WholeInv'
  <2>1. PICK k \in 1..MaxConfirms : CartOf(R, N)!Starts(r, "confirm", "telling", k)
    BY <1>3 DEF CartOf!Confirm, CartOf!Confirms
  <2>2. cart.status # "none" /\ k \in 0..MaxConfirms /\ k # 0
    BY <1>0, <1>3 DEF CartOf!Confirm
  <2> QED
    BY <2>1, <2>2, CartStarts
<1>4. ASSUME NEW r \in R, CartOf(R, N)!View(r) \/ CartOf(R, N)!Status(r)
      PROVE  CartOf(R, N)!WholeInv'
  BY <1>0, <1>4, CartStarts DEF CartOf!View, CartOf!Status
<1>5. ASSUME NEW r \in R, \/ CartOf(R, N)!TellSelect(r) \/ CartOf(R, N)!TellInit(r)
                          \/ CartOf(R, N)!TellConfirm(r) \/ CartOf(R, N)!TellFails(r)
      PROVE  CartOf(R, N)!WholeInv'
  <2>1. /\ bot[r].pc = "telling" /\ bot' = [bot EXCEPT ![r].pc = "writing"]
        /\ UNCHANGED <<mock, cart, passed, hook, page, settled>>
    BY <1>5 DEF CartOf!TellSelect, CartOf!TellInit, CartOf!TellConfirm, CartOf!TellFails, CartOf!Tell
  <2>2. /\ bot[r].copy.units \in 0..MaxUnits /\ bot[r].id \in 0..MaxConfirms
        /\ bot[r].kind \in {"select", "add"} => bot[r].copy.units < MaxUnits
        /\ bot[r].kind = "confirm" => bot[r].id # 0
    <3>1. bot[r] \in CartOf(R, N)!Asking /\ CartOf(R, N)!Writable(r)
      BY CartTypes DEF CartOf!WholeInv
    <3> QED
      BY <3>1 DEF CartOf!Asking, CartOf!Cart, CartOf!Writable
  <2>3. heard' \in [list : 0..MaxUnits, orders : SUBSET (1..MaxConfirms)]
    <3>1. CASE CartOf(R, N)!TellSelect(r)
      <4>1. heard' = [heard EXCEPT !.list = bot[r].copy.units + 1]
            /\ bot[r].kind \in {"select", "add"}
        BY <3>1 DEF CartOf!TellSelect, CartOf!Tell, CartOf!SelectMessage
      <4>2. bot[r].copy.units + 1 \in 0..MaxUnits
        BY <1>0, <2>2, <4>1
      <4> QED
        BY <1>0, <4>1, <4>2
    <3>2. CASE CartOf(R, N)!TellInit(r)
      <4>1. heard' = [heard EXCEPT !.list = bot[r].copy.units]
        BY <3>2 DEF CartOf!TellInit, CartOf!Tell, CartOf!InitMessage
      <4> QED
        BY <1>0, <2>2, <4>1
    <3>3. CASE CartOf(R, N)!TellConfirm(r)
      <4>1. heard' = [heard EXCEPT !.orders = @ \cup {bot[r].id}] /\ bot[r].kind = "confirm"
        BY <3>3 DEF CartOf!TellConfirm, CartOf!Tell, CartOf!ConfirmMessage
      <4>2. heard.orders \cup {bot[r].id} \subseteq 1..MaxConfirms
        BY <1>0, <2>2, <4>1
      <4> QED
        BY <1>0, <4>1, <4>2
    <3>4. CASE CartOf(R, N)!TellFails(r)
      BY <1>0, <3>4 DEF CartOf!TellFails
    <3> QED
      BY <1>5, <3>1, <3>2, <3>3, <3>4
  <2> QED
    BY <2>1, <2>3, CartTells
<1>6. ASSUME NEW r \in R, CartOf(R, N)!Rollback(r)
      PROVE  CartOf(R, N)!WholeInv'
  <2>1. /\ bot' = [bot EXCEPT ![r] = CartOf(R, N)!Nothing]
        /\ UNCHANGED <<mock, cart, passed, hook, heard, page, settled>>
    BY <1>6 DEF CartOf!Rollback
  <2>2. CartOf(R, N)!TypeOK' /\ CartOf(R, N)!OrderIsKept'
    BY <2>1, CartEnds DEF CartOf!WholeInv, CartOf!TypeOK, CartOf!OrderIsKept
  <2>3. CartOf(R, N)!FirstIsAlone'
    <3>1. \A q \in R : bot'[q] \in {bot[q], CartOf(R, N)!Nothing}
      BY <2>1, CartEnds
    <3> QED
      BY <2>1, <3>1 DEF CartOf!WholeInv, CartOf!FirstIsAlone, CartOf!Nothing, CartOf!NoCart
  <2> QED
    BY <2>1, <2>2, <2>3, CartEnds DEF CartOf!WholeInv
<1>7. ASSUME NEW r \in R, CartOf(R, N)!Write(r)
      PROVE  CartOf(R, N)!WholeInv'
  <2>1. /\ bot[r].pc = "writing" /\ cart' = CartOf(R, N)!Written(r)
        /\ bot' = [bot EXCEPT ![r] = CartOf(R, N)!Nothing]
        /\ page' = IF bot[r].kind = "confirm" THEN [page EXCEPT ![bot[r].id] = "open"] ELSE page
        /\ UNCHANGED <<mock, passed, hook, heard, settled>>
    BY <1>7 DEF CartOf!Write
  <2>2. /\ cart' \in CartOf(R, N)!Cart /\ cart'.status # "none" /\ cart'.order = cart'.invoice
        /\ bot[r].kind = "confirm" => cart'.order = bot[r].id
        /\ bot[r].kind # "confirm" =>
              cart'.order = cart.order /\ cart'.status \in {"open", "drafted", "expired", cart.status}
    BY <2>1, CartWrites
  <2>3. /\ bot[r] # CartOf(R, N)!Nothing /\ bot[r].id \in 0..MaxConfirms
        /\ bot[r].kind = "confirm" => bot[r].id # 0 /\ bot[r].id \in CartOf(R, N)!Confirms
    <3>1. bot[r] \in CartOf(R, N)!Asking /\ CartOf(R, N)!Writable(r)
      BY CartTypes DEF CartOf!WholeInv
    <3> QED
      BY <1>0, <2>1, <3>1 DEF CartOf!Asking, CartOf!Writable, CartOf!Nothing, CartOf!Confirms
  <2>4. /\ page' \in [CartOf(R, N)!Confirms -> {"none", "open", "paid", "expired"}]
        /\ \A k \in CartOf(R, N)!Confirms : page'[k] # page[k] => bot[r].kind = "confirm" /\ page'[k] = "open"
    BY <2>1, <2>3 DEF CartOf!WholeInv, CartOf!TypeOK
  <2>5. CartOf(R, N)!OrderIsKept'
    BY <1>0, <2>1, <2>2, <2>3, <2>4, CartTypes
    DEF CartOf!WholeInv, CartOf!OrderIsKept, CartOf!Hooked, CartOf!Confirms
  <2>6. cart'.status = "confirmed" => cart'.order # 0
    BY <2>2, <2>3, CartTypes
  <2>7. \A q \in R : bot'[q].kind # "select"
    BY <2>1, <2>3, CartTypes DEF CartOf!WholeInv, CartOf!FirstIsAlone, CartOf!Nothing
  <2> QED
    BY <2>1, <2>2, <2>4, <2>5, <2>6, <2>7, CartEnds
    DEF CartOf!WholeInv, CartOf!TypeOK, CartOf!FirstIsAlone
<1>8. ASSUME NEW k \in CartOf(R, N)!Confirms, CartOf(R, N)!Resolve(k)
      PROVE  CartOf(R, N)!WholeInv'
  <2>1. /\ page[k] # "none" /\ UNCHANGED <<mock, cart, passed, bot, hook, heard, settled>>
        /\ page' \in [CartOf(R, N)!Confirms -> {"none", "open", "paid", "expired"}]
        /\ \A j \in CartOf(R, N)!Confirms : page'[j] # "none" <=> page[j] # "none"
    BY <1>8 DEF CartOf!Resolve, CartOf!WholeInv, CartOf!TypeOK
  <2>2. cart.status # "none"
    BY <2>1 DEF CartOf!WholeInv, CartOf!OrderIsKept
  <2>3. CartOf(R, N)!TypeOK'
    BY <2>1 DEF CartOf!WholeInv, CartOf!TypeOK
  <2>4. CartOf(R, N)!OrderIsKept'
    BY <1>0, <2>1, CartTypes DEF CartOf!WholeInv, CartOf!OrderIsKept, CartOf!Hooked, CartOf!Confirms
  <2> QED
    BY <2>1, <2>2, <2>3, <2>4, CartTypes, CartPays
<1>9. ASSUME NEW n \in N, NEW k \in CartOf(R, N)!Confirms, CartOf(R, N)!Notify(n, k)
      PROVE  CartOf(R, N)!WholeInv'
  <2>1. k \in 0..MaxConfirms /\ k # 0 /\ cart.order # 0 /\ cart.status # "none"
        /\ page[k] \in {"paid", "expired"}
    BY <1>0, <1>9 DEF CartOf!Notify, CartOf!WholeInv, CartOf!OrderIsKept, CartOf!Confirms
  <2>2. PICK h \in CartOf(R, N)!Hooked :
           h = [pc |-> "writing", kind |-> page[k], copy |-> cart, id |-> k]
    BY <2>1, CartTypes DEF CartOf!Hooked
  <2>3. hook' = [hook EXCEPT ![n] = h] /\ UNCHANGED <<mock, cart, passed, bot, heard, page, settled>>
    BY <1>9, <2>2 DEF CartOf!Notify
  <2>4. /\ hook' \in [N -> CartOf(R, N)!Hooked] /\ hook'[n] = h
        /\ \A m \in N : m # n => hook'[m] = hook[m]
    BY <2>2, <2>3, CartTypes
  <2>5. CartOf(R, N)!TypeOK' /\ CartOf(R, N)!OrderIsKept'
    BY <2>1, <2>2, <2>3, <2>4 DEF CartOf!WholeInv, CartOf!TypeOK, CartOf!OrderIsKept
  <2> QED
    BY <2>1, <2>3, <2>5, CartTypes, CartPays
<1>10. ASSUME NEW n \in N, CartOf(R, N)!SettleExpired(n) \/ CartOf(R, N)!RefusePaid(n)
       PROVE  CartOf(R, N)!WholeInv'
  <2>1. /\ hook[n].pc = "writing" /\ hook' = [hook EXCEPT ![n] = CartOf(R, N)!Nothing]
        /\ UNCHANGED <<mock, passed, bot, heard, page>>
        /\ cart' = cart \/ cart' = [cart EXCEPT !.pay = "expired", !.status = "expired"]
    BY <1>10 DEF CartOf!SettleExpired, CartOf!RefusePaid
  <2>2. hook[n] \in CartOf(R, N)!Hooked /\ hook[n].id \in 1..MaxConfirms /\ cart.status # "none"
    BY <1>0, <2>1, CartTypes DEF CartOf!WholeInv, CartOf!OrderIsKept, CartOf!Hooked, CartOf!Confirms
  <2>3. settled' \subseteq CartOf(R, N)!Confirms
    BY <1>10, <2>2 DEF CartOf!SettleExpired, CartOf!RefusePaid, CartOf!Confirms, CartOf!WholeInv, CartOf!TypeOK
  <2>4. /\ cart' \in CartOf(R, N)!Cart /\ cart'.order = cart.order /\ cart'.invoice = cart.invoice
        /\ cart'.status \in {cart.status, "expired"}
    BY <2>1, CartTypes DEF CartOf!Cart, CartOf!CartStatus
  <2>5. CartOf(R, N)!Nothing \in CartOf(R, N)!Hooked /\ CartOf(R, N)!Nothing.pc = "idle"
    <3>1. CartOf(R, N)!NoCart \in CartOf(R, N)!Cart
      BY <1>0, CartTypes DEF CartOf!NoCart, CartOf!Cart, CartOf!CartStatus
    <3> QED
      BY <1>0, <3>1 DEF CartOf!Nothing, CartOf!Hooked
  <2>6. /\ hook' \in [N -> CartOf(R, N)!Hooked] /\ hook'[n].pc = "idle"
        /\ \A m \in N : m # n => hook'[m] = hook[m]
    BY <2>1, <2>5, CartTypes
  <2>7. CartOf(R, N)!TypeOK'
    BY <2>1, <2>3, <2>4, <2>6 DEF CartOf!WholeInv, CartOf!TypeOK
  <2>8. CartOf(R, N)!OrderIsKept'
    BY <2>1, <2>2, <2>4, <2>6 DEF CartOf!WholeInv, CartOf!OrderIsKept
  <2> QED
    BY <2>1, <2>2, <2>4, <2>7, <2>8, CartTypes, CartPays
<1>11. ASSUME CartOf(R, N)!Pass
       PROVE  CartOf(R, N)!WholeInv'
  <2>1. CartOf(R, N)!TypeOK' /\ CartOf(R, N)!OrderIsKept' /\ cart.status # "none" /\ UNCHANGED <<cart, bot>>
    BY <1>11 DEF CartOf!Pass, CartOf!WholeInv, CartOf!TypeOK, CartOf!OrderIsKept
  <2> QED
    BY <2>1, CartTypes, CartPays
<1> QED
  BY <1>1, <1>2, <1>3, <1>4, <1>5, <1>6, <1>7, <1>8, <1>9, <1>10, <1>11 DEF CartOf!Next

LEMMA CartInit ==
    ASSUME NEW R, NEW N, CartOf(R, N)!Init
    PROVE  CartOf(R, N)!WholeInv
<1>1. /\ cart = CartOf(R, N)!NoCart /\ bot = [r \in R |-> CartOf(R, N)!Nothing]
      /\ hook = [n \in N |-> CartOf(R, N)!Nothing] /\ heard = [list |-> 0, orders |-> {}]
      /\ page = [k \in CartOf(R, N)!Confirms |-> "none"] /\ settled = {}
      /\ mock \in BOOLEAN /\ passed \in BOOLEAN
  BY DEF CartOf!Init
<1>2. MaxUnits \in Nat /\ MaxConfirms \in Nat /\ 0 \in 0..MaxUnits /\ 0 \in 0..MaxConfirms
  BY Constants DEF CartOf!CartConstants
<1>3. CartOf(R, N)!NoCart \in CartOf(R, N)!Cart
  BY <1>2 DEF CartOf!NoCart, CartOf!Cart, CartOf!CartStatus
<1>4. CartOf(R, N)!Nothing \in CartOf(R, N)!Asking /\ CartOf(R, N)!Nothing \in CartOf(R, N)!Hooked
  BY <1>2, <1>3 DEF CartOf!Nothing, CartOf!Asking, CartOf!Hooked
<1>5. heard \in [list : 0..MaxUnits, orders : SUBSET CartOf(R, N)!Confirms]
  BY <1>1, <1>2
<1>6. CartOf(R, N)!TypeOK
  BY <1>1, <1>3, <1>4, <1>5 DEF CartOf!TypeOK
<1>7. CartOf(R, N)!FirstIsAlone /\ CartOf(R, N)!OrderIsKept /\ \A r \in R : CartOf(R, N)!Writable(r)
  BY <1>1 DEF CartOf!FirstIsAlone, CartOf!OrderIsKept, CartOf!Writable, CartOf!Nothing
<1> QED
  BY <1>1, <1>6, <1>7 DEF CartOf!WholeInv, CartOf!NoCart

\* A bot that waits for each answer does not come to a cart that is confirmed.
LEMMA CartStaysStep ==
    ASSUME NEW N, CartOf({r1}, N)!StaysInv, CartOf({r1}, N)!Next
    PROVE  CartOf({r1}, N)!StaysInv'
<1> DEFINE C == CartOf({r1}, N)!Confirms
<1>a. CartOf({r1}, N)!WholeInv /\ CartOf({r1}, N)!WholeInv'
  BY CartStep DEF CartOf!StaysInv
<1>b. CartOf({r1}, N)!WholeInv
  BY <1>a
<1>0. /\ bot \in [{r1} -> CartOf({r1}, N)!Asking] /\ hook \in [N -> CartOf({r1}, N)!Hooked]
      /\ page \in [C -> {"none", "open", "paid", "expired"}] /\ MaxConfirms \in Nat
      /\ cart \in CartOf({r1}, N)!Cart /\ C = 1..MaxConfirms /\ \A k \in C : k # 0
      /\ \A k \in 0..MaxConfirms : k # 0 => k \in C
  <2>1. /\ bot \in [{r1} -> CartOf({r1}, N)!Asking] /\ hook \in [N -> CartOf({r1}, N)!Hooked]
        /\ MaxConfirms \in Nat \ {0} /\ cart \in CartOf({r1}, N)!Cart
    BY <1>b, CartTypes
  <2>2. page \in [C -> {"none", "open", "paid", "expired"}]
    BY <1>b DEF CartOf!WholeInv, CartOf!TypeOK
  <2>3. C = 1..MaxConfirms
    BY DEF CartOf!Confirms
  <2> HIDE DEF C
  <2>4. (\A k \in C : k # 0) /\ \A k \in 0..MaxConfirms : k # 0 => k \in C
    BY <2>1, <2>3
  <2> QED
    BY <2>1, <2>2, <2>3, <2>4
<1>1. /\ cart.order # 0 => cart.status \in {"confirmed", "expired"}
      /\ \A k \in C : page[k] # "none" => cart.order = k
      /\ bot[r1].kind # "none" => cart.status # "confirmed"
      /\ bot[r1].kind \notin {"none", "status"} => cart.order = 0
      /\ \A n \in N : hook[n].pc = "writing" =>
            page[hook[n].id] = hook[n].kind /\ hook[n].id \in C /\ page[hook[n].id] # "none"
  <2>1. \A n \in N : hook[n].pc = "writing" => hook[n].id # 0 /\ page[hook[n].id] # "none"
    BY <1>b DEF CartOf!WholeInv, CartOf!OrderIsKept
  <2>2. \A n \in N : hook[n].id \in 0..MaxConfirms
    BY <1>0 DEF CartOf!Hooked
  <2> QED
    BY <1>0, <2>1, <2>2 DEF CartOf!StaysInv
<1>2. ASSUME cart'.order # 0 => cart'.status \in {"confirmed", "expired"},
             \A k \in C : page'[k] # "none" => cart'.order = k,
             bot'[r1].kind # "none" => cart'.status # "confirmed",
             bot'[r1].kind \notin {"none", "status"} => cart'.order = 0,
             \A n \in N : hook'[n].pc = "writing" => page'[hook'[n].id] = hook'[n].kind
      PROVE  CartOf({r1}, N)!StaysInv'
  BY <1>a, <1>2 DEF CartOf!StaysInv, CartOf!Confirms
<1>3. CASE \/ CartOf({r1}, N)!Select(r1) \/ CartOf({r1}, N)!Add(r1) \/ CartOf({r1}, N)!Draft(r1)
           \/ CartOf({r1}, N)!View(r1) \/ CartOf({r1}, N)!Status(r1) \/ CartOf({r1}, N)!Confirm(r1)
  <2>1. PICK kind, pc, id :
           /\ CartOf({r1}, N)!Starts(r1, kind, pc, id) /\ cart.status # "confirmed"
           /\ kind # "status" => cart.status \in {"none", "open", "drafted"}
    <3>1. CASE CartOf({r1}, N)!Confirm(r1)
      BY <3>1 DEF CartOf!Confirm
    <3> QED
      BY <1>3, <3>1 DEF CartOf!Select, CartOf!Add, CartOf!Draft, CartOf!View, CartOf!Status
  <2>2. bot'[r1].kind = kind /\ UNCHANGED <<cart, hook, page>>
    BY <1>0, <2>1 DEF CartOf!Starts
  <2>3. cart.status = "none" => cart.order = 0
    BY <1>b DEF CartOf!WholeInv, CartOf!FirstIsAlone, CartOf!NoCart
  <2> QED
    BY <1>1, <1>2, <2>1, <2>2, <2>3
<1>4. CASE \/ CartOf({r1}, N)!TellSelect(r1) \/ CartOf({r1}, N)!TellInit(r1) \/ CartOf({r1}, N)!TellConfirm(r1)
           \/ CartOf({r1}, N)!TellFails(r1) \/ CartOf({r1}, N)!Rollback(r1)
  <2>1. UNCHANGED <<cart, hook, page>> /\ bot'[r1].kind \in {bot[r1].kind, "none"}
    BY <1>0, <1>4 DEF CartOf!TellSelect, CartOf!TellInit, CartOf!TellConfirm, CartOf!TellFails,
                      CartOf!Tell, CartOf!Rollback, CartOf!Asking, CartOf!Nothing
  <2> QED
    BY <1>1, <1>2, <2>1
<1>5. CASE CartOf({r1}, N)!Write(r1)
  <2>1. /\ bot[r1].pc = "writing" /\ cart' = CartOf({r1}, N)!Written(r1)
        /\ page' = IF bot[r1].kind = "confirm" THEN [page EXCEPT ![bot[r1].id] = "open"] ELSE page
        /\ UNCHANGED hook /\ bot'[r1].kind = "none"
    BY <1>0, <1>5 DEF CartOf!Write, CartOf!Nothing
  <2>2. /\ bot[r1].kind = "confirm" => cart'.order = bot[r1].id
        /\ bot[r1].kind # "confirm" => cart'.order = cart.order
    BY <1>b, <2>1, CartWrites
  <2>3. /\ bot[r1] \in CartOf({r1}, N)!Asking /\ bot[r1].kind # "none"
        /\ bot[r1].kind = "confirm" => bot[r1].id \in C
    <3>1. bot[r1] \in CartOf({r1}, N)!Asking /\ CartOf({r1}, N)!Writable(r1)
      BY <1>0, <1>b DEF CartOf!WholeInv
    <3> QED
      BY <1>0, <2>1, <3>1 DEF CartOf!Asking, CartOf!Writable
  <2>4. CASE bot[r1].kind = "confirm"
    <3>1. cart.order = 0 /\ \A k \in C : page[k] = "none"
      BY <1>0, <1>1, <2>4
    <3>2. cart'.status = "confirmed"
      BY <1>0, <2>1, <2>4 DEF CartOf!Written, CartOf!Confirmed, CartOf!Cart
    <3>3. \A n \in N : hook[n].pc # "writing"
      BY <1>1, <3>1
    <3>4. \A k \in C : page'[k] # "none" => cart'.order = k
      BY <1>0, <2>1, <2>2, <2>3, <2>4, <3>1
    <3> QED
      BY <1>2, <2>1, <3>2, <3>3, <3>4
  <2>5. CASE bot[r1].kind = "status"
    <3>1. cart.order # 0 => cart.status = "expired"
      BY <1>1, <2>5
    <3>2. cart'.status \in {"expired", cart.status}
      BY <1>0, <2>1, <2>5 DEF CartOf!Written, CartOf!Cart
    <3> QED
      BY <1>1, <1>2, <2>1, <2>2, <2>5, <3>1, <3>2
  <2>6. CASE bot[r1].kind \notin {"confirm", "status"}
    <3>a. page' = page /\ bot[r1].kind \notin {"none", "status", "confirm"}
      BY <2>1, <2>3, <2>6
    <3>1. cart.order = 0 /\ cart'.order = 0 /\ page' = page
      BY <1>1, <2>2, <3>a
    <3>2. (\A k \in C : page[k] = "none") /\ \A n \in N : hook[n].pc # "writing"
      BY <1>0, <1>1, <3>1
    <3> QED
      BY <1>2, <2>1, <3>1, <3>2
  <2> QED
    BY <2>4, <2>5, <2>6
<1>6. ASSUME NEW k \in C, CartOf({r1}, N)!Resolve(k)
      PROVE  CartOf({r1}, N)!StaysInv'
  <2>1. PICK s \in {"paid", "expired"} : page[k] = "open" /\ page' = [page EXCEPT ![k] = s]
                                        /\ UNCHANGED <<cart, bot, hook>>
    BY <1>6 DEF CartOf!Resolve
  <2>2. \A n \in N : hook[n].pc = "writing" => hook[n].id # k
    BY <1>0, <1>1, <2>1 DEF CartOf!Hooked
  <2>3. \A j \in C : page'[j] # "none" => page[j] # "none"
    BY <1>0, <2>1
  <2>4. \A n \in N : hook[n].pc = "writing" => page'[hook[n].id] = page[hook[n].id]
    BY <1>0, <1>1, <2>1, <2>2
  <2> QED
    BY <1>1, <1>2, <2>1, <2>3, <2>4
<1>7. ASSUME NEW n \in N, NEW k \in C, CartOf({r1}, N)!Notify(n, k)
      PROVE  CartOf({r1}, N)!StaysInv'
  <2>a. PICK h : h = [pc |-> "writing", kind |-> page[k], copy |-> cart, id |-> k]
    OBVIOUS
  <2>1. /\ hook' = [hook EXCEPT ![n] = h] /\ h.id = k /\ h.kind = page[k]
        /\ UNCHANGED <<cart, bot, page>>
    BY <1>7, <2>a DEF CartOf!Notify
  <2>2. hook'[n] = h /\ \A m \in N : m # n => hook'[m] = hook[m]
    BY <1>0, <2>1
  <2>3. \A m \in N : hook'[m].pc = "writing" => page'[hook'[m].id] = hook'[m].kind
    BY <1>1, <2>1, <2>2
  <2> QED
    BY <1>1, <1>2, <2>1, <2>3
<1>8. ASSUME NEW n \in N, CartOf({r1}, N)!SettleExpired(n) \/ CartOf({r1}, N)!RefusePaid(n)
      PROVE  CartOf({r1}, N)!StaysInv'
  <2>1. /\ hook' = [hook EXCEPT ![n] = CartOf({r1}, N)!Nothing] /\ UNCHANGED <<bot, page>>
        /\ cart' = cart \/ cart' = [cart EXCEPT !.pay = "expired", !.status = "expired"]
    BY <1>8 DEF CartOf!SettleExpired, CartOf!RefusePaid
  <2>2. cart'.order = cart.order /\ cart'.status \in {cart.status, "expired"}
    BY <1>0, <2>1 DEF CartOf!Cart
  <2>3. hook'[n].pc = "idle" /\ \A m \in N : m # n => hook'[m] = hook[m]
    BY <1>0, <2>1 DEF CartOf!Nothing
  <2>4. \A m \in N : hook'[m].pc = "writing" => page'[hook'[m].id] = hook'[m].kind
    BY <1>1, <2>1, <2>3
  <2>5. /\ cart'.order # 0 => cart'.status \in {"confirmed", "expired"}
        /\ bot'[r1].kind # "none" => cart'.status # "confirmed"
        /\ bot'[r1].kind \notin {"none", "status"} => cart'.order = 0
    BY <1>1, <2>1, <2>2
  <2>6. \A k \in C : page'[k] # "none" => cart'.order = k
    BY <1>1, <2>1, <2>2
  <2> QED
    BY <1>2, <2>4, <2>5, <2>6
<1>9. CASE CartOf({r1}, N)!Pass
  BY <1>1, <1>2, <1>9 DEF CartOf!Pass
<1> QED
  BY <1>3, <1>4, <1>5, <1>6, <1>7, <1>8, <1>9 DEF CartOf!Next

LEMMA TwoAtOnceInvariance ==
    Spec /\ part = "two_at_once" => []CartOf(Requests, {n1})!WholeInv
<1>1. CartOf(Requests, {n1})!Init => CartOf(Requests, {n1})!WholeInv
  BY CartInit
<1>2. CartOf(Requests, {n1})!WholeInv /\ [CartOf(Requests, {n1})!Next]_(CartOf(Requests, {n1})!vars)
        => CartOf(Requests, {n1})!WholeInv'
  <2>1. ASSUME CartOf(Requests, {n1})!WholeInv, UNCHANGED CartOf(Requests, {n1})!vars
        PROVE  CartOf(Requests, {n1})!WholeInv'
    BY <2>1 DEF CartOf!vars, CartOf!WholeInv, CartOf!TypeOK, CartOf!FirstIsAlone, CartOf!OrderIsKept,
                CartOf!Writable, CartOf!Nothing, CartOf!NoCart
  <2> QED
    BY <2>1, CartStep
<1>3. CartOf(Requests, {n1})!Spec => []CartOf(Requests, {n1})!WholeInv
  BY <1>1, <1>2, PTL DEF CartOf!Spec
<1> QED
  BY <1>3, TwoAtOnceRuns, PTL

LEMMA OneByOneInvariance ==
    Spec /\ part = "one_by_one" => []CartOf({r1}, Notices)!StaysInv
<1>1. CartOf({r1}, Notices)!Init => CartOf({r1}, Notices)!StaysInv
  <2> SUFFICES ASSUME CartOf({r1}, Notices)!Init PROVE CartOf({r1}, Notices)!StaysInv
    OBVIOUS
  <2>1. /\ cart.order = 0 /\ bot[r1].kind = "none" /\ \A n \in Notices : hook[n].pc = "idle"
        /\ \A k \in CartOf({r1}, Notices)!Confirms : page[k] = "none"
    BY DEF CartOf!Init, CartOf!NoCart, CartOf!Nothing
  <2> QED
    BY <2>1, CartInit DEF CartOf!StaysInv
<1>2. CartOf({r1}, Notices)!StaysInv /\ [CartOf({r1}, Notices)!Next]_(CartOf({r1}, Notices)!vars)
        => CartOf({r1}, Notices)!StaysInv'
  <2>1. ASSUME CartOf({r1}, Notices)!StaysInv, UNCHANGED CartOf({r1}, Notices)!vars
        PROVE  CartOf({r1}, Notices)!StaysInv'
    BY <2>1 DEF CartOf!vars, CartOf!WholeInv, CartOf!TypeOK, CartOf!FirstIsAlone, CartOf!OrderIsKept,
                CartOf!Writable, CartOf!Nothing, CartOf!NoCart, CartOf!StaysInv
  <2> QED
    BY <2>1, CartStaysStep
<1>3. CartOf({r1}, Notices)!Spec => []CartOf({r1}, Notices)!StaysInv
  BY <1>1, <1>2, PTL DEF CartOf!Spec
<1> QED
  BY <1>3, OneByOneRuns, PTL

\* A cart's order id is the one its payment page was made for, and a webhook
\* about a page finds a cart with an order id.
THEOREM ConfirmedIsWholeHolds == Spec => []ConfirmedIsWhole
<1>1. CartOf(Requests, {n1})!WholeInv => CartOf(Requests, {n1})!ConfirmedIsWhole
  BY DEF CartOf!WholeInv, CartOf!OrderIsKept, CartOf!ConfirmedIsWhole
<1>2. CartOf({r1}, Notices)!StaysInv => CartOf({r1}, Notices)!ConfirmedIsWhole
  BY DEF CartOf!StaysInv, CartOf!WholeInv, CartOf!OrderIsKept, CartOf!ConfirmedIsWhole
<1>3. Spec => [](part = "two_at_once" => CartOf(Requests, {n1})!ConfirmedIsWhole)
  BY <1>1, TwoAtOnceInvariance, TwoAtOnceRuns, PTL
<1>4. Spec => [](part = "one_by_one" => CartOf({r1}, Notices)!ConfirmedIsWhole)
  BY <1>2, OneByOneInvariance, OneByOneRuns, PTL
<1> QED
  BY <1>3, <1>4, PTL DEF ConfirmedIsWhole

\* A confirmed cart of a bot that waits for each answer keeps its order, and
\* expires only because its page did.
THEOREM ConfirmedStaysHolds == Spec => ConfirmedStays
<1> DEFINE Stays == /\ cart'.order = cart.order
                    /\ cart'.status # "confirmed" => page[cart.order] = "expired"
<1>1. ASSUME CartOf({r1}, Notices)!StaysInv, CartOf({r1}, Notices)!Next, cart.status = "confirmed"
      PROVE  Stays
  <2>0. /\ hook \in [Notices -> CartOf({r1}, Notices)!Hooked] /\ cart \in CartOf({r1}, Notices)!Cart
        /\ bot[r1].kind = "none" /\ CartOf({r1}, Notices)!Writable(r1) /\ MaxConfirms \in Nat
    BY <1>1, CartTypes DEF CartOf!StaysInv, CartOf!WholeInv
  <2>1. ASSUME CartOf({r1}, Notices)!Write(r1)
        PROVE  FALSE
    BY <2>0, <2>1 DEF CartOf!Write, CartOf!Writable
  <2>2. ASSUME NEW n \in Notices, CartOf({r1}, Notices)!SettleExpired(n)
        PROVE  Stays
    <3>1. /\ page[hook[n].id] = "expired" /\ hook[n].id \in 1..MaxConfirms /\ page[hook[n].id] # "none"
      BY <1>1, <2>0, <2>2
      DEF CartOf!SettleExpired, CartOf!StaysInv, CartOf!WholeInv, CartOf!OrderIsKept, CartOf!Hooked
    <3>2. cart.order = hook[n].id
      BY <1>1, <3>1 DEF CartOf!StaysInv, CartOf!Confirms
    <3>3. cart' = cart \/ cart' = [cart EXCEPT !.pay = "expired", !.status = "expired"]
      BY <2>2 DEF CartOf!SettleExpired
    <3> QED
      BY <1>1, <2>0, <3>1, <3>2, <3>3 DEF CartOf!Cart
  <2>3. UNCHANGED cart => Stays
    BY <1>1
  <2> QED
    BY <1>1, <2>1, <2>2, <2>3
    DEF CartOf!Next, CartOf!Select, CartOf!Add, CartOf!Draft, CartOf!Confirm, CartOf!View,
        CartOf!Status, CartOf!Starts, CartOf!TellSelect, CartOf!TellInit, CartOf!TellConfirm,
        CartOf!Tell, CartOf!TellFails, CartOf!Rollback, CartOf!RefusePaid, CartOf!Notify,
        CartOf!Resolve, CartOf!Pass
<1>2. CartOf({r1}, Notices)!StaysInv /\ [CartOf({r1}, Notices)!Next]_(CartOf({r1}, Notices)!vars)
        => (part = "one_by_one" /\ cart.status = "confirmed" => Stays)
  BY <1>1 DEF CartOf!vars
<1>3. Spec /\ part = "one_by_one" =>
         [][part = "one_by_one" /\ cart.status = "confirmed" => Stays]_allVars
  BY <1>2, OneByOneInvariance, OneByOneRuns, PTL DEF CartOf!Spec
<1>4. Spec /\ ~(part = "one_by_one") =>
         [][part = "one_by_one" /\ cart.status = "confirmed" => Stays]_allVars
  <2>1. ~(part = "one_by_one") => (part = "one_by_one" /\ cart.status = "confirmed" => Stays)
    OBVIOUS
  <2> QED
    BY <2>1, OneByOneRuns, PTL
<1> QED
  BY <1>3, <1>4, PTL DEF ConfirmedStays
-------------------------------------------------------------------------------
(* Checkout: an order is authorised with what is in force.                 *)

\* A request moves, and the rest stays: its own copy must be one that may be.
LEMMA CheckoutMoves ==
    ASSUME Checkout!CheckoutConstants, Checkout!CurrentInv, NEW r \in Requests, NEW k \in Checkout!Pricing,
           asked' = [asked EXCEPT ![r] = k], UNCHANGED <<free, world, quoted, order>>,
           rowLock' \in Requests \cup {NoReq}, \A q \in Requests : q # r /\ rowLock = q => rowLock' = q,
           k.pc \in {"pricing", "rating"} => free \/ k.choice \in quoted,
           k.pc = "creating" => free \/ k.copy["rate"] \in quoted,
           k.pc \in {"repricing", "rerating", "authorising"} =>
              /\ rowLock' = r /\ order.state = "PRE_AUTH" /\ k.zip = order.zip
              /\ \A t \in Checkout!Terms : k.began[t] <= world[t]
              /\ \A t \in Checkout!Settings : order.bound[t] = k.began[t]
              /\ free => k.copy["rate"] = 0 /\ k.began["rate"] = 0
              /\ k.pc \in {"rerating", "authorising"} => k.copy["price"] \in k.began["price"] .. world["price"]
              /\ k.pc = "authorising" => k.copy["rate"] \in k.began["rate"] .. world["rate"]
    PROVE  Checkout!CurrentInv'
<1> USE DEF Checkout!CurrentInv
<1>1. /\ asked' \in [Requests -> Checkout!Pricing] /\ asked'[r] = k
      /\ \A q \in Requests : q # r => asked'[q] = asked[q]
  BY DEF Checkout!TypeOK
<1>2. Checkout!TypeOK'
  BY <1>1 DEF Checkout!TypeOK
<1>3. Checkout!Shown'
  BY <1>1 DEF Checkout!Shown
<1>4. ASSUME NEW q \in Requests PROVE Checkout!Holds(q)'
  <2>1. CASE q = r
    BY <1>1, <2>1 DEF Checkout!Holds, Checkout!Authorises, Checkout!Read
  <2>2. CASE q # r
    <3>1. asked'[q] = asked[q] /\ Checkout!Holds(q)
      BY <1>1, <2>2
    <3>2. Checkout!Authorises(q) => rowLock' = q
      BY <2>2, <3>1 DEF Checkout!Holds
    <3> QED
      BY <3>1, <3>2 DEF Checkout!Holds, Checkout!Authorises, Checkout!Read
  <2> QED
    BY <2>1, <2>2
<1> QED
  BY <1>2, <1>3, <1>4

\* What a request holds after it has read one term.
LEMMA CheckoutReads ==
    ASSUME Checkout!TypeOK, NEW r \in Requests, NEW t \in Checkout!Terms,
           NEW pc \in {"creating", "rating", "rerating", "authorising"}, Checkout!Reads(r, t, pc)
    PROVE  \E k \in Checkout!Pricing :
              /\ asked' = [asked EXCEPT ![r] = k]
              /\ k.pc = pc /\ k.zip = asked[r].zip /\ k.choice = asked[r].choice /\ k.began = asked[r].began
              /\ k.copy[t] = world[t] /\ \A u \in Checkout!Terms : u # t => k.copy[u] = asked[r].copy[u]
<1>1. asked[r] \in Checkout!Pricing /\ world \in Checkout!World
  BY DEF Checkout!TypeOK
<1>2. asked[r].copy \in Checkout!World
  BY <1>1 DEF Checkout!Pricing
<1>3. PICK c \in Checkout!World : c = [asked[r].copy EXCEPT ![t] = world[t]]
  BY <1>1, <1>2 DEF Checkout!World
<1>4. c[t] = world[t] /\ \A u \in Checkout!Terms : u # t => c[u] = asked[r].copy[u]
  BY <1>2, <1>3 DEF Checkout!World
<1>5. PICK k : k = [pc |-> pc, copy |-> c, zip |-> asked[r].zip, choice |-> asked[r].choice,
                    began |-> asked[r].began]
  OBVIOUS
<1>6. k \in Checkout!Pricing
  BY <1>1, <1>5 DEF Checkout!Pricing
<1>7. asked' = [asked EXCEPT ![r] = [asked[r] EXCEPT !.copy = c, !.pc = pc]]
  BY <1>3 DEF Checkout!Reads, Checkout!TypeOK
<1>8. k = [asked[r] EXCEPT !.copy = c, !.pc = pc]
  <2>1. PICK a : a = asked[r]
    OBVIOUS
  <2>2. a \in Checkout!Pricing
    BY <1>1, <2>1
  <2>b. PICK b : b = [a EXCEPT !.copy = c]
    OBVIOUS
  <2>c. b \in Checkout!Pricing /\ b.copy = c /\ b.zip = a.zip /\ b.choice = a.choice /\ b.began = a.began
    BY <2>2, <2>b DEF Checkout!Pricing
  <2>3. [b EXCEPT !.pc = pc]
          = [pc |-> pc, copy |-> b.copy, zip |-> b.zip, choice |-> b.choice, began |-> b.began]
    BY <2>c DEF Checkout!Pricing
  <2> QED
    BY <1>5, <2>1, <2>b, <2>c, <2>3
<1>9. asked' = [asked EXCEPT ![r] = k]
  BY <1>7, <1>8
<1>10. /\ k.pc = pc /\ k.zip = asked[r].zip /\ k.choice = asked[r].choice
       /\ k.began = asked[r].began /\ k.copy = c
  BY <1>5
<1> QED
  BY <1>4, <1>6, <1>9, <1>10

\* A request begins with the brand's columns as they are.
LEMMA CheckoutBegins ==
    ASSUME Checkout!CheckoutConstants, Checkout!TypeOK, NEW r \in Requests, NEW zip \in Zips,
           NEW choice \in Checkout!Version, NEW pc \in {"pricing", "repricing"},
           Checkout!Begins(r, pc, zip, choice)
    PROVE  \E k \in Checkout!Pricing :
              /\ asked' = [asked EXCEPT ![r] = k]
              /\ k.pc = pc /\ k.zip = zip /\ k.choice = choice /\ k.began = world /\ k.copy["rate"] = 0
<1>1. PICK c : c = [t \in Checkout!Terms |-> IF t \in Checkout!Settings THEN world[t] ELSE 0]
  OBVIOUS
<1>2. c \in Checkout!World /\ c["rate"] = 0 /\ world \in Checkout!World
  BY <1>1 DEF Checkout!TypeOK, Checkout!World, Checkout!Version, Checkout!CheckoutConstants,
              Checkout!Terms, Checkout!Settings
<1>3. PICK k : k = [pc |-> pc, zip |-> zip, choice |-> choice, began |-> world, copy |-> c]
  OBVIOUS
<1>4. k \in Checkout!Pricing
  BY <1>2, <1>3 DEF Checkout!Pricing
<1> QED
  BY <1>1, <1>2, <1>3, <1>4 DEF Checkout!Begins

LEMMA CheckoutIdle ==
    ASSUME Checkout!CheckoutConstants
    PROVE  /\ Checkout!First \in Checkout!World /\ Checkout!NoZip \in Zips /\ 0 \in Checkout!Version
           /\ Checkout!Idle \in Checkout!Pricing /\ Checkout!Idle.pc = "idle"
           /\ Checkout!NoOrder \in Checkout!Order /\ Checkout!NoOrder.state = "none"
<1>1. 0 \in Checkout!Version /\ Checkout!NoZip \in Zips
  BY DEF Checkout!CheckoutConstants, Checkout!Version, Checkout!NoZip
<1>2. Checkout!First \in Checkout!World
  BY <1>1 DEF Checkout!First, Checkout!World
<1>3. Checkout!Idle \in Checkout!Pricing /\ Checkout!Idle.pc = "idle"
  BY <1>1, <1>2 DEF Checkout!Idle, Checkout!Pricing
<1>4. Checkout!NoOrder \in Checkout!Order /\ Checkout!NoOrder.state = "none"
  BY <1>1, <1>2 DEF Checkout!NoOrder, Checkout!Order
<1> QED
  BY <1>1, <1>2, <1>3, <1>4

LEMMA CheckoutTerms ==
    ASSUME Checkout!CheckoutConstants, Checkout!CurrentInv
    PROVE  /\ \A t \in Checkout!Terms : world[t] \in Nat
           /\ "rate" \in Checkout!Terms /\ "price" \in Checkout!Terms
           /\ "bpp" \in Checkout!Terms /\ "origin" \in Checkout!Terms
           /\ Checkout!Settings = {"bpp", "origin"}
           /\ Checkout!Terms = Checkout!Settings \cup {"price", "rate"}
           /\ rowLock \in Requests \cup {NoReq} /\ NoReq \notin Requests
           /\ order \in Checkout!Order /\ world \in Checkout!World /\ free \in BOOLEAN
           /\ asked \in [Requests -> Checkout!Pricing]
           /\ free => world["rate"] = 0
BY DEF Checkout!CheckoutConstants, Checkout!CurrentInv, Checkout!TypeOK, Checkout!World, Checkout!Version,
       Checkout!Terms, Checkout!Settings

\* POST /orders, step by step, but for its commit.
LEMMA CheckoutCreates ==
    ASSUME Checkout!CheckoutConstants, Checkout!CurrentInv, NEW r \in Requests,
           Checkout!Create(r) \/ Checkout!PriceCart(r) \/ Checkout!RateCart(r)
    PROVE  Checkout!CurrentInv'
<1>0. Checkout!TypeOK /\ rowLock \in Requests \cup {NoReq} /\ UNCHANGED <<free, world, quoted, order, rowLock>>
  BY CheckoutTerms DEF Checkout!CurrentInv, Checkout!Create, Checkout!PriceCart, Checkout!RateCart
<1>1. CASE Checkout!Create(r)
  <2>1. PICK zip \in Zips, choice \in quoted \cup (IF free THEN {0} ELSE {}) :
           Checkout!Begins(r, "pricing", zip, choice)
    BY <1>1 DEF Checkout!Create
  <2>2. choice \in Checkout!Version /\ (free \/ choice \in quoted)
    BY <1>0, CheckoutIdle DEF Checkout!TypeOK
  <2>3. PICK k \in Checkout!Pricing : asked' = [asked EXCEPT ![r] = k] /\ k.pc = "pricing" /\ k.choice = choice
    BY <1>0, <2>1, <2>2, CheckoutBegins
  <2> QED
    BY <1>0, <2>2, <2>3, CheckoutMoves
<1>2. CASE Checkout!PriceCart(r)
  <2>1. /\ asked[r].pc = "pricing"
        /\ Checkout!Reads(r, "price", IF free THEN "creating" ELSE "rating")
    BY <1>2 DEF Checkout!PriceCart
  <2>2. PICK pc \in {"creating", "rating"} : pc = IF free THEN "creating" ELSE "rating"
    OBVIOUS
  <2>3. PICK k \in Checkout!Pricing : asked' = [asked EXCEPT ![r] = k] /\ k.pc = pc /\ k.choice = asked[r].choice
    BY <1>0, <2>1, <2>2, CheckoutReads, CheckoutTerms
  <2>4. free \/ asked[r].choice \in quoted
    BY <2>1 DEF Checkout!CurrentInv, Checkout!Shown
  <2> QED
    BY <1>0, <2>2, <2>3, <2>4, CheckoutMoves
<1>3. CASE Checkout!RateCart(r)
  <2>1. CASE Checkout!CarrierRate = asked[r].choice
    <3>1. asked[r].pc = "rating" /\ Checkout!Reads(r, "rate", "creating") /\ world["rate"] = asked[r].choice
      BY <1>3, <2>1 DEF Checkout!RateCart, Checkout!CarrierRate
    <3>2. PICK k \in Checkout!Pricing : asked' = [asked EXCEPT ![r] = k] /\ k.pc = "creating" /\ k.copy["rate"] = world["rate"]
      BY <1>0, <3>1, CheckoutReads, CheckoutTerms
    <3>3. free \/ asked[r].choice \in quoted
      BY <3>1 DEF Checkout!CurrentInv, Checkout!Shown
    <3> QED
      BY <1>0, <3>1, <3>2, <3>3, CheckoutMoves
  <2>2. CASE Checkout!CarrierRate # asked[r].choice
    <3>1. asked' = [asked EXCEPT ![r] = Checkout!Idle]
      BY <1>3, <2>2 DEF Checkout!RateCart, Checkout!Ends
    <3> QED
      BY <1>0, <3>1, CheckoutIdle, CheckoutMoves
  <2> QED
    BY <2>1, <2>2
<1> QED
  BY <1>1, <1>2, <1>3

\* PATCH /orders/{id}/auth, but for its commit: the row is held all along.
LEMMA CheckoutAuthorises ==
    ASSUME Checkout!CheckoutConstants, Checkout!CurrentInv, NEW r \in Requests,
           Checkout!Authorise(r) \/ Checkout!RepriceCart(r) \/ Checkout!RerateCart(r)
    PROVE  Checkout!CurrentInv'
<1>0. /\ Checkout!TypeOK /\ Checkout!Holds(r) /\ UNCHANGED <<free, world, quoted, order>>
      /\ \A t \in Checkout!Terms : world[t] \in Nat
  BY CheckoutTerms DEF Checkout!CurrentInv, Checkout!Authorise, Checkout!RepriceCart, Checkout!RerateCart
<1>1. CASE Checkout!Authorise(r)
  <2>1. PICK zip \in Zips :
           /\ Checkout!Bound(zip) /\ Checkout!Begins(r, "repricing", zip, order.bound["rate"])
           /\ order.state = "PRE_AUTH" /\ rowLock = NoReq /\ rowLock' = r
    BY <1>1 DEF Checkout!Authorise
  <2>2. order.bound["rate"] \in Checkout!Version
    BY CheckoutTerms DEF Checkout!Order, Checkout!World
  <2>3. PICK k \in Checkout!Pricing :
           /\ asked' = [asked EXCEPT ![r] = k] /\ k.pc = "repricing" /\ k.zip = zip
           /\ k.began = world /\ k.copy["rate"] = 0
    BY <1>0, <2>1, <2>2, CheckoutBegins
  <2>4. /\ k.zip = order.zip /\ (\A t \in Checkout!Terms : k.began[t] <= world[t])
        /\ (\A t \in Checkout!Settings : order.bound[t] = k.began[t])
        /\ (free => k.began["rate"] = 0) /\ \A q \in Requests : rowLock # q
    BY <1>0, <2>1, <2>3, CheckoutTerms DEF Checkout!Bound
  <2> QED
    BY <1>0, <2>1, <2>3, <2>4, CheckoutMoves
<1>2. CASE Checkout!RepriceCart(r)
  <2>1. /\ asked[r].pc = "repricing" /\ UNCHANGED rowLock
        /\ Checkout!Reads(r, "price", IF free THEN "authorising" ELSE "rerating")
    BY <1>2 DEF Checkout!RepriceCart
  <2>2. PICK pc \in {"rerating", "authorising"} : pc = IF free THEN "authorising" ELSE "rerating"
    OBVIOUS
  <2>3. PICK k \in Checkout!Pricing :
           /\ asked' = [asked EXCEPT ![r] = k] /\ k.pc = pc /\ k.zip = asked[r].zip
           /\ k.began = asked[r].began /\ k.copy["price"] = world["price"]
           /\ k.copy["rate"] = asked[r].copy["rate"]
    BY <1>0, <2>1, <2>2, CheckoutReads, CheckoutTerms
  <2>4. /\ rowLock = r /\ order.state = "PRE_AUTH" /\ asked[r].zip = order.zip
        /\ \A t \in Checkout!Terms : asked[r].began[t] <= world[t]
        /\ \A t \in Checkout!Settings : order.bound[t] = asked[r].began[t]
        /\ free => asked[r].copy["rate"] = 0 /\ asked[r].began["rate"] = 0
    BY <1>0, <2>1 DEF Checkout!Holds, Checkout!Authorises
  <2>5. \A t \in Checkout!Terms : asked[r].began[t] \in Nat
    BY CheckoutTerms DEF Checkout!Pricing, Checkout!World, Checkout!Version
  <2>6. /\ k.copy["price"] \in k.began["price"] .. world["price"]
        /\ pc = "authorising" => k.copy["rate"] \in k.began["rate"] .. world["rate"]
    BY <1>0, <2>2, <2>3, <2>4, <2>5, CheckoutTerms
  <2> QED
    BY <1>0, <2>1, <2>2, <2>3, <2>4, <2>6, CheckoutMoves, CheckoutTerms
<1>3. CASE Checkout!RerateCart(r)
  <2>1. CASE Checkout!CarrierRate = asked[r].choice
    <3>1. /\ asked[r].pc = "rerating" /\ UNCHANGED rowLock /\ Checkout!Reads(r, "rate", "authorising")
      BY <1>3, <2>1 DEF Checkout!RerateCart
    <3>2. PICK k \in Checkout!Pricing :
             /\ asked' = [asked EXCEPT ![r] = k] /\ k.pc = "authorising" /\ k.zip = asked[r].zip
             /\ k.began = asked[r].began /\ k.copy["rate"] = world["rate"]
             /\ k.copy["price"] = asked[r].copy["price"]
      BY <1>0, <3>1, CheckoutReads, CheckoutTerms
    <3>3. /\ rowLock = r /\ order.state = "PRE_AUTH" /\ asked[r].zip = order.zip
          /\ \A t \in Checkout!Terms : asked[r].began[t] <= world[t]
          /\ \A t \in Checkout!Settings : order.bound[t] = asked[r].began[t]
          /\ free => asked[r].began["rate"] = 0
          /\ asked[r].copy["price"] \in asked[r].began["price"] .. world["price"]
      BY <1>0, <3>1 DEF Checkout!Holds, Checkout!Authorises, Checkout!Read
    <3>4. asked[r].began["rate"] \in Nat
      BY CheckoutTerms DEF Checkout!Pricing, Checkout!World, Checkout!Version
    <3>5. /\ k.copy["rate"] \in k.began["rate"] .. world["rate"]
          /\ free => k.copy["rate"] = 0
      BY <1>0, <3>2, <3>3, <3>4, CheckoutTerms
    <3> QED
      BY <1>0, <3>1, <3>2, <3>3, <3>5, CheckoutMoves, CheckoutTerms
  <2>2. CASE Checkout!CarrierRate # asked[r].choice
    <3>1. asked' = [asked EXCEPT ![r] = Checkout!Idle] /\ rowLock' = (IF rowLock = r THEN NoReq ELSE rowLock)
      BY <1>3, <2>2 DEF Checkout!RerateCart, Checkout!Ends, Checkout!Drops
    <3>2. rowLock' \in Requests \cup {NoReq} /\ \A q \in Requests : q # r /\ rowLock = q => rowLock' = q
      BY <3>1, CheckoutTerms
    <3> QED
      BY <1>0, <3>1, <3>2, CheckoutIdle, CheckoutMoves
  <2> QED
    BY <2>1, <2>2
<1> QED
  BY <1>1, <1>2, <1>3

\* A commit that ends a request changes a row that nobody else authorises.
LEMMA CheckoutCommits ==
    ASSUME Checkout!CheckoutConstants, Checkout!CurrentInv, NEW r \in Requests,
           asked' = [asked EXCEPT ![r] = Checkout!Idle], UNCHANGED <<free, world, quoted>>,
           rowLock' = rowLock \/ (rowLock = r /\ rowLock' = NoReq),
           order' \in Checkout!Order,
           order'.state # "none" => free \/ order'.bound["rate"] \in quoted,
           order' = order \/ \A q \in Requests : q # r => ~Checkout!Authorises(q)
    PROVE  Checkout!CurrentInv'
<1> USE DEF Checkout!CurrentInv
<1>1. /\ asked' \in [Requests -> Checkout!Pricing] /\ asked'[r].pc = "idle"
      /\ \A q \in Requests : q # r => asked'[q] = asked[q]
  BY CheckoutIdle DEF Checkout!TypeOK
<1>2. Checkout!TypeOK'
  BY <1>1 DEF Checkout!TypeOK
<1>3. Checkout!Shown'
  BY <1>1 DEF Checkout!Shown
<1>4. ASSUME NEW q \in Requests PROVE Checkout!Holds(q)'
  <2>1. CASE q = r
    BY <1>1, <2>1 DEF Checkout!Holds, Checkout!Authorises
  <2>2. CASE q # r
    <3>1. asked'[q] = asked[q] /\ Checkout!Holds(q) /\ (rowLock = q => rowLock' = q)
      BY <1>1, <2>2
    <3>2. Checkout!Authorises(q) => order' = order
      BY <2>2
    <3> QED
      BY <3>1, <3>2 DEF Checkout!Holds, Checkout!Authorises, Checkout!Read
  <2> QED
    BY <2>1, <2>2
<1> QED
  BY <1>2, <1>3, <1>4

LEMMA CheckoutStep ==
    ASSUME Checkout!CheckoutConstants, Checkout!CurrentInv, Checkout!Next
    PROVE  Checkout!CurrentInv'
<1> USE DEF Checkout!CurrentInv
<1>1. ASSUME NEW r \in Requests, Checkout!AddOrder(r)
      PROVE  Checkout!CurrentInv'
  <2>1. /\ asked[r].pc = "creating" /\ asked' = [asked EXCEPT ![r] = Checkout!Idle]
        /\ UNCHANGED <<free, world, quoted, rowLock>> /\ asked[r] \in Checkout!Pricing
    BY <1>1, CheckoutTerms DEF Checkout!AddOrder, Checkout!Ends
  <2>2. CASE order.state # "none"
    <3>1. order' = order
      BY <1>1, <2>2 DEF Checkout!AddOrder
    <3> QED
      BY <2>1, <3>1, CheckoutTerms, CheckoutCommits DEF Checkout!Shown
  <2>3. CASE order.state = "none"
    <3>1. order' = [Checkout!NoOrder EXCEPT !.state = "PRE_AUTH", !.bound = asked[r].copy,
                                            !.zip = asked[r].zip, !.shipping = asked[r].copy["rate"]]
      BY <1>1, <2>3 DEF Checkout!AddOrder
    <3>2. asked[r].copy \in Checkout!World /\ asked[r].zip \in Zips /\ asked[r].copy["rate"] \in Checkout!Version
      BY <2>1, CheckoutTerms DEF Checkout!Pricing, Checkout!World
    <3>3. order' \in Checkout!Order /\ order'.bound = asked[r].copy
      BY <3>1, <3>2, CheckoutIdle DEF Checkout!Order, Checkout!NoOrder
    <3>4. free \/ asked[r].copy["rate"] \in quoted
      BY <2>1 DEF Checkout!Shown
    <3>5. \A q \in Requests : ~Checkout!Authorises(q)
      BY <2>3 DEF Checkout!Holds
    <3> QED
      BY <2>1, <3>3, <3>4, <3>5, CheckoutCommits
  <2> QED
    BY <2>2, <2>3
<1>2. ASSUME NEW r \in Requests, Checkout!Authorised(r)
      PROVE  Checkout!CurrentInv'
  <2>1. /\ asked[r].pc = "authorising" /\ asked' = [asked EXCEPT ![r] = Checkout!Idle]
        /\ UNCHANGED <<free, world, quoted>> /\ asked[r] \in Checkout!Pricing
        /\ rowLock' = IF rowLock = r THEN NoReq ELSE rowLock
    BY <1>2, CheckoutTerms DEF Checkout!Authorised, Checkout!Ends, Checkout!Drops
  <2>2. rowLock = r /\ \A q \in Requests : q # r => ~Checkout!Authorises(q)
    BY <2>1 DEF Checkout!Holds, Checkout!Authorises
  <2>3. order' \in Checkout!Order /\ order'.bound = order.bound /\ (order'.state # "none" => order.state # "none")
    <3>1. order' = order \/ order' = [order EXCEPT !.state = "AUTHED", !.address = asked[r].zip]
      BY <1>2 DEF Checkout!Authorised
    <3>2. asked[r].zip \in Zips /\ order.state = "PRE_AUTH"
      BY <2>1 DEF Checkout!Pricing, Checkout!Holds, Checkout!Authorises
    <3> QED
      BY <3>1, <3>2, CheckoutTerms DEF Checkout!Order
  <2> QED
    BY <2>1, <2>2, <2>3, CheckoutCommits DEF Checkout!Shown
<1>3. ASSUME NEW r \in Requests, Checkout!Crash(r)
      PROVE  Checkout!CurrentInv'
  <2>1. /\ asked' = [asked EXCEPT ![r] = Checkout!Idle] /\ UNCHANGED <<free, world, quoted, order>>
        /\ rowLock' = IF rowLock = r THEN NoReq ELSE rowLock
    BY <1>3 DEF Checkout!Crash, Checkout!Ends, Checkout!Drops
  <2> QED
    BY <2>1, CheckoutTerms, CheckoutCommits DEF Checkout!Shown
<1>4. ASSUME Checkout!Quote
      PROVE  Checkout!CurrentInv'
  <2>1. /\ quoted' = quoted \cup {world["rate"]} /\ world["rate"] \in Checkout!Version
        /\ UNCHANGED <<free, world, order, rowLock, asked>>
    BY <1>4, CheckoutTerms DEF Checkout!Quote, Checkout!CarrierRate, Checkout!World
  <2> QED
    BY <2>1 DEF Checkout!TypeOK, Checkout!Shown, Checkout!Holds, Checkout!Authorises, Checkout!Read
<1>5. ASSUME Checkout!Review
      PROVE  Checkout!CurrentInv'
  <2>1. /\ order' = [order EXCEPT !.state = "CART_REVIEWED"] /\ order.state = "AUTHED"
        /\ UNCHANGED <<free, world, quoted, rowLock, asked>>
    BY <1>5 DEF Checkout!Review
  <2>2. order' \in Checkout!Order /\ order'.bound = order.bound
    BY <2>1, CheckoutTerms DEF Checkout!Order
  <2>3. \A q \in Requests : ~Checkout!Authorises(q)
    BY <2>1 DEF Checkout!Holds
  <2> QED
    BY <2>1, <2>2, <2>3 DEF Checkout!TypeOK, Checkout!Shown, Checkout!Holds, Checkout!Authorises
<1>6. ASSUME NEW t \in Checkout!Terms, Checkout!Change(t)
      PROVE  Checkout!CurrentInv'
  <2>1. /\ world[t] < MaxChanges /\ (free => t # "rate") /\ world' = [world EXCEPT ![t] = @ + 1]
        /\ UNCHANGED <<free, quoted, order, rowLock, asked>> /\ MaxChanges \in Nat
    BY <1>6 DEF Checkout!Change, Checkout!CheckoutConstants
  <2>2. /\ world' \in Checkout!World /\ \A u \in Checkout!Terms : world[u] \in Nat /\ world'[u] \in Nat
                                                               /\ world'[u] >= world[u]
        /\ free => world'["rate"] = 0
    BY <2>1, CheckoutTerms DEF Checkout!World, Checkout!Version
  <2>3. Checkout!TypeOK' /\ Checkout!Shown'
    BY <2>1, <2>2 DEF Checkout!TypeOK, Checkout!Shown
  <2>4. ASSUME NEW q \in Requests PROVE Checkout!Holds(q)'
    <3>1. \A u \in Checkout!Terms : asked[q].began[u] \in Nat /\ asked[q].copy[u] \in Nat
      BY CheckoutTerms DEF Checkout!Pricing, Checkout!World, Checkout!Version
    <3>2. \A u \in Checkout!Terms : asked[q].began[u] <= world[u] => asked[q].began[u] <= world'[u]
      BY <2>2, <3>1
    <3>3. \A u \in Checkout!Terms : asked[q].copy[u] \in asked[q].began[u] .. world[u]
                                      => asked[q].copy[u] \in asked[q].began[u] .. world'[u]
      BY <2>2, <3>1
    <3> QED
      BY <2>1, <3>2, <3>3, CheckoutTerms DEF Checkout!Holds, Checkout!Authorises, Checkout!Read
  <2> QED
    BY <2>1, <2>2, <2>3, <2>4
<1> QED
  BY <1>1, <1>2, <1>3, <1>4, <1>5, <1>6, CheckoutCreates, CheckoutAuthorises DEF Checkout!Next

LEMMA CheckoutInvariance == Spec => [](part = "checkout" => Checkout!CurrentInv)
<1>0. Checkout!CheckoutConstants
  BY Constants
<1>1. Checkout!Init => Checkout!CurrentInv
  <2> SUFFICES ASSUME Checkout!Init PROVE Checkout!CurrentInv
    OBVIOUS
  <2>1. /\ free \in BOOLEAN /\ world = Checkout!First /\ quoted = {} /\ order = Checkout!NoOrder
        /\ rowLock = NoReq /\ asked = [r \in Requests |-> Checkout!Idle]
    BY DEF Checkout!Init
  <2>2. Checkout!TypeOK
    BY <1>0, <2>1, CheckoutIdle DEF Checkout!TypeOK
  <2>3. \A r \in Requests : asked[r].pc = "idle"
    BY <1>0, <2>1, CheckoutIdle
  <2>4. world["rate"] = 0
    BY <2>1 DEF Checkout!First, Checkout!Terms
  <2> QED
    BY <1>0, <2>1, <2>2, <2>3, <2>4, CheckoutIdle
    DEF Checkout!CurrentInv, Checkout!Shown, Checkout!Holds, Checkout!Authorises
<1>2. Checkout!CurrentInv /\ [Checkout!Next]_(Checkout!checkoutVars) => Checkout!CurrentInv'
  <2>1. ASSUME Checkout!CurrentInv, UNCHANGED Checkout!checkoutVars
        PROVE  Checkout!CurrentInv'
    BY <2>1 DEF Checkout!checkoutVars, Checkout!CurrentInv, Checkout!TypeOK, Checkout!Shown,
                Checkout!Holds, Checkout!Authorises, Checkout!Read
  <2> QED
    BY <1>0, <2>1, CheckoutStep
<1>3. Checkout!Spec => []Checkout!CurrentInv
  BY <1>1, <1>2, PTL DEF Checkout!Spec
<1> QED
  BY <1>3, CheckoutRuns, PTL

\* An order is authorised only with what was in force while the request ran, and
\* no later request changes what it is made of.
THEOREM AuthedIsCurrentHolds == Spec => AuthedIsCurrent
<1> DEFINE Current == /\ order'.state = "AUTHED" /\ order.state # "AUTHED" =>
                            /\ order'.address = order.zip
                            /\ free \/ order.bound["rate"] \in quoted
                            /\ \E r \in Requests :
                                  /\ asked[r].pc = "authorising"
                                  /\ \A t \in Checkout!Terms :
                                        order.bound[t] \in asked[r].began[t] .. world[t]
                      /\ order.state # "none" => order'.bound = order.bound
<1>0. Checkout!CheckoutConstants
  BY Constants
<1>1. UNCHANGED order => Current
  OBVIOUS
<1>2. ASSUME Checkout!CurrentInv, Checkout!Next
      PROVE  Current
  <2>1. ASSUME NEW r \in Requests, Checkout!Authorised(r), ~(UNCHANGED order)
        PROVE  Current
    <3>1. /\ asked[r].pc = "authorising" /\ Checkout!Requoted(r) /\ order \in Checkout!Order
          /\ order' = [order EXCEPT !.state = "AUTHED", !.address = asked[r].zip]
      BY <1>0, <1>2, <2>1, CheckoutTerms DEF Checkout!Authorised
    <3>2. /\ asked[r].zip = order.zip /\ order.state = "PRE_AUTH"
          /\ \A t \in Checkout!Terms : asked[r].began[t] <= world[t]
          /\ \A t \in Checkout!Settings : order.bound[t] = asked[r].began[t]
          /\ asked[r].copy["price"] \in asked[r].began["price"] .. world["price"]
          /\ asked[r].copy["rate"] \in asked[r].began["rate"] .. world["rate"]
      BY <1>2, <3>1 DEF Checkout!CurrentInv, Checkout!Holds, Checkout!Authorises, Checkout!Read
    <3>3. order'.address = order.zip /\ order'.bound = order.bound
      BY <3>1, <3>2 DEF Checkout!Order
    <3>4. free \/ order.bound["rate"] \in quoted
      BY <1>2, <3>2 DEF Checkout!CurrentInv, Checkout!Shown
    <3>5. asked[r] \in Checkout!Pricing /\ \A t \in Checkout!Terms : world[t] \in Nat
      BY <1>0, <1>2, CheckoutTerms
    <3>6. \A t \in Checkout!Terms : asked[r].began[t] \in Nat
      BY <3>5 DEF Checkout!Pricing, Checkout!World, Checkout!Version
    <3>7. \A t \in Checkout!Settings : order.bound[t] \in asked[r].began[t] .. world[t]
      BY <3>2, <3>5, <3>6 DEF Checkout!Settings, Checkout!Terms
    <3>8. \A t \in Checkout!Terms : order.bound[t] \in asked[r].began[t] .. world[t]
      BY <3>1, <3>2, <3>7 DEF Checkout!Requoted, Checkout!Settings, Checkout!Terms
    <3> QED
      BY <3>1, <3>3, <3>4, <3>8
  <2>2. ASSUME NEW r \in Requests, Checkout!AddOrder(r)
        PROVE  Current
    <3>1. CASE order.state = "none"
      <4>1. order'.state = "PRE_AUTH"
        BY <2>2, <3>1 DEF Checkout!AddOrder, Checkout!NoOrder
      <4> QED
        BY <3>1, <4>1
    <3>2. CASE order.state # "none"
      BY <1>1, <2>2, <3>2 DEF Checkout!AddOrder
    <3> QED
      BY <3>1, <3>2
  <2>3. ASSUME Checkout!Review
        PROVE  Current
    <3>1. order' = [order EXCEPT !.state = "CART_REVIEWED"] /\ order.state = "AUTHED" /\ order \in Checkout!Order
      BY <1>0, <1>2, <2>3, CheckoutTerms DEF Checkout!Review
    <3> QED
      BY <3>1 DEF Checkout!Order
  <2> QED
    BY <1>1, <1>2, <2>1, <2>2, <2>3
    DEF Checkout!Next, Checkout!Quote, Checkout!Create, Checkout!PriceCart, Checkout!RateCart,
        Checkout!Authorise, Checkout!RepriceCart, Checkout!RerateCart, Checkout!Crash, Checkout!Change
<1>3. Spec /\ part = "checkout" => [][Current]_(Checkout!checkoutVars)
  BY <1>2, CheckoutInvariance, CheckoutRuns, PTL DEF Checkout!Spec
<1>4. ~(part = "checkout") /\ [Next]_allVars => UNCHANGED Checkout!checkoutVars
  BY DEF Next, EscrowNext, CheckoutNext, InvoiceNext, SyncNext, CartNext, LoginNext, StoresNext,
         PayoutsNext, KeptNext, TokensNext, allVars, checkoutVars, Checkout!checkoutVars
<1>5. Spec /\ ~(part = "checkout") => [][Current]_(Checkout!checkoutVars)
  BY <1>4, CheckoutRuns, PTL DEF Spec
<1>6. Spec => [][Current]_(Checkout!checkoutVars)
  BY <1>3, <1>5, PTL
<1> QED
  BY <1>6 DEF AuthedIsCurrent, Checkout!AuthedIsCurrent
-------------------------------------------------------------------------------
(* PayoutAccounts: one account is active, and one of the choices stands.   *)

LEMMA PayoutsTypes ==
    ASSUME Payouts!PayableInv
    PROVE  /\ MaxAccounts \in Nat /\ NoOne \notin {m1, m2} /\ Asks \subseteq Payouts!Body
           /\ Payouts!Blank \in Payouts!Body /\ Payouts!Ids = 1..MaxAccounts
           /\ accounts \in [Payouts!Ids -> Payouts!Rows] /\ lastAccount \in 0..MaxAccounts
           /\ put \in [Requests -> Payouts!Put]
           /\ \A r \in Requests : put[r] \in Payouts!Put /\ put[r].body \in Payouts!Body
           /\ Payouts!Vacant \in Payouts!Rows /\ ~Payouts!Vacant.active
<1>1. /\ MaxAccounts \in Nat /\ NoOne \notin {m1, m2} /\ Asks \subseteq Payouts!Body
      /\ Payouts!Ids = 1..MaxAccounts
  BY Constants DEF Payouts!PayoutConstants, Payouts!Ids
<1>2. Payouts!Blank \in Payouts!Body
  BY DEF Payouts!Blank, Payouts!Body
<1>3. /\ accounts \in [Payouts!Ids -> Payouts!Rows] /\ lastAccount \in 0..MaxAccounts
      /\ put \in [Requests -> Payouts!Put]
  BY DEF Payouts!PayableInv, Payouts!TypeOK
<1>4. \A r \in Requests : put[r].body \in Asks \cup {Payouts!Blank}
  BY <1>3 DEF Payouts!Put
<1>5. Payouts!Vacant \in Payouts!Rows /\ ~Payouts!Vacant.active
  BY DEF Payouts!Vacant, Payouts!Rows
<1> QED
  BY <1>1, <1>2, <1>3, <1>4, <1>5

\* What a PUT has done is about its own copies.
LEMMA PayoutsSame ==
    ASSUME NEW q, put'[q] = put[q], Payouts!Steps(q)
    PROVE  Payouts!Steps(q)'
<1>1. Payouts!Target(q)' = Payouts!Target(q) /\ Payouts!Chosen(q)' = Payouts!Chosen(q)
  BY DEF Payouts!Target, Payouts!Chosen
<1>2. Payouts!Active(put[q].copy)' = Payouts!Active(put[q].copy)
  BY DEF Payouts!Active
<1> QED
  BY <1>1, <1>2 DEF Payouts!Steps

\* A PUT goes on, and the committed rows stay.
LEMMA PayoutsMoves ==
    ASSUME Payouts!PayableInv, NEW r \in Requests, NEW k \in Payouts!Put,
           put' = [put EXCEPT ![r] = k], UNCHANGED <<accounts, provider, script>>,
           lastAccount' \in lastAccount .. MaxAccounts,
           \A i \in k.numbers \cup k.flags \cup k.gone : i <= lastAccount',
           k.body.delete <= lastAccount', k.added <= lastAccount',
           \A i, j \in {h \in k.flags : k.copy[h].active} : i = j,
           {h \in k.flags : k.copy[h].active} # {} =>
              /\ Payouts!Active(accounts) \subseteq k.flags \cup k.gone
              /\ \A q \in Requests \ {r} : Payouts!Chosen(q) = {},
           Payouts!Steps(r)'
    PROVE  Payouts!PayableInv'
<1>1. /\ put' \in [Requests -> Payouts!Put] /\ put'[r] = k
      /\ \A q \in Requests : q # r => put'[q] = put[q]
  BY PayoutsTypes
<1>2. Payouts!TypeOK'
  <2>1. lastAccount' \in 0..MaxAccounts
    BY PayoutsTypes
  <2> QED
    BY <1>1, <2>1 DEF Payouts!PayableInv, Payouts!TypeOK
<1>3. Payouts!LastIsLast'
  <2>1. /\ \A i \in Payouts!Ids : i > lastAccount => accounts[i] = Payouts!Vacant
        /\ \A q \in Requests : /\ \A i \in put[q].numbers \cup put[q].flags \cup put[q].gone : i <= lastAccount
                               /\ put[q].body.delete <= lastAccount /\ put[q].added <= lastAccount
    BY DEF Payouts!PayableInv, Payouts!LastIsLast, Payouts!Locked
  <2>2. \A i \in Payouts!Ids \cup {0} : i <= lastAccount => i <= lastAccount'
    BY PayoutsTypes
  <2>3. ASSUME NEW q \in Requests
        PROVE  /\ \A i \in put'[q].numbers \cup put'[q].flags \cup put'[q].gone : i <= lastAccount'
               /\ put'[q].body.delete <= lastAccount' /\ put'[q].added <= lastAccount'
    <3>1. CASE q = r
      BY <1>1, <3>1
    <3>2. CASE q # r
      <4>1. /\ put[q].numbers \cup put[q].flags \cup put[q].gone \subseteq Payouts!Ids \cup {0}
            /\ put[q].body.delete \in Payouts!Ids \cup {0} /\ put[q].added \in Payouts!Ids \cup {0}
        BY PayoutsTypes DEF Payouts!Put, Payouts!Body, Payouts!Brand
      <4> QED
        BY <1>1, <2>1, <2>2, <3>2, <4>1
    <3> QED
      BY <3>1, <3>2
  <2>4. \A i \in Payouts!Ids : i > lastAccount' => accounts[i] = Payouts!Vacant
    BY <2>1, PayoutsTypes
  <2> QED
    BY <2>3, <2>4 DEF Payouts!LastIsLast, Payouts!Locked, Payouts!Vacant
<1>4. Payouts!OneChosen'
  <2>1. \A q \in Requests : Payouts!Chosen(q)' = IF q = r THEN {h \in k.flags : k.copy[h].active}
                                                 ELSE Payouts!Chosen(q)
    BY <1>1 DEF Payouts!Chosen
  <2>2. Payouts!Active(accounts)' = Payouts!Active(accounts)
    BY DEF Payouts!Active
  <2> QED
    BY <1>1, <2>1, <2>2 DEF Payouts!PayableInv, Payouts!OneChosen
<1>5. ASSUME NEW q \in Requests, q # r PROVE Payouts!Steps(q)'
  <2>1. put'[q] = put[q] /\ Payouts!Steps(q)
    BY <1>1, <1>5 DEF Payouts!PayableInv
  <2> QED
    BY <2>1, PayoutsSame
<1> QED
  BY <1>2, <1>3, <1>4, <1>5 DEF Payouts!PayableInv

LEMMA PayoutsIdle ==
    ASSUME Payouts!PayableInv
    PROVE  /\ Payouts!Idle \in Payouts!Put /\ Payouts!Idle.pc = "idle" /\ Payouts!Idle.flags = {}
           /\ Payouts!Idle.gone = {} /\ Payouts!Idle.numbers = {} /\ Payouts!Idle.added = 0
           /\ Payouts!Idle.body = Payouts!Blank /\ Payouts!Blank.delete = 0
           /\ Payouts!Idle.copy = [i \in Payouts!Ids |-> Payouts!Vacant]
<1>1. [i \in Payouts!Ids |-> Payouts!Vacant] \in [Payouts!Ids -> Payouts!Rows]
  BY PayoutsTypes
<1>2. 0 \in 0..MaxAccounts
  BY PayoutsTypes
<1> QED
  BY <1>1, <1>2 DEF Payouts!Idle, Payouts!Put, Payouts!Blank, Payouts!Providers

\* A live row has an id that was given.
LEMMA PayoutsLive ==
    ASSUME Payouts!PayableInv, NEW i \in Payouts!Live(accounts)
    PROVE  i \in Payouts!Ids /\ i <= lastAccount
<1>1. i \in Payouts!Ids /\ accounts[i] # Payouts!Vacant
  BY DEF Payouts!Live
<1>2. ~(i > lastAccount)
  BY <1>1 DEF Payouts!PayableInv, Payouts!LastIsLast
<1> QED
  BY <1>1, <1>2, PayoutsTypes

\* What is known of a PUT before a step of its own.
LEMMA PayoutsKnown ==
    ASSUME Payouts!PayableInv, NEW r \in Requests
    PROVE  /\ put[r] \in Payouts!Put /\ put[r].copy \in [Payouts!Ids -> Payouts!Rows]
           /\ put[r].body \in Asks \cup {Payouts!Blank} /\ put[r].was \in Payouts!Providers
           /\ put[r].added \in 0..MaxAccounts /\ put[r].numbers \subseteq Payouts!Ids \cup {0}
           /\ put[r].flags \subseteq Payouts!Ids /\ put[r].gone \subseteq Payouts!Ids
           /\ \A i \in put[r].numbers \cup put[r].flags \cup put[r].gone : i <= lastAccount
           /\ put[r].body.delete <= lastAccount /\ put[r].added <= lastAccount
           /\ lastAccount \in lastAccount .. MaxAccounts
           /\ Payouts!Steps(r)
<1>1. put[r] \in Payouts!Put
  BY PayoutsTypes
<1>2. /\ \A i \in put[r].numbers \cup put[r].flags \cup put[r].gone : i <= lastAccount
      /\ put[r].body.delete <= lastAccount /\ put[r].added <= lastAccount /\ Payouts!Steps(r)
  BY DEF Payouts!PayableInv, Payouts!LastIsLast, Payouts!Locked
<1>3. lastAccount \in lastAccount .. MaxAccounts
  BY PayoutsTypes
<1> QED
  BY <1>1, <1>2, <1>3 DEF Payouts!Put, Payouts!Brand

\* The same, of a step that flags no row.
LEMMA PayoutsQuiet ==
    ASSUME Payouts!PayableInv, NEW r \in Requests, NEW k \in Payouts!Put,
           put' = [put EXCEPT ![r] = k], UNCHANGED <<accounts, provider, script>>,
           lastAccount' \in lastAccount .. MaxAccounts, k.flags = {},
           \A i \in k.numbers \cup k.gone : i <= lastAccount',
           k.body.delete <= lastAccount', k.added <= lastAccount',
           Payouts!Steps(r)'
    PROVE  Payouts!PayableInv'
<1>1. {h \in k.flags : k.copy[h].active} = {}
  OBVIOUS
<1>2. \A i \in k.numbers \cup k.flags \cup k.gone : i <= lastAccount'
  OBVIOUS
<1> QED
  BY <1>1, <1>2, PayoutsMoves

\* A PUT that has written nothing of its own yet: nothing is chosen.
LEMMA PayoutsBegin ==
    ASSUME Payouts!PayableInv, NEW r \in Requests, NEW b \in Asks, Payouts!Begin(r, b)
    PROVE  Payouts!PayableInv'
<1>0. /\ b \in Payouts!Body /\ put[r] = Payouts!Idle /\ UNCHANGED <<accounts, lastAccount, provider, script>>
      /\ {b.delete, b.edit} \subseteq Payouts!Live(accounts) \cup {0}
      /\ b.activate \in (Payouts!Live(accounts) \ {b.delete}) \cup {0, Payouts!New}
      /\ b.activate = Payouts!New => b.edit = 0 /\ b.account # NoOne
      /\ put' = [put EXCEPT ![r] = [Payouts!Idle EXCEPT !.pc = "deleting", !.body = b,
                                                        !.copy = accounts, !.was = provider]]
  BY PayoutsTypes DEF Payouts!Begin
<1>1. PICK k : k = [pc |-> "deleting", body |-> b, copy |-> accounts, was |-> provider, added |-> 0,
                    numbers |-> {}, flags |-> {}, gone |-> {}]
  OBVIOUS
<1>2. k \in Payouts!Put
  <2>1. 0 \in 0..MaxAccounts /\ provider \in Payouts!Providers
    BY PayoutsTypes DEF Payouts!PayableInv, Payouts!TypeOK
  <2> QED
    BY <1>1, <2>1, PayoutsTypes DEF Payouts!Put
<1>3. k = [Payouts!Idle EXCEPT !.pc = "deleting", !.body = b, !.copy = accounts, !.was = provider]
  <2>1. PICK f : f = [i \in Payouts!Ids |-> Payouts!Vacant]
    OBVIOUS
  <2>2. Payouts!Idle = [pc |-> "idle", body |-> Payouts!Blank, copy |-> f, was |-> "xendit",
                        added |-> 0, numbers |-> {}, flags |-> {}, gone |-> {}]
    BY <2>1 DEF Payouts!Idle
  <2>3. PICK p : p = [pc |-> "deleting", body |-> Payouts!Blank, copy |-> f, was |-> "xendit",
                      added |-> 0, numbers |-> {}, flags |-> {}, gone |-> {}]
    OBVIOUS
  <2>4. PICK d : d = [pc |-> "deleting", body |-> b, copy |-> f, was |-> "xendit", added |-> 0,
                      numbers |-> {}, flags |-> {}, gone |-> {}]
    OBVIOUS
  <2>5. PICK c : c = [pc |-> "deleting", body |-> b, copy |-> accounts, was |-> "xendit", added |-> 0,
                      numbers |-> {}, flags |-> {}, gone |-> {}]
    OBVIOUS
  <2>6. p = [Payouts!Idle EXCEPT !.pc = "deleting"]
    BY <2>2, <2>3
  <2>7. d = [p EXCEPT !.body = b]
    BY <2>3, <2>4
  <2>8. c = [d EXCEPT !.copy = accounts]
    BY <2>4, <2>5
  <2>9. k = [c EXCEPT !.was = provider]
    BY <1>1, <2>5
  <2> QED
    BY <2>6, <2>7, <2>8, <2>9
<1>4. put' = [put EXCEPT ![r] = k] /\ put'[r] = k
  BY <1>0, <1>3, PayoutsTypes
<1>5. b.delete <= lastAccount /\ 0 <= lastAccount
  BY <1>0, PayoutsLive, PayoutsTypes
<1>6. \A i, j \in Payouts!Active(accounts) : i = j
  BY DEF Payouts!PayableInv, Payouts!OneChosen
<1>7. b.activate \in Payouts!Ids \cup {0, Payouts!New} /\ (b.activate # 0 => b.activate # b.delete)
  <2>1. b.activate \in Payouts!Ids \cup {0, Payouts!New} /\ b.delete \in Payouts!Ids \cup {0}
    BY <1>0 DEF Payouts!Body
  <2>2. Payouts!New \notin Payouts!Ids \cup {0}
    BY PayoutsTypes DEF Payouts!New
  <2> QED
    BY <1>0, <2>1, <2>2
<1>8. Payouts!Steps(r)'
  <2>1. /\ k.pc = "deleting" /\ k.body = b /\ k.copy = accounts /\ k.flags = {} /\ k.gone = {}
        /\ k.numbers = {}
    BY <1>1
  <2> QED
    BY <1>0, <1>4, <1>6, <1>7, <2>1 DEF Payouts!Steps, Payouts!Chosen, Payouts!Active
<1>9. lastAccount' \in lastAccount .. MaxAccounts /\ b.delete <= lastAccount' /\ 0 <= lastAccount'
  BY <1>0, <1>5, PayoutsKnown
<1>10. k.flags = {} /\ k.numbers \cup k.gone = {} /\ k.body = b /\ k.added = 0
  BY <1>1
<1> QED
  BY <1>0, <1>2, <1>4, <1>8, <1>9, <1>10, PayoutsQuiet

LEMMA PayoutsDelete ==
    ASSUME Payouts!PayableInv, NEW r \in Requests, Payouts!DeleteRow(r)
    PROVE  Payouts!PayableInv'
<1>1. PICK d : d = {put[r].body.delete} \ {0}
  OBVIOUS
<1>2. PICK c : c = [i \in Payouts!Ids |-> IF i \in d THEN Payouts!Vacant ELSE put[r].copy[i]]
  OBVIOUS
<1>3. /\ put[r].pc = "deleting" /\ UNCHANGED <<accounts, lastAccount, provider, script>>
      /\ put' = [put EXCEPT ![r] = [put[r] EXCEPT !.pc = "writing", !.gone = d, !.copy = c]]
  BY <1>1, <1>2 DEF Payouts!DeleteRow, Payouts!Goes
<1>4. PICK k : k = [put[r] EXCEPT !.pc = "writing", !.gone = d, !.copy = c]
  OBVIOUS
<1>5. c \in [Payouts!Ids -> Payouts!Rows] /\ \A i \in Payouts!Ids : c[i].active => put[r].copy[i].active
  BY <1>2, PayoutsTypes, PayoutsKnown
<1>6. d \subseteq Payouts!Ids
  BY <1>1, PayoutsTypes DEF Payouts!Body
<1>7. /\ k \in Payouts!Put /\ k.pc = "writing" /\ k.body = put[r].body /\ k.copy = c
      /\ k.added = put[r].added /\ k.numbers = put[r].numbers /\ k.flags = put[r].flags /\ k.gone = d
  <2>1. PICK p : p = put[r]
    OBVIOUS
  <2>2. p \in Payouts!Put
    BY <2>1, PayoutsTypes
  <2> QED
    BY <1>4, <1>5, <1>6, <2>1, <2>2 DEF Payouts!Put
<1>8. put' = [put EXCEPT ![r] = k] /\ put'[r] = k
  BY <1>3, <1>4, PayoutsTypes
<1>9. /\ put[r].flags = {} /\ (\A i, j \in Payouts!Active(put[r].copy) : i = j)
      /\ put[r].body.activate \in Payouts!Ids \cup {0, Payouts!New}
      /\ put[r].body.activate # 0 => put[r].body.activate # put[r].body.delete
      /\ put[r].body.activate = Payouts!New => put[r].body.edit = 0 /\ put[r].body.account # NoOne
      /\ Payouts!Brand \in put[r].numbers => put[r].body.provider \in Payouts!Providers
  BY <1>3, PayoutsKnown DEF Payouts!Steps
<1>10. Payouts!Steps(r)'
  BY <1>1, <1>5, <1>7, <1>8, <1>9 DEF Payouts!Steps, Payouts!Chosen, Payouts!Active
<1>11. /\ lastAccount' \in lastAccount .. MaxAccounts /\ k.body.delete <= lastAccount'
       /\ k.added <= lastAccount' /\ k.flags = {}
       /\ \A i \in k.numbers \cup k.gone : i <= lastAccount'
  BY <1>1, <1>3, <1>7, <1>9, PayoutsKnown
<1> QED
  BY <1>3, <1>7, <1>8, <1>10, <1>11, PayoutsQuiet

LEMMA PayoutsEdit ==
    ASSUME Payouts!PayableInv, NEW r \in Requests, Payouts!EditRow(r)
    PROVE  Payouts!PayableInv'
<1>1. PICK e : e = {i \in {put[r].body.edit} \ {0} :
                       put[r].body.account \notin {NoOne, put[r].copy[i].account}}
  OBVIOUS
<1>2. PICK c : c = [i \in Payouts!Ids |-> IF i \in e
                                          THEN [put[r].copy[i] EXCEPT !.account = put[r].body.account]
                                          ELSE put[r].copy[i]]
  OBVIOUS
<1>3. /\ put[r].pc = "writing" /\ UNCHANGED <<accounts, lastAccount, provider, script>>
      /\ put' = [put EXCEPT ![r] = [put[r] EXCEPT !.pc = "clearing", !.numbers = e, !.copy = c]]
      /\ e \subseteq Payouts!Live(accounts) /\ (put[r].body.edit # 0 \/ put[r].body.account = NoOne)
  BY <1>1, <1>2 DEF Payouts!EditRow, Payouts!Goes
<1>4. PICK k : k = [put[r] EXCEPT !.pc = "clearing", !.numbers = e, !.copy = c]
  OBVIOUS
<1>5. c \in [Payouts!Ids -> Payouts!Rows] /\ \A i \in Payouts!Ids : c[i].active <=> put[r].copy[i].active
  <2>1. put[r].body.account \in {m1, m2} \cup {NoOne}
    BY PayoutsTypes DEF Payouts!Body
  <2>2. ASSUME NEW i \in Payouts!Ids
        PROVE  c[i] \in Payouts!Rows /\ (c[i].active <=> put[r].copy[i].active)
    <3>1. put[r].copy[i] \in Payouts!Rows /\ (c[i] = put[r].copy[i] \/
             c[i] = [put[r].copy[i] EXCEPT !.account = put[r].body.account])
      BY <1>2, PayoutsKnown
    <3> QED
      BY <2>1, <3>1 DEF Payouts!Rows
  <2> QED
    BY <1>2, <2>2
<1>6. e \subseteq Payouts!Ids /\ \A i \in e : i <= lastAccount
  BY <1>3, PayoutsLive
<1>7. /\ k \in Payouts!Put /\ k.pc = "clearing" /\ k.body = put[r].body /\ k.copy = c
      /\ k.added = put[r].added /\ k.numbers = e /\ k.flags = put[r].flags /\ k.gone = put[r].gone
  <2>1. PICK p : p = put[r]
    OBVIOUS
  <2>2. p \in Payouts!Put
    BY <2>1, PayoutsTypes
  <2> QED
    BY <1>4, <1>5, <1>6, <2>1, <2>2 DEF Payouts!Put
<1>8. put' = [put EXCEPT ![r] = k] /\ put'[r] = k
  BY <1>3, <1>4, PayoutsTypes
<1>9. /\ put[r].flags = {} /\ (\A i, j \in Payouts!Active(put[r].copy) : i = j)
      /\ put[r].body.activate \in Payouts!Ids \cup {0}
      /\ put[r].body.activate # Payouts!New /\ put[r].body.activate \notin put[r].gone
  <2>1. 0 \notin put[r].gone
    BY PayoutsKnown, PayoutsTypes
  <2> QED
    BY <1>3, <2>1, PayoutsKnown DEF Payouts!Steps
<1>10. Payouts!Steps(r)'
  <2>1. Payouts!Brand \notin e
    BY <1>6, PayoutsTypes DEF Payouts!Brand
  <2> QED
    BY <1>5, <1>7, <1>8, <1>9, <2>1 DEF Payouts!Steps, Payouts!Chosen, Payouts!Active, Payouts!Target
<1>11. /\ lastAccount' \in lastAccount .. MaxAccounts /\ k.body.delete <= lastAccount'
       /\ k.added <= lastAccount' /\ k.flags = {}
       /\ \A i \in k.numbers \cup k.gone : i <= lastAccount'
  BY <1>3, <1>6, <1>7, <1>9, PayoutsKnown
<1> QED
  BY <1>3, <1>7, <1>8, <1>10, <1>11, PayoutsQuiet

LEMMA PayoutsAdd ==
    ASSUME Payouts!PayableInv, NEW r \in Requests, Payouts!AddRow(r)
    PROVE  Payouts!PayableInv'
<1>1. PICK n : n = lastAccount + 1
  OBVIOUS
<1>2. PICK c : c = [put[r].copy EXCEPT ![n] = [account |-> put[r].body.account, active |-> FALSE]]
  OBVIOUS
<1>3. /\ put[r].pc = "writing" /\ UNCHANGED <<accounts, provider, script>>
      /\ lastAccount' = n /\ lastAccount < MaxAccounts
      /\ put[r].body.edit = 0 /\ put[r].body.account # NoOne
      /\ put' = [put EXCEPT ![r] = [put[r] EXCEPT !.pc = "clearing", !.added = n, !.numbers = {n},
                                                  !.copy = c]]
  BY <1>1, <1>2 DEF Payouts!AddRow, Payouts!Goes
<1>4. PICK k : k = [put[r] EXCEPT !.pc = "clearing", !.added = n, !.numbers = {n}, !.copy = c]
  OBVIOUS
<1>5. n \in Payouts!Ids /\ n \in 0..MaxAccounts /\ lastAccount' \in lastAccount .. MaxAccounts
  BY <1>1, <1>3, PayoutsTypes
<1>6. c \in [Payouts!Ids -> Payouts!Rows] /\ \A i \in Payouts!Ids : c[i].active => put[r].copy[i].active
  <2>1. put[r].body.account \in {m1, m2} \cup {NoOne}
    BY PayoutsTypes DEF Payouts!Body
  <2>2. [account |-> put[r].body.account, active |-> FALSE] \in Payouts!Rows
    BY <2>1 DEF Payouts!Rows
  <2> QED
    BY <1>2, <1>5, <2>2, PayoutsKnown
<1>7. /\ k \in Payouts!Put /\ k.pc = "clearing" /\ k.body = put[r].body /\ k.copy = c
      /\ k.added = n /\ k.numbers = {n} /\ k.flags = put[r].flags /\ k.gone = put[r].gone
  <2>1. PICK p : p = put[r]
    OBVIOUS
  <2>2. p \in Payouts!Put
    BY <2>1, PayoutsTypes
  <2> QED
    BY <1>4, <1>5, <1>6, <2>1, <2>2 DEF Payouts!Put
<1>8. put' = [put EXCEPT ![r] = k] /\ put'[r] = k
  BY <1>3, <1>4, PayoutsTypes
<1>9. /\ put[r].flags = {} /\ (\A i, j \in Payouts!Active(put[r].copy) : i = j)
      /\ put[r].body.activate \in Payouts!Ids \cup {0, Payouts!New}
      /\ put[r].body.activate # Payouts!New => put[r].body.activate \notin put[r].gone
  <2>1. 0 \notin put[r].gone
    BY PayoutsKnown, PayoutsTypes
  <2> QED
    BY <1>3, <2>1, PayoutsKnown DEF Payouts!Steps
<1>10. n \notin put[r].gone
  BY <1>1, PayoutsKnown, PayoutsTypes
<1>11. Payouts!Steps(r)'
  <2>1. Payouts!Brand \notin {n}
    BY <1>5, PayoutsTypes DEF Payouts!Brand
  <2> QED
    BY <1>5, <1>6, <1>7, <1>8, <1>9, <1>10, <2>1
    DEF Payouts!Steps, Payouts!Chosen, Payouts!Active, Payouts!Target
<1>12. /\ k.body.delete <= lastAccount' /\ k.added <= lastAccount' /\ k.flags = {}
       /\ \A i \in k.numbers \cup k.gone : i <= lastAccount'
  <2>1. \A i \in Payouts!Ids \cup {0} : i <= lastAccount => i <= n
    BY <1>1, PayoutsTypes
  <2>2. put[r].body.delete \in Payouts!Ids \cup {0} /\ put[r].body.delete <= lastAccount
        /\ n <= n /\ put[r].gone \subseteq Payouts!Ids
        /\ \A i \in put[r].gone : i <= lastAccount
    BY <1>5, PayoutsTypes, PayoutsKnown DEF Payouts!Body
  <2> QED
    BY <1>3, <1>7, <1>9, <2>1, <2>2
<1> QED
  BY <1>3, <1>5, <1>7, <1>8, <1>11, <1>12, PayoutsQuiet

LEMMA PayoutsClear ==
    ASSUME Payouts!PayableInv, NEW r \in Requests, Payouts!ClearOthers(r)
    PROVE  Payouts!PayableInv'
<1>1. PICK o : o = IF Payouts!Target(r) = 0 THEN {}
                   ELSE Payouts!Active(put[r].copy) \ {Payouts!Target(r)}
  OBVIOUS
<1>2. PICK c : c = [i \in Payouts!Ids |-> IF i \in o THEN [put[r].copy[i] EXCEPT !.active = FALSE]
                                          ELSE put[r].copy[i]]
  OBVIOUS
<1>3. /\ put[r].pc = "clearing" /\ UNCHANGED <<accounts, lastAccount, provider, script>>
      /\ put' = [put EXCEPT ![r] = [put[r] EXCEPT !.pc = "activating", !.flags = o, !.copy = c]]
      /\ o \subseteq Payouts!Live(accounts)
  BY <1>1, <1>2 DEF Payouts!ClearOthers, Payouts!Goes
<1>4. PICK k : k = [put[r] EXCEPT !.pc = "activating", !.flags = o, !.copy = c]
  OBVIOUS
<1>5. /\ c \in [Payouts!Ids -> Payouts!Rows]
      /\ \A i \in Payouts!Ids : c[i].active => put[r].copy[i].active
      /\ \A i \in o : i \in Payouts!Ids => ~c[i].active
  <2>1. put[r].copy \in [Payouts!Ids -> Payouts!Rows]
    BY PayoutsKnown
  <2>2. ASSUME NEW i \in Payouts!Ids
        PROVE  /\ c[i] \in Payouts!Rows
               /\ c[i].active => put[r].copy[i].active
               /\ i \in o => ~c[i].active
    <3>1. CASE i \in o
      <4>1. c[i] = [put[r].copy[i] EXCEPT !.active = FALSE] /\ put[r].copy[i] \in Payouts!Rows
        BY <1>2, <2>1, <3>1
      <4> QED
        BY <4>1 DEF Payouts!Rows
    <3>2. CASE i \notin o
      BY <1>2, <2>1, <3>2
    <3> QED
      BY <3>1, <3>2
  <2>3. c \in [Payouts!Ids -> Payouts!Rows]
    <3>1. \A i \in Payouts!Ids : c[i] \in Payouts!Rows
      BY <2>2
    <3> QED
      BY <1>2, <3>1
  <2> QED
    BY <2>2, <2>3
<1>6. o \subseteq Payouts!Ids /\ \A i \in o : i <= lastAccount
  BY <1>3, PayoutsLive
<1>7. /\ k \in Payouts!Put /\ k.pc = "activating" /\ k.body = put[r].body /\ k.copy = c
      /\ k.added = put[r].added /\ k.numbers = put[r].numbers /\ k.flags = o /\ k.gone = put[r].gone
  <2>1. PICK p : p = put[r]
    OBVIOUS
  <2>2. p \in Payouts!Put
    BY <2>1, PayoutsTypes
  <2> QED
    BY <1>4, <1>5, <1>6, <2>1, <2>2 DEF Payouts!Put
<1>8. put' = [put EXCEPT ![r] = k] /\ put'[r] = k
  BY <1>3, <1>4, PayoutsTypes
<1>9. /\ \A i, j \in Payouts!Active(put[r].copy) : i = j
      /\ Payouts!Target(r) \in Payouts!Ids \cup {0} /\ Payouts!Target(r) \notin put[r].gone
      /\ Payouts!Brand \in put[r].numbers => put[r].body.provider \in Payouts!Providers
  BY <1>3, PayoutsKnown DEF Payouts!Steps
<1>10. Payouts!Target(r)' = Payouts!Target(r)
  BY <1>7, <1>8 DEF Payouts!Target
<1>11. o # {} => Payouts!Target(r) # 0 /\ Payouts!Target(r) \notin Payouts!Active(c)
  BY <1>1, <1>5, <1>9 DEF Payouts!Active
<1>12. {h \in k.flags : k.copy[h].active} = {} /\ Payouts!Chosen(r)' = {}
  BY <1>5, <1>6, <1>7, <1>8 DEF Payouts!Chosen
<1>13. Payouts!Steps(r)'
  <2>1. \A i, j \in Payouts!Active(c) : i = j
    BY <1>5, <1>9 DEF Payouts!Active
  <2>2. Payouts!Active(put'[r].copy) = Payouts!Active(c)
    BY <1>7, <1>8
  <2> QED
    BY <1>7, <1>8, <1>9, <1>10, <1>11, <1>12, <2>1, <2>2 DEF Payouts!Steps, Payouts!Active
<1>14. /\ lastAccount' \in lastAccount .. MaxAccounts /\ k.body.delete <= lastAccount'
       /\ k.added <= lastAccount'
       /\ \A i \in k.numbers \cup k.flags \cup k.gone : i <= lastAccount'
  BY <1>3, <1>6, <1>7, PayoutsKnown
<1> QED
  BY <1>3, <1>7, <1>8, <1>12, <1>13, <1>14, PayoutsMoves

LEMMA PayoutsActivate ==
    ASSUME Payouts!PayableInv, NEW r \in Requests, Payouts!Activate(r)
    PROVE  Payouts!PayableInv'
<1>1. PICK t : t = {Payouts!Target(r)} \ ({0} \cup Payouts!Active(put[r].copy))
  OBVIOUS
<1>2. PICK c : c = [i \in Payouts!Ids |-> IF i \in t THEN [put[r].copy[i] EXCEPT !.active = TRUE]
                                          ELSE put[r].copy[i]]
  OBVIOUS
<1>3. PICK s : s = put[r].flags \cup t
  OBVIOUS
<1>4. /\ put[r].pc = "activating" /\ UNCHANGED <<accounts, lastAccount, provider, script>>
      /\ put' = [put EXCEPT ![r] = [put[r] EXCEPT !.pc = "checking", !.flags = s, !.copy = c]]
      /\ t \subseteq Payouts!Live(accounts) \cup {put[r].added}
      /\ t # {} => Payouts!IndexLets(r)
  BY <1>1, <1>2, <1>3 DEF Payouts!Activate, Payouts!Goes
<1>5. PICK k : k = [put[r] EXCEPT !.pc = "checking", !.flags = s, !.copy = c]
  OBVIOUS
<1>6. /\ Payouts!Target(r) \in Payouts!Ids \cup {0} /\ Payouts!Target(r) \notin put[r].gone
      /\ Payouts!Brand \in put[r].numbers => put[r].body.provider \in Payouts!Providers
      /\ Payouts!Chosen(r) = {}
      /\ put[r].flags # {} => /\ Payouts!Target(r) # 0
                              /\ Payouts!Target(r) \notin Payouts!Active(put[r].copy)
  BY <1>4, PayoutsKnown DEF Payouts!Steps
<1>7. t \subseteq Payouts!Ids /\ s \subseteq Payouts!Ids /\ \A i \in s : i <= lastAccount
  <2>1. t \subseteq Payouts!Ids
    BY <1>1, <1>6
  <2>2. \A i \in t : i <= lastAccount
    BY <1>4, PayoutsLive, PayoutsKnown
  <2> QED
    BY <1>3, <2>1, <2>2, PayoutsKnown
<1>8. /\ c \in [Payouts!Ids -> Payouts!Rows]
      /\ \A i \in Payouts!Ids : c[i].active <=> i \in t \/ put[r].copy[i].active
  <2>1. put[r].copy \in [Payouts!Ids -> Payouts!Rows]
    BY PayoutsKnown
  <2>2. ASSUME NEW i \in Payouts!Ids
        PROVE  c[i] \in Payouts!Rows /\ (c[i].active <=> i \in t \/ put[r].copy[i].active)
    <3>1. CASE i \in t
      <4>1. c[i] = [put[r].copy[i] EXCEPT !.active = TRUE] /\ put[r].copy[i] \in Payouts!Rows
        BY <1>2, <2>1, <3>1
      <4> QED
        BY <3>1, <4>1 DEF Payouts!Rows
    <3>2. CASE i \notin t
      BY <1>2, <2>1, <3>2
    <3> QED
      BY <3>1, <3>2
  <2> QED
    BY <1>2, <2>2
<1>9. /\ k \in Payouts!Put /\ k.pc = "checking" /\ k.body = put[r].body /\ k.copy = c
      /\ k.added = put[r].added /\ k.numbers = put[r].numbers /\ k.flags = s /\ k.gone = put[r].gone
  <2>1. PICK p : p = put[r]
    OBVIOUS
  <2>2. p \in Payouts!Put
    BY <2>1, PayoutsTypes
  <2> QED
    BY <1>5, <1>7, <1>8, <2>1, <2>2 DEF Payouts!Put
<1>10. put' = [put EXCEPT ![r] = k] /\ put'[r] = k
  BY <1>4, <1>5, PayoutsTypes
<1>11. {h \in s : c[h].active} = t
  <2>1. \A h \in put[r].flags : ~put[r].copy[h].active
    BY <1>6 DEF Payouts!Chosen
  <2> QED
    BY <1>3, <1>7, <1>8, <2>1
<1>12. Payouts!Chosen(r)' = t
  BY <1>9, <1>10, <1>11 DEF Payouts!Chosen
<1>13. t \cap put[r].gone = {} /\ (s # {} => t # {})
  BY <1>1, <1>3, <1>6
<1>14. Payouts!Steps(r)'
  BY <1>9, <1>10, <1>6, <1>12, <1>13 DEF Payouts!Steps
<1>15. t # {} => /\ Payouts!Active(accounts) \subseteq s \cup put[r].gone
                /\ \A q \in Requests \ {r} : Payouts!Chosen(q) = {}
  <2>1. \A q \in Requests : Payouts!Chosen(q) \subseteq Payouts!Pending(q)
    BY DEF Payouts!Chosen, Payouts!Pending
  <2> QED
    BY <1>3, <1>4, <2>1 DEF Payouts!IndexLets
<1>16. /\ lastAccount' \in lastAccount .. MaxAccounts /\ k.body.delete <= lastAccount'
       /\ k.added <= lastAccount'
       /\ \A i \in k.numbers \cup k.flags \cup k.gone : i <= lastAccount'
  BY <1>4, <1>7, <1>9, PayoutsKnown
<1>17. /\ \A i, j \in {h \in k.flags : k.copy[h].active} : i = j
       /\ {h \in k.flags : k.copy[h].active} # {} =>
             /\ Payouts!Active(accounts) \subseteq k.flags \cup k.gone
             /\ \A q \in Requests \ {r} : Payouts!Chosen(q) = {}
  BY <1>1, <1>9, <1>11, <1>15
<1> QED
  BY <1>4, <1>9, <1>10, <1>14, <1>16, <1>17, PayoutsMoves

LEMMA PayoutsProvider ==
    ASSUME Payouts!PayableInv, NEW r \in Requests, Payouts!ChooseProvider(r)
    PROVE  Payouts!PayableInv'
<1>1. PICK s : s = IF put[r].body.provider \in {"same", put[r].was} THEN put[r].numbers
                   ELSE put[r].numbers \cup {Payouts!Brand}
  OBVIOUS
<1>2. /\ put[r].pc = "checking" /\ UNCHANGED <<accounts, lastAccount, provider, script>>
      /\ put' = [put EXCEPT ![r] = [put[r] EXCEPT !.pc = "committing", !.numbers = s]]
  BY <1>1 DEF Payouts!ChooseProvider, Payouts!Goes
<1>3. PICK k : k = [put[r] EXCEPT !.pc = "committing", !.numbers = s]
  OBVIOUS
<1>4. s \subseteq Payouts!Ids \cup {Payouts!Brand} /\ \A i \in s : i <= lastAccount
  <2>1. Payouts!Brand = 0 /\ 0 <= lastAccount
    BY PayoutsTypes DEF Payouts!Brand
  <2> QED
    BY <1>1, <2>1, PayoutsKnown
<1>5. /\ k \in Payouts!Put /\ k.pc = "committing" /\ k.body = put[r].body /\ k.copy = put[r].copy
      /\ k.added = put[r].added /\ k.numbers = s /\ k.flags = put[r].flags /\ k.gone = put[r].gone
  <2>1. PICK p : p = put[r]
    OBVIOUS
  <2>2. p \in Payouts!Put
    BY <2>1, PayoutsTypes
  <2> QED
    BY <1>3, <1>4, <2>1, <2>2 DEF Payouts!Put
<1>6. put' = [put EXCEPT ![r] = k] /\ put'[r] = k
  BY <1>2, <1>3, PayoutsTypes
<1>7. Payouts!Chosen(r) = {h \in k.flags : k.copy[h].active} /\ Payouts!Chosen(r)' = Payouts!Chosen(r)
  BY <1>5, <1>6 DEF Payouts!Chosen
<1>8. Payouts!Brand \in s => put[r].body.provider \in Payouts!Providers
  <2>1. Payouts!Brand \in put[r].numbers => put[r].body.provider \in Payouts!Providers
    BY PayoutsKnown DEF Payouts!Steps
  <2>2. put[r].body.provider \in Payouts!Providers \cup {"same"}
    BY PayoutsTypes DEF Payouts!Body
  <2> QED
    BY <1>1, <2>1, <2>2
<1>9. Payouts!Steps(r)'
  <2>1. /\ put[r].flags # {} => Payouts!Chosen(r) # {}
        /\ Payouts!Chosen(r) \cap put[r].gone = {}
    BY <1>2, PayoutsKnown DEF Payouts!Steps
  <2> QED
    BY <1>5, <1>6, <1>7, <1>8, <2>1 DEF Payouts!Steps
<1>10. /\ \A i, j \in Payouts!Chosen(r) : i = j
       /\ Payouts!Chosen(r) # {} =>
             /\ Payouts!Active(accounts) \subseteq put[r].flags \cup put[r].gone
             /\ \A q \in Requests \ {r} : Payouts!Chosen(q) = {}
  BY DEF Payouts!PayableInv, Payouts!OneChosen
<1>11. /\ lastAccount' \in lastAccount .. MaxAccounts /\ k.body.delete <= lastAccount'
       /\ k.added <= lastAccount'
       /\ \A i \in k.numbers \cup k.flags \cup k.gone : i <= lastAccount'
  BY <1>2, <1>4, <1>5, PayoutsKnown
<1>12. /\ \A i, j \in {h \in k.flags : k.copy[h].active} : i = j
       /\ {h \in k.flags : k.copy[h].active} # {} =>
             /\ Payouts!Active(accounts) \subseteq k.flags \cup k.gone
             /\ \A q \in Requests \ {r} : Payouts!Chosen(q) = {}
  BY <1>5, <1>7, <1>10
<1> QED
  BY <1>2, <1>5, <1>6, <1>9, <1>11, <1>12, PayoutsMoves

LEMMA PayoutsFail ==
    ASSUME Payouts!PayableInv, NEW r \in Requests, Payouts!Fail(r)
    PROVE  Payouts!PayableInv'
<1>1. UNCHANGED <<accounts, lastAccount, provider, script>> /\ put' = [put EXCEPT ![r] = Payouts!Idle]
  BY DEF Payouts!Fail
<1>2. put'[r] = Payouts!Idle /\ 0 <= lastAccount
  BY <1>1, PayoutsTypes
<1>3. Payouts!Steps(r)'
  <2>1. /\ put'[r].pc = "idle" /\ put'[r].flags = {} /\ put'[r].gone = {} /\ put'[r].numbers = {}
    BY <1>2, PayoutsIdle
  <2>2. \A i \in Payouts!Ids : put'[r].copy[i] = Payouts!Vacant
    BY <1>2, PayoutsIdle
  <2>3. Payouts!Active(put'[r].copy) = {}
    BY <2>2, PayoutsTypes DEF Payouts!Active
  <2> QED
    BY <2>1, <2>3 DEF Payouts!Steps, Payouts!Chosen, Payouts!Active
<1>4. lastAccount' \in lastAccount .. MaxAccounts
  BY <1>1, PayoutsKnown
<1> QED
  BY <1>1, <1>2, <1>3, <1>4, PayoutsIdle, PayoutsQuiet

\* What is active once a PUT has committed.
LEMMA PayoutsCommitted ==
    ASSUME Payouts!PayableInv, NEW r \in Requests, Payouts!Commit(r)
    PROVE  /\ put' = [put EXCEPT ![r] = Payouts!Idle] /\ put[r].pc = "committing"
           /\ UNCHANGED <<lastAccount, script>>
           /\ provider' = IF Payouts!Brand \in put[r].numbers THEN put[r].body.provider ELSE provider
           /\ accounts' \in [Payouts!Ids -> Payouts!Rows]
           /\ \A i \in Payouts!Ids :
                 /\ i > lastAccount => accounts'[i] = Payouts!Vacant
                 /\ i \in put[r].gone => accounts'[i] = Payouts!Vacant
                 /\ accounts'[i].active <=>
                       /\ i \notin put[r].gone
                       /\ IF i \in put[r].flags THEN put[r].copy[i].active ELSE accounts[i].active
<1>1. /\ put' = [put EXCEPT ![r] = Payouts!Idle] /\ put[r].pc = "committing"
      /\ UNCHANGED <<lastAccount, script>>
      /\ provider' = IF Payouts!Brand \in put[r].numbers THEN put[r].body.provider ELSE provider
      /\ accounts' = [i \in Payouts!Ids |->
             IF i \in put[r].gone THEN Payouts!Vacant
             ELSE [account |-> (IF i \in put[r].numbers THEN put[r].copy ELSE accounts)[i].account,
                   active  |-> (IF i \in put[r].flags THEN put[r].copy ELSE accounts)[i].active]]
  BY DEF Payouts!Commit, Payouts!Goes
<1>2. ASSUME NEW i \in Payouts!Ids
      PROVE  /\ accounts'[i] \in Payouts!Rows
             /\ i > lastAccount => accounts'[i] = Payouts!Vacant
             /\ i \in put[r].gone => accounts'[i] = Payouts!Vacant
             /\ accounts'[i].active <=>
                   /\ i \notin put[r].gone
                   /\ IF i \in put[r].flags THEN put[r].copy[i].active ELSE accounts[i].active
  <2>1. put[r].copy[i] \in Payouts!Rows /\ accounts[i] \in Payouts!Rows
    BY PayoutsKnown, PayoutsTypes
  <2>2. i > lastAccount => i \notin put[r].numbers \cup put[r].flags \cup put[r].gone
    BY PayoutsKnown, PayoutsTypes
  <2>3. i > lastAccount => accounts[i] = Payouts!Vacant
    BY DEF Payouts!PayableInv, Payouts!LastIsLast
  <2>4. CASE i \in put[r].gone
    <3>1. accounts'[i] = Payouts!Vacant
      BY <1>1, <2>4
    <3> QED
      BY <2>4, <3>1, PayoutsTypes
  <2>5. CASE i \notin put[r].gone
    <3>1. PICK a : a = (IF i \in put[r].numbers THEN put[r].copy[i] ELSE accounts[i]).account
      OBVIOUS
    <3>2. PICK f : f = (IF i \in put[r].flags THEN put[r].copy[i] ELSE accounts[i]).active
      OBVIOUS
    <3>3. accounts'[i] = [account |-> a, active |-> f]
      BY <1>1, <2>5, <3>1, <3>2
    <3>4. [account |-> a, active |-> f] \in Payouts!Rows
      BY <2>1, <3>1, <3>2 DEF Payouts!Rows
    <3>5. i > lastAccount => [account |-> a, active |-> f] = Payouts!Vacant
      BY <2>2, <2>3, <3>1, <3>2 DEF Payouts!Vacant
    <3>6. f <=> IF i \in put[r].flags THEN put[r].copy[i].active ELSE accounts[i].active
      BY <3>2
    <3>7. accounts'[i].active = f
      BY <3>3
    <3> QED
      BY <2>5, <3>3, <3>4, <3>5, <3>6, <3>7
  <2> QED
    BY <2>4, <2>5
<1>3. accounts' \in [Payouts!Ids -> Payouts!Rows]
  BY <1>1, <1>2
<1> QED
  BY <1>1, <1>2, <1>3

LEMMA PayoutsCommit ==
    ASSUME Payouts!PayableInv, NEW r \in Requests, Payouts!Commit(r)
    PROVE  Payouts!PayableInv'
<1>1. /\ put' = [put EXCEPT ![r] = Payouts!Idle] /\ put[r].pc = "committing"
      /\ UNCHANGED <<lastAccount, script>>
      /\ provider' = IF Payouts!Brand \in put[r].numbers THEN put[r].body.provider ELSE provider
      /\ accounts' \in [Payouts!Ids -> Payouts!Rows]
      /\ \A i \in Payouts!Ids : i > lastAccount => accounts'[i] = Payouts!Vacant
  BY PayoutsCommitted
<1>2. /\ put' \in [Requests -> Payouts!Put] /\ put'[r] = Payouts!Idle
      /\ \A q \in Requests : q # r => put'[q] = put[q]
  BY <1>1, PayoutsIdle, PayoutsTypes
<1>3. Payouts!TypeOK'
  <2>1. provider' \in Payouts!Providers
    BY <1>1, PayoutsKnown DEF Payouts!Steps, Payouts!PayableInv, Payouts!TypeOK
  <2>2. script' \in Payouts!Providers \cup {"idle"} /\ lastAccount' \in 0..MaxAccounts
    BY <1>1 DEF Payouts!PayableInv, Payouts!TypeOK
  <2> QED
    BY <1>1, <1>2, <2>1, <2>2 DEF Payouts!TypeOK
<1>4. Payouts!LastIsLast'
  <2>1. 0 <= lastAccount
    BY PayoutsTypes
  <2>2. ASSUME NEW q \in Requests
        PROVE  /\ \A i \in put'[q].numbers \cup put'[q].flags \cup put'[q].gone : i <= lastAccount
               /\ put'[q].body.delete <= lastAccount /\ put'[q].added <= lastAccount
    <3>1. CASE q = r
      BY <1>2, <2>1, <3>1, PayoutsIdle
    <3>2. CASE q # r
      BY <1>2, <3>2, PayoutsKnown
    <3> QED
      BY <3>1, <3>2
  <2> QED
    BY <1>1, <2>2 DEF Payouts!LastIsLast, Payouts!Locked, Payouts!Vacant
<1>5. Payouts!OneChosen'
  <2>1. \A q \in Requests : Payouts!Chosen(q)' = IF q = r THEN {} ELSE Payouts!Chosen(q)
    BY <1>2, PayoutsIdle DEF Payouts!Chosen
  <2>2. \A i \in Payouts!Active(accounts') :
           \/ i \in Payouts!Chosen(r)
           \/ i \in Payouts!Active(accounts) \ (put[r].flags \cup put[r].gone)
    BY PayoutsCommitted DEF Payouts!Active, Payouts!Chosen
  <2>3. /\ \A i, j \in Payouts!Active(accounts) : i = j
        /\ \A i, j \in Payouts!Chosen(r) : i = j
        /\ Payouts!Chosen(r) # {} => Payouts!Active(accounts) \subseteq put[r].flags \cup put[r].gone
        /\ \A q \in Requests : q # r /\ Payouts!Chosen(q) # {} => Payouts!Chosen(r) = {}
        /\ \A q \in Requests :
              /\ \A i, j \in Payouts!Chosen(q) : i = j
              /\ Payouts!Chosen(q) # {} =>
                    Payouts!Active(accounts) \subseteq put[q].flags \cup put[q].gone
        /\ \A p, q \in Requests : Payouts!Chosen(p) # {} /\ Payouts!Chosen(q) # {} => p = q
    BY DEF Payouts!PayableInv, Payouts!OneChosen
  <2>4. \A i, j \in Payouts!Active(accounts') : i = j
    BY <2>2, <2>3
  <2>5. ASSUME NEW q \in Requests, q # r, Payouts!Chosen(q) # {}
        PROVE  Payouts!Active(accounts') \subseteq put'[q].flags \cup put'[q].gone
    BY <1>2, <2>2, <2>3, <2>5
  <2>6. /\ \A q \in Requests :
              /\ \A i, j \in Payouts!Chosen(q)' : i = j
              /\ Payouts!Chosen(q)' # {} =>
                    Payouts!Active(accounts') \subseteq put'[q].flags \cup put'[q].gone
        /\ \A p, q \in Requests : Payouts!Chosen(p)' # {} /\ Payouts!Chosen(q)' # {} => p = q
    BY <2>1, <2>3, <2>5
  <2> QED
    BY <2>4, <2>6 DEF Payouts!OneChosen, Payouts!Active
<1>6. ASSUME NEW q \in Requests PROVE Payouts!Steps(q)'
  <2>1. CASE q = r
    <3>1. /\ put'[r].pc = "idle" /\ put'[r].flags = {} /\ put'[r].gone = {} /\ put'[r].numbers = {}
      BY <1>2, PayoutsIdle
    <3>2. \A i \in Payouts!Ids : put'[r].copy[i] = Payouts!Vacant
      BY <1>2, PayoutsIdle
    <3>3. Payouts!Active(put'[r].copy) = {}
      BY <3>2, PayoutsTypes DEF Payouts!Active
    <3> QED
      BY <2>1, <3>1, <3>3 DEF Payouts!Steps, Payouts!Chosen, Payouts!Active
  <2>2. CASE q # r
    <3>1. put'[q] = put[q] /\ Payouts!Steps(q)
      BY <1>2, <2>2 DEF Payouts!PayableInv
    <3> QED
      BY <3>1 DEF Payouts!Steps, Payouts!Target, Payouts!Chosen, Payouts!Active
  <2> QED
    BY <2>1, <2>2
<1> QED
  BY <1>3, <1>4, <1>5, <1>6 DEF Payouts!PayableInv

\* A run of the script inserts rows beyond the last id, and one of them active
\* only where there is none.
LEMMA PayoutsBackfilled ==
    ASSUME Payouts!PayableInv, Payouts!Backfill
    PROVE  /\ lastAccount' \in lastAccount .. MaxAccounts
           /\ UNCHANGED <<provider, put>> /\ script' = "idle"
           /\ \A q \in Requests : Payouts!Pending(q) = {}
           /\ accounts' \in [Payouts!Ids -> Payouts!Rows]
           /\ \A i \in Payouts!Ids :
                 /\ i <= lastAccount \/ i > lastAccount' => accounts'[i] = accounts[i]
                 /\ i > lastAccount /\ accounts'[i].active => Payouts!Active(accounts) = {}
           /\ \A i, j \in Payouts!Ids :
                 /\ i > lastAccount /\ accounts'[i].active
                 /\ j > lastAccount /\ accounts'[j].active
                 => i = j
<1>1. PICK n : n = Payouts!Cardinality(Payouts!Missing)
  OBVIOUS
<1>2. Payouts!Missing \subseteq {m1, m2}
  <2>1. Payouts!Candidates \subseteq {m1, m2}
    <3>1. PICK g : g = [p \in {"xendit", "sento", "dipay"} |-> IF p = "dipay" THEN NoOne ELSE m1]
      OBVIOUS
    <3>2. \A p \in {"xendit", "sento", "dipay"} : g[p] \in {m1, NoOne}
      BY <3>1
    <3>3. Payouts!Candidates = {g[p] : p \in {"xendit", "sento", "dipay"}} \ {NoOne}
      BY <3>1 DEF Payouts!Candidates, Payouts!Providers
    <3> QED
      BY <3>2, <3>3
  <2> QED
    BY <2>1 DEF Payouts!Missing
<1>3. n \in Nat
  <2>1. IsFiniteSet({m1, m2})
    <3>1. IsFiniteSet({m1} \cup {m2})
      BY FS_Singleton, FS_AddElement
    <3>2. {m1} \cup {m2} = {m1, m2}
      OBVIOUS
    <3> QED
      BY <3>1, <3>2
  <2>2. IsFiniteSet(Payouts!Missing)
    BY <1>2, <2>1, FS_Subset
  <2>3. Cardinality(Payouts!Missing) \in Nat
    BY <2>2, FS_CardinalityType
  <2> QED
    BY <1>1, <2>3 DEF Payouts!Cardinality, Cardinality
<1>4. PICK a : a = Payouts!Preferred(script)
  OBVIOUS
<1>0. \A q \in Requests : Payouts!Pending(q) = {}
  <2>1. ASSUME NEW q \in Requests
        PROVE  (put[q].flags \cup put[q].gone) \subseteq Payouts!Ids
    BY <2>1, PayoutsTypes DEF Payouts!Put
  <2>2. ASSUME NEW q \in Requests
        PROVE  put[q].flags = {} /\ put[q].gone = {}
    <3>1. Payouts!Locked(q) \cap Payouts!Ids = {}
      BY DEF Payouts!Backfill
    <3> QED
      BY <2>1, <3>1 DEF Payouts!Locked
  <2>3. ASSUME NEW q \in Requests
        PROVE  Payouts!Pending(q) = {}
    <3>1. \A i : i \notin put[q].flags /\ i \notin put[q].gone
      BY <2>2
    <3> QED
      BY <3>1 DEF Payouts!Pending
  <2> QED
    BY <2>3, Zenon
<1>5. /\ lastAccount + n <= MaxAccounts /\ lastAccount' = lastAccount + n
      /\ UNCHANGED <<provider, put>> /\ script' = "idle"
      /\ \A q \in Requests : Payouts!Pending(q) = {}
      /\ Payouts!Missing # {} /\ a \in Payouts!Missing => Payouts!Active(accounts) = {}
  BY <1>0, <1>1, <1>4 DEF Payouts!Backfill
<1>6. PICK place \in Payouts!Bijection((lastAccount + 1)..(lastAccount + n), Payouts!Missing) :
         \E newest \in Payouts!Ids \cup {0} :
            /\ Payouts!Active(Payouts!Filled(place)) # {} =>
                  newest \in Payouts!Active(Payouts!Filled(place))
            /\ accounts' = Payouts!KeepOne(Payouts!Filled(place), newest)
  BY <1>1 DEF Payouts!Backfill
<1> DEFINE filled == Payouts!Filled(place)
<1>14. filled = [i \in Payouts!Ids |->
                 IF i \in DOMAIN place THEN [account |-> place[i], active |-> place[i] = a]
                 ELSE accounts[i]]
  BY <1>4 DEF Payouts!Filled
<1>15. PICK newest \in Payouts!Ids \cup {0} :
          /\ Payouts!Active(filled) # {} => newest \in Payouts!Active(filled)
          /\ accounts' = Payouts!KeepOne(filled, newest)
  BY <1>6
<1> HIDE DEF filled
<1>7. /\ place \in [(lastAccount + 1)..(lastAccount + n) -> Payouts!Missing]
      /\ \A i, j \in (lastAccount + 1)..(lastAccount + n) : place[i] = place[j] => i = j
  BY <1>6 DEF Payouts!Bijection, Payouts!Injection, Payouts!IsInjective
<1>8. lastAccount' \in lastAccount .. MaxAccounts /\ lastAccount \in Nat
  BY <1>3, <1>5, PayoutsTypes
<1>9. \A i \in Payouts!Ids :
         i \in (lastAccount + 1)..(lastAccount + n) <=> i > lastAccount /\ ~(i > lastAccount')
  BY <1>3, <1>5, <1>8, PayoutsTypes
<1>10. ASSUME NEW i \in Payouts!Ids
       PROVE  /\ filled[i] \in Payouts!Rows
              /\ i <= lastAccount \/ i > lastAccount' => filled[i] = accounts[i]
              /\ i > lastAccount /\ filled[i].active =>
                    /\ i \in (lastAccount + 1)..(lastAccount + n)
                    /\ place[i] \in Payouts!Missing /\ place[i] = a
  <2>1. CASE i \in (lastAccount + 1)..(lastAccount + n)
    <3>0. PICK f \in BOOLEAN : f = (place[i] = a)
      OBVIOUS
    <3>1. filled[i] = [account |-> place[i], active |-> f]
      BY <1>14, <1>7, <2>1, <3>0
    <3>2. place[i] \in Payouts!Missing
      BY <1>7, <2>1
    <3>3. filled[i] \in Payouts!Rows
      <4>1. place[i] \in {m1, m2} \cup {NoOne}
        BY <1>2, <3>2
      <4>2. CASE f = TRUE
        BY <3>1, <4>1, <4>2 DEF Payouts!Rows
      <4>3. CASE f = FALSE
        BY <3>1, <4>1, <4>3 DEF Payouts!Rows
      <4> QED
        BY <3>0, <4>2, <4>3
    <3>4. filled[i].active => place[i] = a
      <4>1. CASE f = TRUE
        <5>1. place[i] = a
          BY <3>0, <4>1
        <5> QED
          BY <5>1
      <4>2. CASE f = FALSE
        <5>1. filled[i].active = FALSE
          BY <3>1, <4>2
        <5> QED
          BY <5>1
      <4> QED
        BY <3>0, <4>1, <4>2
    <3>5. i > lastAccount /\ ~(i > lastAccount') /\ ~(i <= lastAccount)
      BY <1>8, <1>9, <2>1, PayoutsTypes
    <3> QED
      BY <2>1, <3>2, <3>3, <3>4, <3>5
  <2>2. CASE i \notin (lastAccount + 1)..(lastAccount + n)
    <3>1. filled[i] = accounts[i]
      BY <1>14, <1>7, <2>2
    <3>2. i > lastAccount => i > lastAccount'
      BY <1>9, <2>2
    <3>3. i > lastAccount => accounts[i] = Payouts!Vacant
      BY DEF Payouts!PayableInv, Payouts!LastIsLast
    <3> QED
      BY <3>1, <3>3, PayoutsTypes
  <2> QED
    BY <2>1, <2>2
<1>11. filled \in [Payouts!Ids -> Payouts!Rows]
  BY <1>14, <1>10
<1>12. ASSUME NEW i \in Payouts!Ids, i > lastAccount, filled[i].active
       PROVE  Payouts!Active(accounts) = {}
  BY <1>5, <1>10, <1>12
<1>13. ASSUME NEW i \in Payouts!Ids, i > lastAccount, filled[i].active,
              NEW j \in Payouts!Ids, j > lastAccount, filled[j].active
       PROVE  i = j
  BY <1>7, <1>10, <1>13
\* One row at most is active, so that the last statement changes nothing.
<1>16. ASSUME NEW i \in Payouts!Active(filled), NEW j \in Payouts!Active(filled)
       PROVE  i = j
  <2>1. /\ i \in Payouts!Ids /\ filled[i].active /\ j \in Payouts!Ids /\ filled[j].active
    BY DEF Payouts!Active
  <2>2. \A h \in Payouts!Ids : h > lastAccount \/ h <= lastAccount
    BY <1>8, PayoutsTypes
  <2>3. \A h \in Payouts!Ids : h <= lastAccount /\ filled[h].active => h \in Payouts!Active(accounts)
    BY <1>10 DEF Payouts!Active
  <2>4. \A g, h \in Payouts!Active(accounts) : g = h
    BY DEF Payouts!PayableInv, Payouts!OneChosen
  <2> QED
    BY <1>12, <1>13, <2>1, <2>2, <2>3, <2>4
<1>17. ASSUME NEW i \in Payouts!Ids
       PROVE  accounts'[i] = filled[i]
  <2>1. CASE i = newest
    BY <1>15, <2>1 DEF Payouts!KeepOne
  <2>2. CASE i # newest
    <3>1. ~filled[i].active
      BY <1>15, <1>16, <2>2 DEF Payouts!Active
    <3>2. filled[i].active = FALSE /\ filled[i] \in Payouts!Rows
      BY <1>11, <3>1 DEF Payouts!Rows
    <3>3. [filled[i] EXCEPT !.active = FALSE] = filled[i]
      BY <3>2 DEF Payouts!Rows
    <3> QED
      BY <1>15, <2>2, <3>3 DEF Payouts!KeepOne
  <2> QED
    BY <2>1, <2>2
<1>18. accounts' \in [Payouts!Ids -> Payouts!Rows]
  <2>1. accounts' = [i \in Payouts!Ids |-> accounts'[i]]
    BY <1>15 DEF Payouts!KeepOne
  <2> QED
    BY <1>11, <1>17, <2>1
<1> QED
  BY <1>5, <1>8, <1>10, <1>12, <1>13, <1>17, <1>18

LEMMA PayoutsBackfill ==
    ASSUME Payouts!PayableInv, Payouts!Backfill
    PROVE  Payouts!PayableInv'
<1>1. /\ lastAccount' \in lastAccount .. MaxAccounts
      /\ UNCHANGED <<provider, put>> /\ script' = "idle"
      /\ \A q \in Requests : Payouts!Pending(q) = {}
      /\ accounts' \in [Payouts!Ids -> Payouts!Rows]
  BY PayoutsBackfilled
<1>2. lastAccount \in Nat /\ lastAccount' \in Nat /\ lastAccount <= lastAccount'
      /\ lastAccount' \in 0..MaxAccounts
  BY <1>1, PayoutsTypes
<1>3. Payouts!TypeOK'
  BY <1>1, <1>2 DEF Payouts!PayableInv, Payouts!TypeOK
<1>4. Payouts!LastIsLast'
  <2>1. ASSUME NEW i \in Payouts!Ids, i > lastAccount'
        PROVE  accounts'[i] = Payouts!Vacant
    <3>1. i > lastAccount /\ accounts'[i] = accounts[i]
      BY <1>2, <2>1, PayoutsBackfilled, PayoutsTypes
    <3> QED
      BY <3>1 DEF Payouts!PayableInv, Payouts!LastIsLast
  <2>2. \A i \in Payouts!Ids \cup {0} : i <= lastAccount => i <= lastAccount'
    BY <1>2, PayoutsTypes
  <2>3. ASSUME NEW q \in Requests
        PROVE  /\ \A i \in put[q].numbers \cup put[q].flags \cup put[q].gone : i <= lastAccount'
               /\ put[q].body.delete <= lastAccount' /\ put[q].added <= lastAccount'
    <3>1. put[q].body.delete \in Payouts!Ids \cup {0} /\ put[q].added \in Payouts!Ids \cup {0}
      BY PayoutsTypes DEF Payouts!Put, Payouts!Body
    <3> QED
      BY <2>2, <3>1, PayoutsKnown
  <2> QED
    BY <1>1, <2>1, <2>3 DEF Payouts!LastIsLast, Payouts!Locked, Payouts!Vacant
<1>5. Payouts!OneChosen'
  <2>1. \A q \in Requests : Payouts!Chosen(q) = {} /\ Payouts!Chosen(q)' = {}
    BY <1>1 DEF Payouts!Chosen, Payouts!Pending
  <2>2. ASSUME NEW i \in Payouts!Active(accounts'), NEW j \in Payouts!Active(accounts')
        PROVE  i = j
    <3>1. /\ i \in Payouts!Ids /\ accounts'[i].active /\ j \in Payouts!Ids /\ accounts'[j].active
      BY DEF Payouts!Active
    <3>2. \A h \in Payouts!Ids : h > lastAccount \/ h <= lastAccount
      BY <1>2, PayoutsTypes
    <3>3. \A h \in Payouts!Ids : h <= lastAccount /\ accounts'[h].active => h \in Payouts!Active(accounts)
      BY PayoutsBackfilled DEF Payouts!Active
    <3>4. \A h \in Payouts!Ids : h > lastAccount /\ accounts'[h].active => Payouts!Active(accounts) = {}
      BY PayoutsBackfilled
    <3>5. i > lastAccount /\ j > lastAccount => i = j
      BY <3>1, PayoutsBackfilled
    <3>6. \A g, h \in Payouts!Active(accounts) : g = h
      BY DEF Payouts!PayableInv, Payouts!OneChosen
    <3> QED
      BY <3>1, <3>2, <3>3, <3>4, <3>5, <3>6
  <2> QED
    BY <2>1, <2>2 DEF Payouts!OneChosen, Payouts!Active
<1>6. ASSUME NEW q \in Requests PROVE Payouts!Steps(q)'
  <2>1. Payouts!Steps(q)
    BY DEF Payouts!PayableInv
  <2> QED
    BY <1>1, <2>1, PayoutsSame
<1> QED
  BY <1>3, <1>4, <1>5, <1>6 DEF Payouts!PayableInv

LEMMA PayoutsStep == Payouts!PayableInv /\ [Payouts!Next]_(Payouts!vars) => Payouts!PayableInv'
<1> SUFFICES ASSUME Payouts!PayableInv, [Payouts!Next]_(Payouts!vars) PROVE Payouts!PayableInv'
  OBVIOUS
<1>1. ASSUME UNCHANGED <<accounts, lastAccount, provider, put>>, script' \in Payouts!Providers \cup {"idle"}
      PROVE  Payouts!PayableInv'
  <2>1. \A r \in Requests : Payouts!Steps(r)'
    BY <1>1, PayoutsSame DEF Payouts!PayableInv
  <2>2. Payouts!TypeOK'
    BY <1>1 DEF Payouts!PayableInv, Payouts!TypeOK
  <2>3. Payouts!LastIsLast /\ Payouts!OneChosen
    BY DEF Payouts!PayableInv
  <2>4. Payouts!LastIsLast'
    BY <1>1, <2>3 DEF Payouts!LastIsLast, Payouts!Locked, Payouts!Vacant
  <2>5. Payouts!OneChosen'
    BY <1>1, <2>3 DEF Payouts!OneChosen, Payouts!Chosen, Payouts!Active
  <2> QED
    BY <2>1, <2>2, <2>4, <2>5 DEF Payouts!PayableInv
<1>2. ASSUME UNCHANGED Payouts!vars PROVE Payouts!PayableInv'
  <2>1. script' \in Payouts!Providers \cup {"idle"}
    BY <1>2 DEF Payouts!vars, Payouts!PayableInv, Payouts!TypeOK
  <2> QED
    BY <1>1, <1>2, <2>1 DEF Payouts!vars
<1>3. ASSUME Payouts!Fetch \/ Payouts!BackfillFails PROVE Payouts!PayableInv'
  <2>1. UNCHANGED <<accounts, lastAccount, provider, put>> /\ script' \in {provider, "idle"}
    BY <1>3 DEF Payouts!Fetch, Payouts!BackfillFails
  <2>2. provider \in Payouts!Providers
    BY DEF Payouts!PayableInv, Payouts!TypeOK
  <2> QED
    BY <1>1, <2>1, <2>2
<1> QED
  BY <1>2, <1>3, PayoutsBegin, PayoutsDelete, PayoutsEdit, PayoutsAdd, PayoutsClear, PayoutsActivate,
     PayoutsProvider, PayoutsCommit, PayoutsFail, PayoutsBackfill
  DEF Payouts!Next

LEMMA PayoutsInvariance == Spec /\ part = "payouts" => []Payouts!PayableInv
<1>1. Payouts!Init => Payouts!PayableInv
  <2> SUFFICES ASSUME Payouts!Init PROVE Payouts!PayableInv
    OBVIOUS
  <2>1. /\ MaxAccounts \in Nat /\ NoOne \notin {m1, m2}
        /\ accounts = [i \in Payouts!Ids |-> Payouts!Vacant] /\ lastAccount = 0
        /\ provider \in Payouts!Providers /\ put = [r \in Requests |-> Payouts!Idle]
        /\ script = "idle"
    BY Constants DEF Payouts!PayoutConstants, Payouts!Init
  <2>2. Payouts!Vacant \in Payouts!Rows /\ ~Payouts!Vacant.active
    BY DEF Payouts!Vacant, Payouts!Rows
  <2>3. Payouts!Idle \in Payouts!Put
    <3>1. [i \in Payouts!Ids |-> Payouts!Vacant] \in [Payouts!Ids -> Payouts!Rows]
      BY <2>2
    <3>2. 0 \in 0..MaxAccounts
      BY <2>1
    <3> QED
      BY <3>1, <3>2 DEF Payouts!Idle, Payouts!Put, Payouts!Providers
  <2>4. /\ Payouts!Idle.pc = "idle" /\ Payouts!Idle.flags = {} /\ Payouts!Idle.gone = {}
        /\ Payouts!Idle.numbers = {} /\ Payouts!Idle.added = 0 /\ Payouts!Idle.body.delete = 0
        /\ Payouts!Idle.copy = [i \in Payouts!Ids |-> Payouts!Vacant]
    BY DEF Payouts!Idle, Payouts!Blank
  <2>5. Payouts!TypeOK
    <3>1. lastAccount \in 0..MaxAccounts
      BY <2>1
    <3> QED
      BY <2>1, <2>2, <2>3, <3>1 DEF Payouts!TypeOK
  <2>6. Payouts!Active(accounts) = {} /\ Payouts!Active(Payouts!Idle.copy) = {}
    BY <2>1, <2>2, <2>4 DEF Payouts!Active
  <2>7. Payouts!LastIsLast
    BY <2>1, <2>4 DEF Payouts!LastIsLast, Payouts!Locked
  <2>8. \A r \in Requests : Payouts!Chosen(r) = {}
    BY <2>1, <2>4 DEF Payouts!Chosen
  <2>9. Payouts!OneChosen
    BY <2>6, <2>8 DEF Payouts!OneChosen
  <2>10. \A r \in Requests : Payouts!Steps(r)
    BY <2>1, <2>4, <2>6, <2>8 DEF Payouts!Steps
  <2> QED
    BY <2>5, <2>7, <2>9, <2>10 DEF Payouts!PayableInv
<1>2. Payouts!Spec => []Payouts!PayableInv
  BY <1>1, PayoutsStep, PTL DEF Payouts!Spec
<1> QED
  BY <1>2, PayoutsRuns, PTL

\* A brand never has two active accounts, and it loses the one it has only with
\* the row, however PUTs and runs of the script come together.
THEOREM StaysPayableHolds == Spec => StaysPayable
<1>1. ASSUME NEW S, \A i, j \in S : i = j
      PROVE  Payouts!Cardinality(S) <= 1
  <2>1. CASE S = {}
    <3>1. Cardinality(S) = 0
      BY <2>1, FS_EmptySet
    <3> QED
      BY <3>1 DEF Payouts!Cardinality, Cardinality
  <2>2. CASE S # {}
    <3>1. PICK i : S = {i}
      BY <1>1, <2>2
    <3>2. Cardinality(S) = 1
      BY <3>1, FS_Singleton
    <3> QED
      BY <3>2 DEF Payouts!Cardinality, Cardinality
  <2> QED
    BY <2>1, <2>2
<1>2. ASSUME Payouts!PayableInv'
      PROVE  Payouts!Cardinality(Payouts!Active(accounts')) <= 1
  <2>1. \A i, j \in Payouts!Active(accounts') : i = j
    BY <1>2 DEF Payouts!PayableInv, Payouts!OneChosen, Payouts!Active
  <2> QED
    BY <1>1, <2>1
<1>3. ASSUME Payouts!PayableInv, [Payouts!Next]_(Payouts!vars),
             Payouts!Active(accounts) # {},
             Payouts!Active(accounts) \subseteq Payouts!Live(accounts')
      PROVE  Payouts!Active(accounts') # {}
  <2>1. CASE UNCHANGED accounts
    BY <1>3, <2>1
  <2>2. ASSUME NEW r \in Requests, Payouts!Commit(r)
        PROVE  Payouts!Active(accounts') # {}
    <3>1. PICK i \in Payouts!Active(accounts) : i \in Payouts!Live(accounts')
      BY <1>3
    <3>2. i \in Payouts!Ids /\ accounts[i].active /\ i \notin put[r].gone
      BY <1>3, <2>2, <3>1, PayoutsCommitted DEF Payouts!Active, Payouts!Live
    <3>3. CASE i \in put[r].flags
      <4>1. put[r].pc = "committing"
        BY <1>3, <2>2, PayoutsCommitted
      <4>2. Payouts!Chosen(r) # {} /\ Payouts!Chosen(r) \cap put[r].gone = {}
        BY <1>3, <3>3, <4>1 DEF Payouts!PayableInv, Payouts!Steps
      <4>3. PICK j \in Payouts!Chosen(r) : j \notin put[r].gone
        BY <4>2
      <4>4. j \in Payouts!Ids /\ j \in put[r].flags /\ put[r].copy[j].active
        BY <1>3, <4>3, PayoutsKnown DEF Payouts!Chosen
      <4> QED
        BY <1>3, <2>2, <4>3, <4>4, PayoutsCommitted DEF Payouts!Active
    <3>4. CASE i \notin put[r].flags
      BY <1>3, <2>2, <3>2, <3>4, PayoutsCommitted DEF Payouts!Active
    <3> QED
      BY <3>3, <3>4
  <2>3. ASSUME Payouts!Backfill
        PROVE  Payouts!Active(accounts') # {}
    <3>1. PICK i \in Payouts!Ids : accounts[i].active
      BY <1>3 DEF Payouts!Active
    <3>2. ~(i > lastAccount)
      BY <1>3, <3>1, PayoutsTypes DEF Payouts!PayableInv, Payouts!LastIsLast
    <3>3. i <= lastAccount
      BY <1>3, <3>2, PayoutsTypes
    <3>4. accounts'[i] = accounts[i]
      BY <1>3, <2>3, <3>3, PayoutsBackfilled
    <3> QED
      BY <3>1, <3>4 DEF Payouts!Active
  <2> QED
    BY <1>3, <2>1, <2>2, <2>3
    DEF Payouts!Next, Payouts!vars, Payouts!Begin, Payouts!DeleteRow, Payouts!EditRow, Payouts!AddRow,
        Payouts!ClearOthers, Payouts!Activate, Payouts!ChooseProvider, Payouts!Fail, Payouts!Fetch,
        Payouts!BackfillFails
<1>4. Payouts!PayableInv /\ Payouts!PayableInv' /\ [Payouts!Next]_(Payouts!vars)
        => (part = "payouts" => Payouts!ChoiceStands)
  BY <1>2, <1>3 DEF Payouts!ChoiceStands
<1>5. Spec /\ part = "payouts" => [][part = "payouts" => Payouts!ChoiceStands]_allVars
  BY <1>4, PayoutsInvariance, PayoutsRuns, PTL DEF Payouts!Spec
<1>6. Spec /\ ~(part = "payouts") => [][part = "payouts" => Payouts!ChoiceStands]_allVars
  <2>1. ~(part = "payouts") => (part = "payouts" => Payouts!ChoiceStands)
    OBVIOUS
  <2> QED
    BY <2>1, PayoutsRuns, PTL
<1> QED
  BY <1>5, <1>6, PTL DEF StaysPayable
-------------------------------------------------------------------------------
(* The types of every part.                                                *)

\* Wherever the order is locked, and whatever fails, the seller's part keeps its types.
LEMMA LateStep ==
    ASSUME ToldLate!TypeOK, ToldLate!GoesSomewhere, [ToldLate!Next]_(ToldLate!vars)
    PROVE  ToldLate!TypeOK' /\ ToldLate!GoesSomewhere'
<1> DEFINE Tasks == {"none", "starting", "confirming", "posting"} \cup ToldLate!EndStates
<1>0. /\ ToldLate!Idle \in ToldLate!Asked /\ ToldLate!Idle.pc = "idle"
      /\ paidState \in ToldLate!OrderState /\ seller \in ToldLate!SellerHas /\ meta \in BOOLEAN
      /\ paying \in [{r1} -> ToldLate!Asked] /\ task \in [{r1} -> Tasks]
      /\ purchase \in [{r1} -> BOOLEAN] /\ flow \in {"off", "shadow", "on"}
  BY DEF ToldLate!TypeOK, ToldLate!Idle, ToldLate!Asked, ToldLate!OrderState
\* A request goes on, and may start a task and an event.
<1>1. ASSUME NEW r \in {r1}, NEW k \in ToldLate!Asked, paying' = [paying EXCEPT ![r] = k],
             k.pc = "committing" => k.to # "none", paidState' \in ToldLate!OrderState,
             task' \in [{r1} -> Tasks], purchase' \in [{r1} -> BOOLEAN],
             UNCHANGED <<flow, seller, meta>>
      PROVE  ToldLate!TypeOK' /\ ToldLate!GoesSomewhere'
  <2>1. /\ paying' \in [{r1} -> ToldLate!Asked] /\ paying'[r] = k
        /\ \A q \in {r1} : q # r => paying'[q] = paying[q]
    BY <1>0, <1>1
  <2>2. ToldLate!TypeOK'
    BY <1>0, <1>1, <2>1 DEF ToldLate!TypeOK
  <2>3. ToldLate!GoesSomewhere'
    BY <1>1, <2>1 DEF ToldLate!GoesSomewhere, ToldLate!Writing
  <2> QED
    BY <2>2, <2>3
\* A task goes on, or others write the order.
<1>2. ASSUME UNCHANGED <<flow, paying>>, paidState' \in ToldLate!OrderState,
             task' \in [{r1} -> Tasks], purchase' \in [{r1} -> BOOLEAN],
             seller' \in ToldLate!SellerHas, meta' \in BOOLEAN
      PROVE  ToldLate!TypeOK' /\ ToldLate!GoesSomewhere'
  BY <1>0, <1>2 DEF ToldLate!TypeOK, ToldLate!GoesSomewhere, ToldLate!Writing
<1>3. ASSUME NEW r \in {r1}, ToldLate!Load(r) \/ ToldLate!Pay(r)
      PROVE  ToldLate!TypeOK' /\ ToldLate!GoesSomewhere'
  <2>1. PICK pc \in {"loaded", "paying"} :
           paying' = [paying EXCEPT ![r] = [ToldLate!Idle EXCEPT !.pc = pc, !.copy = paidState]]
    BY <1>3 DEF ToldLate!Load, ToldLate!Pay
  <2>2. PICK k : k = [ToldLate!Idle EXCEPT !.pc = pc, !.copy = paidState]
    OBVIOUS
  <2>3. k \in ToldLate!Asked /\ k.pc # "committing"
    BY <1>0, <2>2 DEF ToldLate!Idle, ToldLate!Asked
  <2>4. UNCHANGED <<flow, paidState, task, purchase, seller, meta>>
    BY <1>3 DEF ToldLate!Load, ToldLate!Pay
  <2> QED
    BY <1>0, <1>1, <2>1, <2>2, <2>3, <2>4
<1>4. ASSUME NEW r \in {r1}, NEW to \in {"ESCROW_HELD"} \cup ToldLate!EndStates,
             paying' = [paying EXCEPT ![r] = [ToldLate!Idle EXCEPT !.pc = "committing", !.to = to]],
             task' \in [{r1} -> Tasks], purchase' \in [{r1} -> BOOLEAN],
             UNCHANGED <<flow, paidState, seller, meta>>
      PROVE  ToldLate!TypeOK' /\ ToldLate!GoesSomewhere'
  <2>1. PICK k : k = [ToldLate!Idle EXCEPT !.pc = "committing", !.to = to]
    OBVIOUS
  <2>2. k \in ToldLate!Asked /\ k.to # "none"
    BY <1>0, <2>1 DEF ToldLate!Idle, ToldLate!Asked, ToldLate!EndStates
  <2> QED
    BY <1>0, <1>1, <1>4, <2>1, <2>2
<1>5. ASSUME NEW r \in {r1}, ToldLate!MarkAgain(r) \/ ToldLate!NotPaid(r) \/ ToldLate!Rollback(r)
      PROVE  ToldLate!TypeOK' /\ ToldLate!GoesSomewhere'
  <2>1. paying' = [paying EXCEPT ![r] = ToldLate!Idle] /\ UNCHANGED <<flow, paidState, purchase, seller, meta>>
    BY <1>5 DEF ToldLate!MarkAgain, ToldLate!NotPaid, ToldLate!Rollback
  <2>2. task' \in [{r1} -> Tasks]
    BY <1>0, <1>5 DEF ToldLate!MarkAgain, ToldLate!NotPaid, ToldLate!Rollback
  <2> QED
    BY <1>0, <1>1, <2>1, <2>2
<1>6. ASSUME NEW r \in {r1}, ToldLate!Commit(r)
      PROVE  ToldLate!TypeOK' /\ ToldLate!GoesSomewhere'
  <2>1. /\ paying' = [paying EXCEPT ![r] = ToldLate!Idle] /\ paidState' = paying[r].to
        /\ paying[r].pc = "committing" /\ UNCHANGED <<flow, task, purchase, seller, meta>>
    BY <1>6 DEF ToldLate!Commit
  <2>2. paying[r].to \in {"ESCROW_HELD"} \cup ToldLate!EndStates
    BY <1>0, <2>1 DEF ToldLate!GoesSomewhere, ToldLate!Writing, ToldLate!Asked
  <2>3. paidState' \in ToldLate!OrderState
    BY <2>1, <2>2 DEF ToldLate!EndStates, ToldLate!OrderState
  <2> QED
    BY <1>0, <1>1, <2>1, <2>3
<1>7. ASSUME ToldLate!Crash
      PROVE  ToldLate!TypeOK' /\ ToldLate!GoesSomewhere'
  <2>1. /\ paying' = [q \in {r1} |-> ToldLate!Idle] /\ task' = [q \in {r1} |-> "none"]
        /\ purchase' = [q \in {r1} |-> FALSE] /\ UNCHANGED <<flow, paidState, seller, meta>>
    BY <1>7 DEF ToldLate!Crash
  <2> QED
    BY <1>0, <2>1 DEF ToldLate!TypeOK, ToldLate!GoesSomewhere, ToldLate!Writing
<1>8. ASSUME ToldLate!OtherTransition
      PROVE  ToldLate!TypeOK' /\ ToldLate!GoesSomewhere'
  <2>1. paidState' \in ToldLate!Allowed[paidState] /\ UNCHANGED <<flow, paying, task, purchase, seller, meta>>
    BY <1>8 DEF ToldLate!OtherTransition
  <2>2. paidState' \in ToldLate!OrderState
    BY <1>0, <2>1 DEF ToldLate!Allowed, ToldLate!OrderState
  <2> QED
    BY <1>0, <1>2, <2>1, <2>2
<1>9. ASSUME NEW r \in {r1}, ToldLate!Dispatch(r) \/ ToldLate!Purchase(r)
      PROVE  ToldLate!TypeOK' /\ ToldLate!GoesSomewhere'
  <2>1. UNCHANGED <<flow, paying, paidState, seller>>
    BY <1>9 DEF ToldLate!Dispatch, ToldLate!Purchase
  <2>2. task' \in [{r1} -> Tasks] /\ purchase' \in [{r1} -> BOOLEAN] /\ meta' \in BOOLEAN
    BY <1>0, <1>9 DEF ToldLate!Dispatch, ToldLate!Purchase, ToldLate!SendPurchase, ToldLate!Heard
  <2> QED
    BY <1>0, <1>2, <2>1, <2>2
<1>10. ASSUME NEW r \in {r1}, ToldLate!Confirm(r) \/ ToldLate!Post(r) \/ ToldLate!Patch(r)
       PROVE  ToldLate!TypeOK' /\ ToldLate!GoesSomewhere'
  <2>1. UNCHANGED <<flow, paying, paidState, purchase, meta>>
    BY <1>10 DEF ToldLate!Confirm, ToldLate!Post, ToldLate!Patch
  <2>2. task' \in [{r1} -> Tasks]
    BY <1>0, <1>10 DEF ToldLate!Confirm, ToldLate!Post, ToldLate!Patch
  <2>3. PICK c, p \in 0..2, b \in {"none", "ESCROW_HELD"} \cup ToldLate!EndStates :
           seller' = [confirms |-> c, posts |-> p, badge |-> b]
    <3>1. /\ seller = [confirms |-> seller.confirms, posts |-> seller.posts, badge |-> seller.badge]
          /\ seller.confirms \in 0..2 /\ seller.posts \in 0..2
          /\ seller.badge \in {"none", "ESCROW_HELD"} \cup ToldLate!EndStates
      BY <1>0 DEF ToldLate!SellerHas
    <3>2. \A n \in 0..2 : ToldLate!Count(n) \in 0..2
      BY DEF ToldLate!Count
    <3>3. CASE ToldLate!Confirm(r)
      <4>1. seller' = seller \/ seller' = [seller EXCEPT !.confirms = ToldLate!Count(@)]
        BY <3>3 DEF ToldLate!Confirm, ToldLate!ConfirmOrder, ToldLate!Heard
      <4>2. [seller EXCEPT !.confirms = ToldLate!Count(@)] =
              [confirms |-> ToldLate!Count(seller.confirms), posts |-> seller.posts, badge |-> seller.badge]
        BY <3>1
      <4> QED
        BY <3>1, <3>2, <4>1, <4>2
    <3>4. CASE ToldLate!Post(r)
      <4>1. PICK b : b = IF seller.badge = "none" THEN "ESCROW_HELD" ELSE seller.badge
        OBVIOUS
      <4>2. PICK p : p = ToldLate!Count(seller.posts)
        OBVIOUS
      <4>3. seller' = seller \/ seller' = [seller EXCEPT !.posts = p, !.badge = b]
        BY <3>4, <4>1, <4>2 DEF ToldLate!Post, ToldLate!Heard
      <4>4. CASE seller' = seller
        BY <3>1, <4>4
      <4>5. CASE seller' = [seller EXCEPT !.posts = p, !.badge = b]
        <5>1. seller' = [confirms |-> seller.confirms, posts |-> p, badge |-> b]
          BY <1>0, <4>5 DEF ToldLate!SellerHas
        <5>2. p \in 0..2 /\ b \in {"none", "ESCROW_HELD"} \cup ToldLate!EndStates
          BY <3>1, <3>2, <4>1, <4>2
        <5> QED
          BY <3>1, <5>1, <5>2
      <4> QED
        BY <4>3, <4>4, <4>5
    <3>5. CASE ToldLate!Patch(r)
      <4>1. PICK b : b = IF seller.badge = "none" THEN seller.badge ELSE task[r]
        OBVIOUS
      <4>2. task[r] \in ToldLate!EndStates /\ (seller' = seller \/ seller' = [seller EXCEPT !.badge = b])
        BY <3>5, <4>1 DEF ToldLate!Patch, ToldLate!Heard
      <4>3. [seller EXCEPT !.badge = b] = [confirms |-> seller.confirms, posts |-> seller.posts, badge |-> b]
        BY <3>1
      <4> QED
        BY <3>1, <4>1, <4>2, <4>3
    <3> QED
      BY <1>10, <3>3, <3>4, <3>5
  <2>4. seller' \in ToldLate!SellerHas
    BY <2>3 DEF ToldLate!SellerHas
  <2> QED
    BY <1>0, <1>2, <2>1, <2>2, <2>4
<1>11. ASSUME UNCHANGED ToldLate!vars
       PROVE  ToldLate!TypeOK' /\ ToldLate!GoesSomewhere'
  BY <1>11 DEF ToldLate!vars, ToldLate!TypeOK, ToldLate!GoesSomewhere, ToldLate!Writing
<1>12. ASSUME NEW r \in {r1}, ToldLate!Mark(r)
       PROVE  ToldLate!TypeOK' /\ ToldLate!GoesSomewhere'
  <2>1. /\ paying' = [paying EXCEPT ![r] = [ToldLate!Idle EXCEPT !.pc = "committing", !.to = "ESCROW_HELD"]]
        /\ UNCHANGED <<flow, paidState, seller, meta>>
        /\ task' \in [{r1} -> Tasks] /\ purchase' \in [{r1} -> BOOLEAN]
    BY <1>0, <1>12 DEF ToldLate!Mark
  <2> QED
    BY <1>4, <2>1
<1>13. ASSUME NEW r \in {r1}, NEW to \in ToldLate!EndStates, ToldLate!Close(r, to)
       PROVE  ToldLate!TypeOK' /\ ToldLate!GoesSomewhere'
  <2>1. /\ paying' = [paying EXCEPT ![r] = [ToldLate!Idle EXCEPT !.pc = "committing", !.to = to]]
        /\ UNCHANGED <<flow, paidState, seller, meta>>
        /\ task' \in [{r1} -> Tasks] /\ purchase' \in [{r1} -> BOOLEAN]
    BY <1>0, <1>13 DEF ToldLate!Close
  <2> QED
    BY <1>4, <2>1
<1> QED
  BY <1>3, <1>5, <1>6, <1>7, <1>8, <1>9, <1>10, <1>11, <1>12, <1>13 DEF ToldLate!Next

LEMMA LateInvariance == Spec /\ part = "told_late" => []ToldLate!TypeOK
<1>1. ToldLate!Init => ToldLate!TypeOK /\ ToldLate!GoesSomewhere
  <2> SUFFICES ASSUME ToldLate!Init PROVE ToldLate!TypeOK /\ ToldLate!GoesSomewhere
    OBVIOUS
  <2>1. ToldLate!Idle \in ToldLate!Asked /\ ToldLate!Idle.pc = "idle"
    BY DEF ToldLate!Idle, ToldLate!Asked, ToldLate!OrderState
  <2>2. seller \in ToldLate!SellerHas
    BY DEF ToldLate!Init, ToldLate!SellerHas
  <2> QED
    BY <2>1, <2>2 DEF ToldLate!Init, ToldLate!TypeOK, ToldLate!GoesSomewhere, ToldLate!Writing,
                      ToldLate!OrderState
<1>2. ToldLate!TypeOK /\ ToldLate!GoesSomewhere /\ [ToldLate!Next]_(ToldLate!vars)
        => (ToldLate!TypeOK /\ ToldLate!GoesSomewhere)'
  BY LateStep
<1>3. ToldLate!Spec => []ToldLate!TypeOK
  BY <1>1, <1>2, PTL DEF ToldLate!Spec
<1> QED
  BY <1>3, ToldLateRuns, PTL

\* Every variable of the part that runs has its type.
THEOREM TypeOKHolds == Spec => []TypeOK
<1>1. Spec => [](part = "buyer" => Buyer!TypeOK)
  <2>1. NoReq \notin Requests /\ NoRow \notin Attempts \cup Refunds \cup {p1}
    BY Names
  <2>2. Buyer!Spec => []Buyer!TypeOK
    BY <2>1, BuyerHere, Buyer!TypeCorrect
  <2> QED
    BY <2>2, BuyerRuns, PTL
<1>2. Spec => [](part = "checkout" => Checkout!TypeOK)
  <2>1. Checkout!CurrentInv => Checkout!TypeOK
    BY DEF Checkout!CurrentInv
  <2> QED
    BY <2>1, CheckoutInvariance, PTL
<1>3. Spec => /\ [](part = "qris" => Qris!TypeOK)
              /\ [](part = "switched" => Switched!TypeOK)
              /\ [](part = "hosted" => Hosted!TypeOK)
  <2>1. /\ Qris!Spec => []Qris!TypeOK
        /\ Switched!Spec => []Switched!TypeOK
        /\ Hosted!Spec => []Hosted!TypeOK
    BY Constants, Qris!TypeOKHolds, Switched!TypeOKHolds, Hosted!TypeOKHolds
  <2>2. Spec => [](part = "qris" => Qris!TypeOK)
    BY <2>1, QrisRuns, PTL
  <2>3. Spec => [](part = "switched" => Switched!TypeOK)
    BY <2>1, SwitchedRuns, PTL
  <2>4. Spec => [](part = "hosted" => Hosted!TypeOK)
    BY <2>1, HostedRuns, PTL
  <2> QED
    BY <2>2, <2>3, <2>4
<1>4. Spec => [](part = "two_at_once" => CartOf(Requests, {n1})!TypeOK)
  <2>1. CartOf(Requests, {n1})!WholeInv => CartOf(Requests, {n1})!TypeOK
    BY DEF CartOf!WholeInv
  <2> QED
    BY <2>1, TwoAtOnceInvariance, TwoAtOnceRuns, PTL
<1>5. Spec => [](part = "one_by_one" => CartOf({r1}, Notices)!TypeOK)
  <2>1. CartOf({r1}, Notices)!StaysInv => CartOf({r1}, Notices)!TypeOK
    BY DEF CartOf!WholeInv, CartOf!StaysInv
  <2> QED
    BY <2>1, OneByOneInvariance, OneByOneRuns, PTL
<1>6. Spec => [](part = "told" => Told!TypeOK)
  <2>1. Told!AgreeInv => Told!TypeOK
    BY DEF Told!AgreeInv
  <2> QED
    BY <2>1, ToldInvariance, ToldRuns, PTL
<1>7. Spec => [](part = "told_late" => ToldLate!TypeOK)
  BY LateInvariance, ToldLateRuns, PTL
<1>8. Spec => [](part = "login" => Login!TypeOK)
  <2>1. Login!LoginInv => Login!TypeOK
    BY DEF Login!LoginInv
  <2> QED
    BY <2>1, LoginInvariance, LoginRuns, PTL
<1>9. Spec => [](part = "members" => Members!TypeOK)
  <2>1. Members!AccessInv => Members!TypeOK
    BY DEF Members!AccessInv
  <2> QED
    BY <2>1, MembersInvariance, MembersRuns, PTL
<1>10. Spec => [](part = "payouts" => Payouts!TypeOK)
  <2>1. Payouts!PayableInv => Payouts!TypeOK
    BY DEF Payouts!PayableInv
  <2> QED
    BY <2>1, PayoutsInvariance, PayoutsRuns, PTL
<1>11. Spec => [](part = "kept" => Kept!TypeOK)
  <2>1. Kept!RowsInv => Kept!TypeOK
    BY DEF Kept!RowsInv
  <2> QED
    BY <2>1, KeptInvariance, KeptRuns, PTL
<1>12. Spec => [](part = "tokens" => Tokens!TypeOK)
  <2>1. Tokens!TokensInv => Tokens!TypeOK
    BY DEF Tokens!TokensInv
  <2> QED
    BY <2>1, TokensInvariance, TokensRuns, PTL
<1> DEFINE Orders == /\ part = "buyer" => Buyer!TypeOK
                     /\ part = "checkout" => Checkout!TypeOK
                     /\ part = "qris" => Qris!TypeOK
                     /\ part = "switched" => Switched!TypeOK
                     /\ part = "hosted" => Hosted!TypeOK
           Sellers == /\ part = "two_at_once" => CartOf(Requests, {n1})!TypeOK
                      /\ part = "one_by_one" => CartOf({r1}, Notices)!TypeOK
                      /\ part = "told" => Told!TypeOK
                      /\ part = "told_late" => ToldLate!TypeOK
           Accounts == /\ part = "login" => Login!TypeOK
                       /\ part = "members" => Members!TypeOK
                       /\ part = "payouts" => Payouts!TypeOK
                       /\ part = "kept" => Kept!TypeOK
                       /\ part = "tokens" => Tokens!TypeOK
<1>13. Spec => []Orders
  BY <1>1, <1>2, <1>3, PTL
<1>14. Spec => []Sellers
  BY <1>4, <1>5, <1>6, <1>7, PTL
<1>15. Spec => []Accounts
  BY <1>8, <1>9, <1>10, <1>11, <1>12, PTL
<1>16. Orders /\ Sellers /\ Accounts => TypeOK
  BY DEF TypeOK
<1> HIDE DEF Orders, Sellers, Accounts
<1> QED
  BY <1>13, <1>14, <1>15, <1>16, PTL
================================================================================
