----------------------------- MODULE EnergyToken -----------------------------
(***************************************************************************)
(* The energy_token contract (apps/contracts/energy_token/src/lib.rs):     *)
(* balances, allowances, and the totals from which total_supply() is read. *)
(*                                                                         *)
(* A call is one transaction, a panic rolls it back, and `require_auth`    *)
(* makes the caller the address it passes.  Two guards of the code are     *)
(* always open and have no state here: Paused is written once, with false, *)
(* by initialize, and no function of the contract writes Retired.  A       *)
(* balance key that was never written and a balance of zero refuse the     *)
(* same calls, so both are 0.                                              *)
(***************************************************************************)
EXTENDS Accounts

CONSTANTS MaxI128,      \* the largest i128
          Approving,    \* the <<owner, spender>> pairs that call approve
          MaxGranted    \* bound on the approvals an owner gives one spender

ASSUME TokenAssumption ==
  /\ MaxI128 \in Nat
  /\ Approving \subseteq Address \X Address
  /\ MaxGranted \in Nat

Amount == 0..MaxI128
Positive == 1..MaxI128
Pair == Address \X Address

VARIABLES tokenAdmin,   \* DataKey::Admin
          minter,
          balance,
          allowance,    \* <<from, spender>> -> amount
          totalMinted,
          totalBurned,
          granted,      \* history: sum of the amounts approved, per pair
          spent,        \* history: sum of the amounts spent, per pair
          selfMoved     \* history: sum of the amounts sent to oneself

tokenVars == <<tokenAdmin, minter, balance, allowance, totalMinted,
               totalBurned, granted, spent, selfMoved>>

TokenTypeOK ==
  /\ tokenAdmin \in Address \cup {NoAddress}
  /\ minter \in Address \cup {NoAddress}
  /\ balance \in [Address -> Amount]
  /\ allowance \in [Pair -> Amount]
  /\ totalMinted \in Amount
  /\ totalBurned \in Amount
  /\ granted \in [Pair -> 0..MaxGranted]
  /\ spent \in [Pair -> Nat]
  /\ selfMoved \in Nat

TokenInit ==
  /\ tokenAdmin = NoAddress
  /\ minter = NoAddress
  /\ balance = [a \in Address |-> 0]
  /\ allowance = [p \in Pair |-> 0]
  /\ totalMinted = 0
  /\ totalBurned = 0
  /\ granted = [p \in Pair |-> 0]
  /\ spent = [p \in Pair |-> 0]
  /\ selfMoved = 0

------------------------------------------------------------------------------
(* The operators named Mutant... are wrong variants of the definition that *)
(* follows them.  No action uses them; each breaks a property below.       *)

(* move_balance reads both balances before it writes either one: the       *)
(* recipient's write is its old balance plus the amount, and when the two  *)
(* keys are the same it overwrites the sender's.                           *)
MoveBalance(from, to, n) ==
  /\ balance[from] >= n
  /\ balance[to] + n <= MaxI128
  /\ balance' = [balance EXCEPT ![from] = @ - n, ![to] = balance[to] + n]
  /\ selfMoved' = IF from = to THEN selfMoved + n ELSE selfMoved

(* Without the "insufficient balance" assertion.                           *)
MutantDeductBalance(from, n) == balance' = [balance EXCEPT ![from] = @ - n]

DeductBalance(from, n) ==
  /\ balance[from] >= n
  /\ balance' = [balance EXCEPT ![from] = @ - n]

(* A burn that is not counted.                                             *)
MutantAddBurned(n) == UNCHANGED totalBurned

AddBurned(n) ==
  /\ totalBurned + n <= MaxI128
  /\ totalBurned' = totalBurned + n

(* The allowance is compared and not reduced.                              *)
MutantSpendAllowance(from, spender, n) ==
  /\ allowance[<<from, spender>>] >= n
  /\ spent' = [spent EXCEPT ![<<from, spender>>] = @ + n]
  /\ UNCHANGED allowance

SpendAllowance(from, spender, n) ==
  /\ allowance[<<from, spender>>] >= n
  /\ allowance' = [allowance EXCEPT ![<<from, spender>>] = @ - n]
  /\ spent' = [spent EXCEPT ![<<from, spender>>] = @ + n]

------------------------------------------------------------------------------
InitializeToken(a, m) ==
  /\ tokenAdmin = NoAddress
  /\ tokenAdmin' = a
  /\ minter' = m
  /\ totalMinted' = 0
  /\ totalBurned' = 0
  /\ UNCHANGED <<balance, allowance, granted, spent, selfMoved>>

SetMinter(m) ==
  /\ tokenAdmin # NoAddress
  /\ minter' = m
  /\ UNCHANGED <<tokenAdmin, balance, allowance, totalMinted, totalBurned,
                 granted, spent, selfMoved>>

Mint(to, n) ==
  /\ minter # NoAddress
  /\ balance[to] + n <= MaxI128
  /\ totalMinted + n <= MaxI128
  /\ balance' = [balance EXCEPT ![to] = @ + n]
  /\ totalMinted' = totalMinted + n
  /\ UNCHANGED <<tokenAdmin, minter, allowance, totalBurned, granted, spent,
                 selfMoved>>

Transfer(from, to, n) ==
  /\ MoveBalance(from, to, n)
  /\ UNCHANGED <<tokenAdmin, minter, allowance, totalMinted, totalBurned,
                 granted, spent>>

(* approve overwrites the allowance, whatever was left of it.              *)
Approve(from, spender, n) ==
  /\ granted[<<from, spender>>] + n <= MaxGranted
  /\ allowance' = [allowance EXCEPT ![<<from, spender>>] = n]
  /\ granted' = [granted EXCEPT ![<<from, spender>>] = @ + n]
  /\ UNCHANGED <<tokenAdmin, minter, balance, totalMinted, totalBurned, spent,
                 selfMoved>>

TransferFrom(spender, from, to, n) ==
  /\ SpendAllowance(from, spender, n)
  /\ MoveBalance(from, to, n)
  /\ UNCHANGED <<tokenAdmin, minter, totalMinted, totalBurned, granted>>

Burn(from, n) ==
  /\ DeductBalance(from, n)
  /\ AddBurned(n)
  /\ UNCHANGED <<tokenAdmin, minter, allowance, totalMinted, granted, spent,
                 selfMoved>>

BurnFrom(spender, from, n) ==
  /\ SpendAllowance(from, spender, n)
  /\ DeductBalance(from, n)
  /\ AddBurned(n)
  /\ UNCHANGED <<tokenAdmin, minter, totalMinted, granted, selfMoved>>

TokenNext ==
  \/ \E a, m \in Address : InitializeToken(a, m)
  \/ \E m \in Address : SetMinter(m)
  \/ \E to \in Address, n \in Positive : Mint(to, n)
  \/ \E from, to \in Address, n \in Positive : Transfer(from, to, n)
  \/ \E p \in Approving, n \in Amount : Approve(p[1], p[2], n)
  \/ \E spender, from, to \in Address, n \in Positive :
       TransferFrom(spender, from, to, n)
  \/ \E from \in Address, n \in Positive : Burn(from, n)
  \/ \E spender, from \in Address, n \in Positive : BurnFrom(spender, from, n)

TokenSpec == TokenInit /\ [][TokenNext]_tokenVars

------------------------------------------------------------------------------
TotalSupply == totalMinted - totalBurned

(* What the accounts hold, counted one token at a time: an account's       *)
(* tokens have the numbers from 1 to its balance.                          *)
Tokens(holdings) == {t \in Address \X Positive : t[2] <= holdings[t[1]]}
Held == Cardinality(Tokens(balance))

(* What the accounts hold is what total_supply() reports, plus what was    *)
(* sent to oneself: transfers, allowances, mints and burns in any order    *)
(* keep the books, and a self-transfer is the only call that does not.     *)
HeldIsSupply == Held = TotalSupply + selfMoved

(* A spender never takes more of an owner's balance than the owner's       *)
(* approvals add up to, counting every approval that overwrote another.    *)
SpentWithinGrants ==
  \A p \in Pair : spent[p] + allowance[p] <= granted[p]

(* A step that changes a balance and neither total is a move of one amount *)
(* the sender held: it lowers the sender and raises another account by it, *)
(* or, sent to oneself, it raises that account and nobody pays.  All other *)
(* accounts keep theirs, and what is not the sender's own transfer comes   *)
(* out of an allowance the sender had given.                               *)
MovesOneAmount ==
  [][balance' # balance /\ UNCHANGED <<totalMinted, totalBurned>> =>
       \E from \in Address, n \in Positive :
         /\ n <= balance[from]
         /\ \/ /\ \E to \in Address \ {from} :
                    balance' = [balance EXCEPT ![from] = @ - n, ![to] = @ + n]
               /\ UNCHANGED selfMoved
            \/ /\ balance' = [balance EXCEPT ![from] = @ + n]
               /\ selfMoved' = selfMoved + n
         /\ \/ UNCHANGED <<allowance, spent>>
            \/ \E spender \in Address :
                 /\ allowance[<<from, spender>>] >= n
                 /\ spent' = [spent EXCEPT ![<<from, spender>>] = @ + n]]_tokenVars

------------------------------------------------------------------------------
(* test_transfer_self (lib.rs lines 664-670): an account that sends 40 of  *)
(* its 100 tokens to itself still holds 100; stated for every call that    *)
(* neither mints nor burns.                                                *)
TransferKeepsHoldings ==
  [][UNCHANGED <<totalMinted, totalBurned>> => Held' = Held]_tokenVars

==============================================================================
