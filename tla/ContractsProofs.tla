--------------------------- MODULE ContractsProofs ---------------------------
(* Theorems about the contracts that mint and anchor: EnergyToken for every   *)
(* set of accounts and every width of the amounts, AuditRegistry for every    *)
(* set of hashes, nonces and buckets and every bucketing.                     *)
EXTENDS EnergyToken, AuditRegistry, FiniteSetTheorems, TLAPS

------------------------------------------------------------------------------
(* EnergyToken.                                                              *)

(* No call overflows an amount or makes a balance negative: the checked     *)
(* additions and the "insufficient" assertions keep every key in its range. *)
THEOREM TokenTypeCorrect == TokenSpec => []TokenTypeOK
<1>. USE TokenAssumption, AccountsAssumption
     DEF TokenAssumption, AccountsAssumption, TokenTypeOK, Amount, Positive
<1>1. TokenInit => TokenTypeOK
  BY DEF TokenInit
<1>2. TokenTypeOK /\ [TokenNext]_tokenVars => TokenTypeOK'
  <2>. SUFFICES ASSUME TokenTypeOK, [TokenNext]_tokenVars PROVE TokenTypeOK'
    OBVIOUS
  <2>1. ASSUME NEW a \in Address, NEW m \in Address, InitializeToken(a, m)
        PROVE  TokenTypeOK'
    BY <2>1 DEF InitializeToken
  <2>2. ASSUME NEW m \in Address, SetMinter(m)
        PROVE  TokenTypeOK'
    BY <2>2 DEF SetMinter
  <2>3. ASSUME NEW to \in Address, NEW n \in Positive, Mint(to, n)
        PROVE  TokenTypeOK'
    BY <2>3 DEF Mint
  <2>4. ASSUME NEW from \in Address, NEW to \in Address, NEW n \in Positive,
               Transfer(from, to, n)
        PROVE  TokenTypeOK'
    BY <2>4 DEF Transfer, MoveBalance
  <2>5. ASSUME NEW from \in Address, NEW spender \in Address, NEW n \in Amount,
               Approve(from, spender, n)
        PROVE  TokenTypeOK'
    BY <2>5 DEF Approve, Pair
  <2>6. ASSUME NEW spender \in Address, NEW from \in Address,
               NEW to \in Address, NEW n \in Positive,
               TransferFrom(spender, from, to, n)
        PROVE  TokenTypeOK'
    BY <2>6 DEF TransferFrom, MoveBalance, SpendAllowance, Pair
  <2>7. ASSUME NEW from \in Address, NEW n \in Positive, Burn(from, n)
        PROVE  TokenTypeOK'
    BY <2>7 DEF Burn, DeductBalance, AddBurned
  <2>8. ASSUME NEW spender \in Address, NEW from \in Address,
               NEW n \in Positive, BurnFrom(spender, from, n)
        PROVE  TokenTypeOK'
    BY <2>8 DEF BurnFrom, DeductBalance, AddBurned, SpendAllowance, Pair
  <2>9. CASE UNCHANGED tokenVars
    BY <2>9 DEF tokenVars
  <2>. QED  BY <2>1, <2>2, <2>3, <2>4, <2>5, <2>6, <2>7, <2>8, <2>9 DEF TokenNext
<1>. QED  BY <1>1, <1>2, PTL DEF TokenSpec

(* approve raises the grants by what it writes, and a spender pays every     *)
(* amount out of the allowance: overwriting one never makes room for more.   *)
THEOREM SpendingIsGranted == TokenSpec => []SpentWithinGrants
<1>. USE TokenAssumption, AccountsAssumption
     DEF TokenAssumption, AccountsAssumption, Amount, Positive, Pair
<1>. DEFINE Inv == TokenTypeOK /\ SpentWithinGrants
<1>1. TokenInit => SpentWithinGrants
  BY DEF TokenInit, SpentWithinGrants
<1>2. TokenTypeOK /\ SpentWithinGrants /\ [TokenNext]_tokenVars => SpentWithinGrants'
  <2>. SUFFICES ASSUME TokenTypeOK, SpentWithinGrants, [TokenNext]_tokenVars,
                       NEW p \in Pair
                PROVE  spent'[p] + allowance'[p] <= granted'[p]
    BY DEF SpentWithinGrants
  <2>0. /\ spent[p] \in Nat /\ allowance[p] \in Nat /\ granted[p] \in Nat
        /\ spent[p] + allowance[p] <= granted[p]
    BY DEF TokenTypeOK, SpentWithinGrants
  <2>1. ASSUME NEW q \in Approving, NEW n \in Amount, Approve(q[1], q[2], n)
        PROVE  spent'[p] + allowance'[p] <= granted'[p]
    BY <2>0, <2>1 DEF Approve, TokenTypeOK
  <2>2. ASSUME NEW spender \in Address, NEW from \in Address,
               NEW n \in Positive, SpendAllowance(from, spender, n),
               UNCHANGED granted
        PROVE  spent'[p] + allowance'[p] <= granted'[p]
    BY <2>0, <2>2 DEF SpendAllowance, TokenTypeOK
  <2>3. ASSUME NEW spender \in Address, NEW from \in Address,
               NEW to \in Address, NEW n \in Positive,
               TransferFrom(spender, from, to, n)
        PROVE  spent'[p] + allowance'[p] <= granted'[p]
    BY <2>2, <2>3 DEF TransferFrom
  <2>4. ASSUME NEW spender \in Address, NEW from \in Address,
               NEW n \in Positive, BurnFrom(spender, from, n)
        PROVE  spent'[p] + allowance'[p] <= granted'[p]
    BY <2>2, <2>4 DEF BurnFrom
  <2>5. CASE UNCHANGED <<allowance, granted, spent>>
    BY <2>0, <2>5
  <2>. QED
    BY <2>1, <2>3, <2>4, <2>5
       DEF TokenNext, tokenVars, InitializeToken, SetMinter, Mint, Transfer, Burn
<1>. QED  BY <1>1, <1>2, TokenTypeCorrect, PTL DEF TokenSpec

(* A call that neither mints nor burns moves one amount its sender held, to  *)
(* another account or, on top of the balance, to itself; and it is either    *)
(* the sender's call or paid out of an allowance of the sender's.            *)
THEOREM MovesAreExact == TokenSpec => MovesOneAmount
<1>. USE TokenAssumption, AccountsAssumption
     DEF TokenAssumption, AccountsAssumption, Amount, Positive
<1>. DEFINE Moved(from, n) ==
              /\ n <= balance[from]
              /\ \/ /\ \E to \in Address \ {from} :
                         balance' = [balance EXCEPT ![from] = @ - n, ![to] = @ + n]
                    /\ UNCHANGED selfMoved
                 \/ /\ balance' = [balance EXCEPT ![from] = @ + n]
                    /\ selfMoved' = selfMoved + n
            Paid(from, n) ==
              \/ UNCHANGED <<allowance, spent>>
              \/ \E spender \in Address :
                   /\ allowance[<<from, spender>>] >= n
                   /\ spent' = [spent EXCEPT ![<<from, spender>>] = @ + n]
            Exact ==
              balance' # balance /\ UNCHANGED <<totalMinted, totalBurned>> =>
                \E from \in Address, n \in Positive :
                  /\ n <= balance[from]
                  /\ \/ /\ \E to \in Address \ {from} :
                             balance' = [balance EXCEPT ![from] = @ - n, ![to] = @ + n]
                        /\ UNCHANGED selfMoved
                     \/ /\ balance' = [balance EXCEPT ![from] = @ + n]
                        /\ selfMoved' = selfMoved + n
                  /\ \/ UNCHANGED <<allowance, spent>>
                     \/ \E spender \in Address :
                          /\ allowance[<<from, spender>>] >= n
                          /\ spent' = [spent EXCEPT ![<<from, spender>>] = @ + n]
<1>1. TokenTypeOK /\ [TokenNext]_tokenVars => [Exact]_tokenVars
  <2>. SUFFICES ASSUME TokenTypeOK, TokenNext, balance' # balance,
                       UNCHANGED <<totalMinted, totalBurned>>
                PROVE  \E from \in Address, n \in Positive :
                         Moved(from, n) /\ Paid(from, n)
    OBVIOUS
  <2>0. /\ \A c \in Address : balance[c] \in Nat
        /\ totalMinted \in Nat /\ totalBurned \in Nat
    BY DEF TokenTypeOK
  <2>1. ASSUME NEW from \in Address, NEW to \in Address, NEW n \in Positive,
               MoveBalance(from, to, n)
        PROVE  Moved(from, n)
    <3>1. CASE from = to
      BY <3>1, <2>0, <2>1 DEF MoveBalance, TokenTypeOK
    <3>2. CASE from # to
      BY <3>2, <2>0, <2>1 DEF MoveBalance, TokenTypeOK
    <3>. QED  BY <3>1, <3>2
  <2>2. ASSUME NEW from \in Address, NEW to \in Address, NEW n \in Positive,
               Transfer(from, to, n)
        PROVE  Moved(from, n) /\ Paid(from, n)
    BY <2>1, <2>2 DEF Transfer
  <2>3. ASSUME NEW spender \in Address, NEW from \in Address,
               NEW to \in Address, NEW n \in Positive,
               TransferFrom(spender, from, to, n)
        PROVE  Moved(from, n) /\ Paid(from, n)
    BY <2>1, <2>3 DEF TransferFrom, SpendAllowance
  <2>4. ASSUME NEW n \in Positive,
               (totalMinted' = totalMinted + n) \/ AddBurned(n)
        PROVE  FALSE
    BY <2>0, <2>4 DEF AddBurned
  <2>5. \E from, to \in Address, n \in Positive :
          \/ Transfer(from, to, n)
          \/ \E spender \in Address : TransferFrom(spender, from, to, n)
    BY <2>4 DEF TokenNext, InitializeToken, SetMinter, Mint, Approve, Burn, BurnFrom
  <2>. HIDE DEF Moved, Paid
  <2>6. PICK from \in Address, to \in Address, n \in Positive :
          \/ Transfer(from, to, n)
          \/ \E spender \in Address : TransferFrom(spender, from, to, n)
    BY <2>5
  <2>7. Moved(from, n) /\ Paid(from, n)
    <3>1. CASE Transfer(from, to, n)
      BY <3>1, <2>2
    <3>2. CASE \E spender \in Address : TransferFrom(spender, from, to, n)
      <4>1. PICK spender \in Address : TransferFrom(spender, from, to, n)
        BY <3>2
      <4>. QED  BY <4>1, <2>3
    <3>. QED  BY <2>6, <3>1, <3>2
  <2>. QED  BY <2>7
<1>. QED  BY <1>1, TokenTypeCorrect, PTL DEF TokenSpec, MovesOneAmount

------------------------------------------------------------------------------
(* The books.  Tokens are counted one by one, so that a balance that grows   *)
(* by n is a set of tokens that gains n elements.                            *)

(* Finitely many accounts hold finitely many tokens.                         *)
LEMMA TokensAreFinite ==
  ASSUME NEW b \in [Address -> Amount]
  PROVE  IsFiniteSet(Tokens(b)) /\ Cardinality(Tokens(b)) \in Nat
<1>1. IsFiniteSet(Positive)
  BY TokenAssumption, FS_Interval DEF TokenAssumption, Positive
<1>2. IsFiniteSet(Address \X Positive)
  BY <1>1, AccountsAssumption, FS_Product DEF AccountsAssumption
<1>3. Tokens(b) \in SUBSET (Address \X Positive)
  BY DEF Tokens
<1>. QED  BY <1>2, <1>3, FS_Subset, FS_CardinalityType

(* A balance raised by n adds n tokens: those with the next n numbers.       *)
LEMMA CreditAddsTokens ==
  ASSUME NEW b \in [Address -> Amount], NEW c \in [Address -> Amount],
         NEW to \in Address, NEW n \in Nat,
         c[to] = b[to] + n,
         \A a \in Address \ {to} : c[a] = b[a]
  PROVE  Cardinality(Tokens(c)) = Cardinality(Tokens(b)) + n
<1>. DEFINE new == {to} \X (b[to] + 1 .. b[to] + n)
<1>1. /\ b[to] \in Nat /\ b[to] + n <= MaxI128 /\ MaxI128 \in Nat
      /\ \A a \in Address : b[a] \in Nat
  BY TokenAssumption DEF TokenAssumption, Amount
<1>2. Tokens(c) = Tokens(b) \cup new
  <2>1. ASSUME NEW t \in Address \X Positive
        PROVE  t[2] <= c[t[1]] <=> t[2] <= b[t[1]] \/ t \in new
    <3>1. PICK a \in Address, i \in Positive : t = <<a, i>>
      BY <2>1
    <3>2. i \in Nat /\ i >= 1
      BY <1>1 DEF Positive
    <3>3. t \in new <=> a = to /\ b[to] < i /\ i <= b[to] + n
      BY <1>1, <3>1, <3>2
    <3>. QED  BY <1>1, <3>1, <3>2, <3>3
  <2>2. new \subseteq Address \X Positive
    BY <1>1 DEF Positive
  <2>. QED  BY <2>1, <2>2 DEF Tokens
<1>3. Tokens(b) \cap new = {}
  BY <1>1 DEF Tokens
<1>4. IsFiniteSet(new) /\ Cardinality(new) = n
  <2>1. /\ IsFiniteSet(b[to] + 1 .. b[to] + n)
        /\ Cardinality(b[to] + 1 .. b[to] + n) = n
    <3>1. b[to] + 1 \in Int /\ b[to] + n \in Int
      BY <1>1
    <3>2. /\ IsFiniteSet(b[to] + 1 .. b[to] + n)
          /\ Cardinality(b[to] + 1 .. b[to] + n)
               = IF b[to] + 1 > b[to] + n THEN 0
                 ELSE (b[to] + n) - (b[to] + 1) + 1
      BY <3>1, FS_Interval
    <3>. QED  BY <1>1, <3>2
  <2>2. IsFiniteSet({to}) /\ Cardinality({to}) = 1
    BY FS_Singleton
  <2>3. /\ IsFiniteSet(new)
        /\ Cardinality(new) = Cardinality({to}) * Cardinality(b[to] + 1 .. b[to] + n)
    BY <2>1, <2>2, FS_Product, Zenon
  <2>4. 1 * n = n
    OBVIOUS
  <2>. QED  BY <2>1, <2>2, <2>3, <2>4
<1>5. Cardinality(Tokens(b) \cup new)
        = Cardinality(Tokens(b)) + Cardinality(new) - Cardinality({})
  BY <1>3, <1>4, TokensAreFinite, FS_Union
<1>6. Cardinality(Tokens(b)) \in Nat /\ Cardinality({}) = 0
  BY TokensAreFinite, FS_EmptySet
<1>. QED  BY <1>2, <1>4, <1>5, <1>6

(* A balance lowered by n loses n tokens: raising it again restores them.    *)
LEMMA DebitTakesTokens ==
  ASSUME NEW b \in [Address -> Amount], NEW c \in [Address -> Amount],
         NEW from \in Address, NEW n \in Nat,
         c[from] = b[from] - n,
         \A a \in Address \ {from} : c[a] = b[a]
  PROVE  Cardinality(Tokens(c)) = Cardinality(Tokens(b)) - n
<1>1. b[from] = c[from] + n /\ \A a \in Address \ {from} : b[a] = c[a]
  BY TokenAssumption DEF TokenAssumption, Amount
<1>2. Cardinality(Tokens(b)) = Cardinality(Tokens(c)) + n
  BY <1>1, CreditAddsTokens
<1>3. Cardinality(Tokens(c)) \in Nat
  BY TokensAreFinite
<1>. QED  BY <1>2, <1>3

(* move_balance keeps the number of tokens, but for a self-transfer, whose   *)
(* second write undoes the first and adds the amount.                        *)
LEMMA MoveKeepsTokens ==
  ASSUME TokenTypeOK, TokenTypeOK',
         NEW from \in Address, NEW to \in Address, NEW n \in Positive,
         MoveBalance(from, to, n)
  PROVE  Held' = Held + (selfMoved' - selfMoved)
<1>1. /\ n \in Nat /\ selfMoved \in Nat /\ MaxI128 \in Nat
      /\ balance \in [Address -> Amount] /\ balance' \in [Address -> Amount]
      /\ Held \in Nat
      /\ \A a \in Address : balance[a] \in Nat
  BY TokenAssumption, TokensAreFinite
     DEF TokenAssumption, TokenTypeOK, Amount, Positive, Held
<1>2. CASE from = to
  <2>1. /\ balance'[to] = balance[to] + n
        /\ \A a \in Address \ {to} : balance'[a] = balance[a]
    BY <1>1, <1>2 DEF MoveBalance
  <2>2. Held' = Held + n
    BY <1>1, <2>1, CreditAddsTokens DEF Held
  <2>. QED  BY <1>1, <1>2, <2>2 DEF MoveBalance
<1>3. CASE from # to
  <2>. DEFINE b == [balance EXCEPT ![from] = @ - n]
  <2>1. /\ b \in [Address -> Amount]
        /\ b[from] = balance[from] - n /\ b[to] = balance[to]
        /\ \A a \in Address \ {from} : b[a] = balance[a]
    BY <1>1, <1>3 DEF Amount, MoveBalance
  <2>2. /\ balance'[to] = b[to] + n
        /\ \A a \in Address \ {to} : balance'[a] = b[a]
    BY <1>1, <1>3 DEF MoveBalance
  <2>. HIDE DEF b
  <2>3. Cardinality(Tokens(b)) = Held - n
    BY <1>1, <2>1, DebitTakesTokens DEF Held
  <2>4. Held' = Cardinality(Tokens(b)) + n
    BY <1>1, <2>1, <2>2, CreditAddsTokens DEF Held
  <2>. QED  BY <1>1, <1>3, <2>3, <2>4 DEF MoveBalance
<1>. QED  BY <1>2, <1>3

(* The books.  The inductive form adds that nothing is held or counted, and  *)
(* nobody can mint, before initialize, which resets the totals and not the   *)
(* balances.                                                                 *)
Blank ==
  /\ minter = NoAddress
  /\ balance = [a \in Address |-> 0]
  /\ totalMinted = 0
  /\ totalBurned = 0

BooksInv ==
  /\ TokenTypeOK
  /\ HeldIsSupply
  /\ tokenAdmin = NoAddress => Blank

(* The accounts together hold what total_supply() reports and what was sent  *)
(* to oneself, whatever is minted, moved, approved and burned in any order.  *)
THEOREM BooksBalance == TokenSpec => []HeldIsSupply
<1>1. TokenInit => BooksInv
  <2>. SUFFICES ASSUME TokenInit PROVE BooksInv
    OBVIOUS
  <2>1. TokenTypeOK
    BY TokenAssumption DEF TokenAssumption, TokenInit, TokenTypeOK, Amount
  <2>2. Tokens(balance) = {}
    BY TokenAssumption DEF TokenAssumption, TokenInit, Tokens, Positive
  <2>3. Held = 0
    BY <2>2, FS_EmptySet DEF Held
  <2>. QED
    BY <2>1, <2>3 DEF BooksInv, TokenInit, HeldIsSupply, TotalSupply, Blank
<1>2. BooksInv /\ TokenTypeOK' /\ [TokenNext]_tokenVars => BooksInv'
  <2>. SUFFICES ASSUME BooksInv, TokenTypeOK', [TokenNext]_tokenVars
                PROVE  BooksInv'
    OBVIOUS
  <2>0. /\ TokenTypeOK
        /\ Held = totalMinted - totalBurned + selfMoved
        /\ balance \in [Address -> Amount] /\ balance' \in [Address -> Amount]
        /\ Held \in Nat
        /\ totalMinted \in Nat /\ totalBurned \in Nat /\ selfMoved \in Nat
        /\ MaxI128 \in Nat
        /\ \A n \in Positive : n \in Amount /\ n \in Nat /\ n > 0
        /\ \A a \in Address : balance[a] \in Nat /\ balance[a] <= MaxI128
    BY TokenAssumption, TokensAreFinite
       DEF TokenAssumption, BooksInv, TokenTypeOK, HeldIsSupply, TotalSupply,
           Amount, Positive, Held
  <2>. DEFINE Goal == Held' = totalMinted' - totalBurned' + selfMoved'
  <2>1. ASSUME NEW a \in Address, NEW m \in Address, InitializeToken(a, m)
        PROVE  Goal /\ tokenAdmin' # NoAddress
    <3>1. totalMinted' = totalMinted /\ totalBurned' = totalBurned
      BY <2>1 DEF InitializeToken, BooksInv, Blank
    <3>. QED
      BY <2>0, <2>1, <3>1, AccountsAssumption
         DEF InitializeToken, AccountsAssumption, Held
  <2>2. ASSUME NEW to \in Address, NEW n \in Positive, Mint(to, n)
        PROVE  Goal /\ tokenAdmin # NoAddress
    <3>1. /\ balance'[to] = balance[to] + n
          /\ \A a \in Address \ {to} : balance'[a] = balance[a]
      BY <2>0, <2>2 DEF Mint
    <3>2. Held' = Held + n
      BY <2>0, <3>1, CreditAddsTokens DEF Held
    <3>. QED  BY <2>0, <2>2, <3>2 DEF Mint, BooksInv, Blank
  <2>3. ASSUME NEW from \in Address, NEW to \in Address, NEW n \in Positive,
               MoveBalance(from, to, n), UNCHANGED <<totalMinted, totalBurned>>
        PROVE  Goal /\ tokenAdmin # NoAddress
    <3>1. Held' = Held + (selfMoved' - selfMoved)
      BY <2>0, <2>3, MoveKeepsTokens
    <3>2. selfMoved' \in Nat
      BY DEF TokenTypeOK
    <3>3. balance[from] > 0
      BY <2>0, <2>3 DEF MoveBalance
    <3>. QED  BY <2>0, <2>3, <3>1, <3>2, <3>3 DEF BooksInv, Blank
  <2>4. ASSUME NEW from \in Address, NEW n \in Positive,
               DeductBalance(from, n), AddBurned(n),
               UNCHANGED <<totalMinted, selfMoved>>
        PROVE  Goal /\ tokenAdmin # NoAddress
    <3>1. /\ balance'[from] = balance[from] - n
          /\ \A a \in Address \ {from} : balance'[a] = balance[a]
          /\ balance[from] > 0
      BY <2>0, <2>4 DEF DeductBalance
    <3>2. Held' = Held - n
      BY <2>0, <3>1, DebitTakesTokens DEF Held
    <3>. QED  BY <2>0, <2>4, <3>1, <3>2 DEF AddBurned, BooksInv, Blank
  <2>5. ASSUME UNCHANGED <<balance, totalMinted, totalBurned, selfMoved>>
        PROVE  Goal
    BY <2>0, <2>5 DEF Held
  <2>6. Goal /\ (tokenAdmin' = NoAddress => Blank')
    <3>1. CASE \E from, to \in Address, n \in Positive : Transfer(from, to, n)
      BY <2>3, <3>1 DEF Transfer
    <3>2. CASE \E spender, from, to \in Address, n \in Positive :
                 TransferFrom(spender, from, to, n)
      BY <2>3, <3>2 DEF TransferFrom
    <3>3. CASE \E from \in Address, n \in Positive : Burn(from, n)
      BY <2>4, <3>3 DEF Burn
    <3>4. CASE \E spender, from \in Address, n \in Positive :
                 BurnFrom(spender, from, n)
      BY <2>4, <3>4 DEF BurnFrom
    <3>5. CASE \E m \in Address : SetMinter(m)
      BY <2>5, <3>5 DEF SetMinter
    <3>6. CASE \E p \in Approving, n \in Amount : Approve(p[1], p[2], n)
      BY <2>5, <3>6 DEF Approve, BooksInv, Blank
    <3>7. CASE UNCHANGED tokenVars
      BY <2>5, <3>7 DEF tokenVars, BooksInv, Blank
    <3>8. CASE \E to \in Address, n \in Positive : Mint(to, n)
      BY <2>2, <3>8 DEF Mint
    <3>. QED
      BY <2>1, <3>1, <3>2, <3>3, <3>4, <3>5, <3>6, <3>7, <3>8 DEF TokenNext
  <2>. QED  BY <2>6 DEF BooksInv, HeldIsSupply, TotalSupply
<1>. QED  BY <1>1, <1>2, TokenTypeCorrect, PTL DEF TokenSpec, BooksInv

------------------------------------------------------------------------------
(* AuditRegistry.                                                            *)

(* The counter never leaves u32 and every entry is a ledger.                 *)
THEOREM RegistryTypeCorrect == RegistrySpec => []RegistryTypeOK
<1>. USE RegistryAssumption, AccountsAssumption
   DEF RegistryAssumption, AccountsAssumption, RegistryTypeOK
<1>1. RegistryInit => RegistryTypeOK
  BY DEF RegistryInit
<1>2. RegistryTypeOK /\ [RegistryNext]_registryVars => RegistryTypeOK'
  <2>. SUFFICES ASSUME RegistryTypeOK, [RegistryNext]_registryVars PROVE RegistryTypeOK'
    OBVIOUS
  <2>1. CASE CloseLedger
    BY <2>1 DEF CloseLedger, roles
  <2>2. ASSUME NEW n \in Nonce, ExpireNonce(n)
        PROVE  RegistryTypeOK'
    BY <2>2 DEF ExpireNonce, roles
  <2>3. ASSUME NEW a \in Address, NEW signer \in Address,
               InitializeRegistry(a, signer)
        PROVE  RegistryTypeOK'
    BY <2>3 DEF InitializeRegistry
  <2>4. ASSUME NEW v \in Version, Migrate(v)
        PROVE  RegistryTypeOK'
    BY <2>4 DEF Migrate
  <2>5. ASSUME NEW signer \in Address, SetApiSigner(signer)
        PROVE  RegistryTypeOK'
    BY <2>5 DEF SetApiSigner
  <2>6. ASSUME NEW caller \in Address, NEW h \in Hash, NEW n \in Nonce,
               Anchor(caller, h, n)
        PROVE  RegistryTypeOK'
    BY <2>6 DEF Anchor, Store, CountAnchor, roles
  <2>7. CASE UNCHANGED registryVars
    BY <2>7 DEF registryVars, roles
  <2>. QED  BY <2>1, <2>2, <2>3, <2>4, <2>5, <2>6, <2>7 DEF RegistryNext
<1>. QED  BY <1>1, <1>2, PTL DEF RegistrySpec

(* What an anchor does to the answers of verify(): the hash had none, gets   *)
(* the current ledger, and the answer for every other hash stays.            *)
LEMMA AnchorIsOneEntry ==
  ASSUME RegistryTypeOK, NEW h \in Hash, Store(h)
  PROVE  /\ Verify(h) = Unanchored
         /\ Verify(h)' = ledger
         /\ \A g \in Hash \ {h} : Verify(g)' = Verify(g)
BY RegistryAssumption, AccountsAssumption
   DEF RegistryAssumption, AccountsAssumption, RegistryTypeOK, Store, Verify

(* total_anchors() is the number of anchored hashes.  The inductive form     *)
(* adds that the set of them is finite, and that none exists before          *)
(* initialize, which resets the counter and not the buckets.                 *)
CountInv ==
  /\ RegistryTypeOK
  /\ IsFiniteSet(Anchored)
  /\ TotalCountsAnchors
  /\ registryAdmin = NoAddress => apiSigner = NoAddress /\ totalAnchors = 0

LEMMA AnchorCounts ==
  ASSUME CountInv, NEW caller \in Address, NEW h \in Hash, NEW n \in Nonce,
         Anchor(caller, h, n)
  PROVE  IsFiniteSet(Anchored)' /\ TotalCountsAnchors'
<1>1. RegistryTypeOK /\ Store(h) /\ CountAnchor
  BY DEF CountInv, Anchor
<1>2. Anchored' = Anchored \cup {h} /\ h \notin Anchored
  <2>1. ledger # Unanchored
    BY <1>1, RegistryAssumption, AccountsAssumption
   DEF RegistryAssumption, AccountsAssumption, RegistryTypeOK
  <2>. QED  BY <1>1, <2>1, AnchorIsOneEntry DEF Anchored, IsAnchored
<1>3. /\ IsFiniteSet(Anchored')
      /\ Cardinality(Anchored') = Cardinality(Anchored) + 1
  BY <1>2, FS_AddElement DEF CountInv
<1>. QED  BY <1>1, <1>3 DEF CountInv, CountAnchor, TotalCountsAnchors

THEOREM TotalIsExact == RegistrySpec => []TotalCountsAnchors
<1>1. RegistryInit => CountInv
  <2>. SUFFICES ASSUME RegistryInit PROVE CountInv
    OBVIOUS
  <2>1. RegistryTypeOK
    BY RegistryAssumption, AccountsAssumption
   DEF RegistryAssumption, AccountsAssumption, RegistryInit, RegistryTypeOK
  <2>2. Anchored = {}
    BY RegistryAssumption, AccountsAssumption
   DEF RegistryAssumption, AccountsAssumption, RegistryInit, Anchored, IsAnchored, Verify
  <2>. QED  BY <2>1, <2>2, FS_EmptySet DEF CountInv, RegistryInit, TotalCountsAnchors
<1>2. CountInv /\ RegistryTypeOK' /\ [RegistryNext]_registryVars => CountInv'
  <2>. SUFFICES ASSUME CountInv, RegistryTypeOK', [RegistryNext]_registryVars PROVE CountInv'
    OBVIOUS
  <2>1. UNCHANGED bucket => UNCHANGED Anchored
    BY DEF Anchored, IsAnchored, Verify
  <2>2. ASSUME NEW a \in Address, NEW signer \in Address,
               InitializeRegistry(a, signer)
        PROVE  CountInv'
    BY <2>1, <2>2, AccountsAssumption
       DEF AccountsAssumption, InitializeRegistry, CountInv, TotalCountsAnchors
  <2>3. ASSUME NEW caller \in Address, NEW h \in Hash, NEW n \in Nonce,
               Anchor(caller, h, n)
        PROVE  CountInv'
    <3>1. registryAdmin' # NoAddress
      BY <2>3, RegistryAssumption, AccountsAssumption
   DEF RegistryAssumption, AccountsAssumption, Anchor, CountInv, roles
    <3>. QED  BY <2>3, <3>1, AnchorCounts DEF CountInv
  <2>4. ASSUME UNCHANGED <<bucket, totalAnchors, registryAdmin>>,
               registryAdmin = NoAddress => UNCHANGED apiSigner
        PROVE  CountInv'
    BY <2>1, <2>4 DEF CountInv, TotalCountsAnchors
  <2>. QED
    BY <2>2, <2>3, <2>4
       DEF RegistryNext, registryVars, roles, CloseLedger, ExpireNonce, Migrate, SetApiSigner
<1>. QED  BY <1>1, <1>2, RegistryTypeCorrect, PTL DEF RegistrySpec, CountInv

(* An anchor sits in the bucket verify() reads, and is no later than now.    *)
THEOREM AnchorsArePlaced == RegistrySpec => []OneBucketPerHash
<1>. USE RegistryAssumption, AccountsAssumption
   DEF RegistryAssumption, AccountsAssumption, OneBucketPerHash
<1>1. RegistryInit => OneBucketPerHash
  BY DEF RegistryInit
<1>2. RegistryTypeOK /\ OneBucketPerHash /\ [RegistryNext]_registryVars => OneBucketPerHash'
  <2>. SUFFICES ASSUME RegistryTypeOK, OneBucketPerHash, [RegistryNext]_registryVars,
                       NEW b \in BucketId, NEW h \in Hash,
                       bucket'[b][h] # Unanchored
                PROVE  b = GetBucketId[h] /\ bucket'[b][h] <= ledger'
    OBVIOUS
  <2>1. ledger \in Nat /\ (bucket[b][h] # Unanchored => bucket[b][h] \in Nat)
    BY DEF RegistryTypeOK
  <2>2. CASE CloseLedger
    BY <2>1, <2>2 DEF CloseLedger
  <2>3. ASSUME NEW caller \in Address, NEW g \in Hash, NEW n \in Nonce,
               Anchor(caller, g, n)
        PROVE  b = GetBucketId[h] /\ bucket'[b][h] <= ledger'
    <3>1. /\ ledger' = ledger
          /\ bucket' = [bucket EXCEPT ![GetBucketId[g]][g] = ledger]
      BY <2>3 DEF Anchor, Store
    <3>2. CASE b = GetBucketId[g] /\ h = g
      BY <2>1, <3>1, <3>2 DEF RegistryTypeOK
    <3>3. CASE ~(b = GetBucketId[g] /\ h = g)
      BY <3>1, <3>3 DEF RegistryTypeOK
    <3>. QED  BY <3>2, <3>3
  <2>4. CASE UNCHANGED <<ledger, bucket>>
    BY <2>4
  <2>. QED
    BY <2>2, <2>3, <2>4
       DEF RegistryNext, registryVars, ExpireNonce, InitializeRegistry, Migrate, SetApiSigner
<1>. QED  BY <1>1, <1>2, RegistryTypeCorrect, PTL DEF RegistrySpec

(* Every call is an append to the log of anchors or leaves it as it was.     *)
THEOREM RegistryImplementsLog == RegistrySpec => ImplementsLog
<1>. DEFINE log == [h \in Hash |-> Verify(h)]
<1>1. RegistryInit => Log!Init
  BY RegistryAssumption, AccountsAssumption
   DEF RegistryAssumption, AccountsAssumption, RegistryInit, Log!Init, Verify
<1>2. RegistryTypeOK /\ [RegistryNext]_registryVars => [Log!Next]_(Log!vars)
  <2>. SUFFICES ASSUME RegistryTypeOK, [RegistryNext]_registryVars PROVE [Log!Next]_(Log!vars)
    OBVIOUS
  <2>1. UNCHANGED bucket => log' = log
    BY DEF Verify
  <2>2. CASE CloseLedger
    BY <2>1, <2>2 DEF CloseLedger, Log!Next, Log!Tick
  <2>3. ASSUME NEW caller \in Address, NEW h \in Hash, NEW n \in Nonce,
               Anchor(caller, h, n)
        PROVE  Log!Anchor(h)
    <3>1. Store(h) /\ ledger' = ledger
      BY <2>3 DEF Anchor
    <3>2. log' = [log EXCEPT ![h] = ledger]
      BY <3>1, AnchorIsOneEntry
    <3>. QED  BY <3>1, <3>2, AnchorIsOneEntry DEF Log!Anchor
  <2>4. CASE UNCHANGED <<ledger, bucket>>
    BY <2>1, <2>4 DEF Log!vars
  <2>. QED
    BY <2>2, <2>3, <2>4
       DEF RegistryNext, Log!Next, registryVars, ExpireNonce, InitializeRegistry, Migrate, SetApiSigner
<1>. QED  BY <1>1, <1>2, RegistryTypeCorrect, PTL DEF RegistrySpec, ImplementsLog, Log!Spec

(* What verify() answered once it answers for ever, at the ledger it named:  *)
(* a step of the log writes only where there was nothing.                    *)
THEOREM AnchorsArePermanent ==
  RegistrySpec => [][\A h \in Hash : IsAnchored(h) => Verify(h)' = Verify(h)]_registryVars
<1>. DEFINE Kept == \A h \in Hash : IsAnchored(h) => Verify(h)' = Verify(h)
<1>1. [Log!Next]_(Log!vars) => Kept
  <2>. SUFFICES ASSUME [Log!Next]_(Log!vars), NEW h \in Hash, IsAnchored(h)
                PROVE  Verify(h)' = Verify(h)
    OBVIOUS
  <2>. DEFINE log == [g \in Hash |-> Verify(g)]
  <2>1. ASSUME NEW g \in Hash, Log!Anchor(g)
        PROVE  log'[h] = log[h]
    <3>1. log[g] = Unanchored /\ log' = [log EXCEPT ![g] = ledger]
      BY <2>1 DEF Log!Anchor
    <3>. QED  BY <3>1 DEF IsAnchored
  <2>2. CASE UNCHANGED log
    BY <2>2
  <2>3. log'[h] = log[h]
    BY <2>1, <2>2 DEF Log!Next, Log!Tick, Log!vars
  <2>. QED  BY <2>3
<1>. HIDE DEF Kept
<1>2. RegistrySpec => [][Kept]_registryVars
  BY <1>1, RegistryImplementsLog, PTL
     DEF ImplementsLog, Log!Spec
<1>. QED  BY <1>2 DEF Kept
==============================================================================
