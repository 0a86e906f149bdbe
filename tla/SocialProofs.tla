------------------------------- MODULE SocialProofs -------------------------------
(***************************************************************************)
(* Theorems about Wallets, Messages, Activity, Notifications and Rooms,    *)
(* for any users, rows, overlapping calls and failures, and any number of  *)
(* server instances.                                                       *)
(***************************************************************************)
EXTENDS Wallets, Messages, Activity, Notifications, Rooms,
        FiniteSetTheorems, WellFoundedInduction, TLAPS

--------------------------------------------------------------------------------
(* Wallets *)

Creating  == {"countWallets", "insertWallet"}
Promotion == {"findPrimary", "demote", "promote"}
WalletAwaits    == Creating \cup Promotion \cup {"idle", "saveVerified", "saveRevoked"}

WTypeOK ==
  /\ wallets \in [Addresses -> Wallet \cup {None}]
  /\ pc \in [Calls -> WalletAwaits]
  /\ DOMAIN hand = Calls
  /\ failures \in Nat
  /\ apart \in BOOLEAN

\* What a call holds at each of its awaits.  A wallet it has found is there for
\* good, and a wallet about to be inserted is primary or not the first.
WalletHandOK(c) ==
  /\ pc[c] \in Creating => /\ hand[c] \in [address : Addresses, row : Wallet]
                          /\ hand[c].row.status = "pending"
  /\ pc[c] = "insertWallet" => hand[c].row.type = "primary" \/ WalletsOf(hand[c].row.user) # {}
  /\ pc[c] \in {"saveVerified", "saveRevoked"} \cup Promotion =>
       hand[c].address \in Addresses /\ wallets[hand[c].address] # None
  /\ pc[c] = "demote" =>
       /\ hand[c].primary \in Addresses /\ wallets[hand[c].primary] # None
       /\ wallets[hand[c].primary].user = wallets[hand[c].address].user

\* While calls do not overlap, what a call has asked of a wallet stays so.
WalletSerialOK(c) ==
  apart =>
    /\ pc[c] # "idle" => \A d \in Calls \ {c} : pc[d] = "idle"
    /\ pc[c] = "saveRevoked" => wallets[hand[c].address].type # "primary"
    /\ pc[c] \in Promotion => wallets[hand[c].address].status # "revoked"

WalletsInv ==
  /\ WTypeOK
  /\ \A c \in Calls : WalletHandOK(c)
  /\ \A c \in Calls : WalletSerialOK(c)
  /\ SomePrimary
  /\ PrimaryNotRevoked

\* No step takes a wallet away or gives it to another user.
WalletsKept ==
  /\ DOMAIN wallets' = DOMAIN wallets
  /\ \A a \in Addresses :
       wallets[a] # None => wallets'[a] # None /\ wallets'[a].user = wallets[a].user

LEMMA WalletsInitInv == WalletsInit => WalletsInv
BY DEF WalletsInit, ServiceInit, WalletsInv, WTypeOK, WalletHandOK, WalletSerialOK, SomePrimary,
   PrimaryNotRevoked, WalletsOf, Used, WalletAwaits, Creating, Promotion

--------------------------------------------------------------------------------
\* A request begins while nothing of the tables changes.
LEMMA WalletBeginKeeps ==
  ASSUME WalletsInv, NEW c \in Calls, NEW at, NEW held, Begin(c, at, held), UNCHANGED wallets,
         at \in {"countWallets", "saveVerified", "saveRevoked", "findPrimary"},
         at = "countWallets" =>
           held \in [address : Addresses, row : Wallet] /\ held.row.status = "pending",
         at # "countWallets" => held.address \in Addresses /\ wallets[held.address] # None,
         at = "saveRevoked" => wallets[held.address].type # "primary",
         at = "findPrimary" => wallets[held.address].status # "revoked"
  PROVE  WalletsInv'
<1> USE DEF Creating, Promotion
<1>1. /\ pc[c] = "idle" /\ pc' = [pc EXCEPT ![c] = at] /\ hand' = [hand EXCEPT ![c] = held]
      /\ apart' = (apart /\ \A d \in Calls \ {c} : pc[d] = "idle")
      /\ failures' = failures
  BY DEF Begin, Idle
<1>2. WTypeOK'
  BY <1>1 DEF WalletsInv, WTypeOK, WalletAwaits
<1>3. ASSUME NEW d \in Calls PROVE WalletHandOK(d)'
  BY <1>1 DEF WalletsInv, WTypeOK, WalletHandOK, WalletsOf, Used
<1>4. ASSUME NEW d \in Calls PROVE WalletSerialOK(d)'
  BY <1>1 DEF WalletsInv, WTypeOK, WalletSerialOK
<1>5. SomePrimary'
  <2> SUFFICES ASSUME failures' = 0, NEW u \in Users, WalletsOf(u)' # {}
               PROVE  PrimariesOf(u)' # {} \/ Promoting(u)'
    BY DEF SomePrimary
  <2>1. PrimariesOf(u) # {} \/ Promoting(u)
    BY <1>1 DEF WalletsInv, SomePrimary, WalletsOf, Used
  <2>2. CASE PrimariesOf(u) # {}
    BY <2>2 DEF PrimariesOf, WalletsOf, Used
  <2>3. CASE Promoting(u)
    <3>1. PICK d \in Calls : pc[d] = "promote" /\ wallets[hand[d].address].user = u
      BY <2>3 DEF Promoting
    <3>2. d # c /\ pc'[d] = pc[d] /\ hand'[d] = hand[d]
      BY <1>1, <3>1 DEF WalletsInv, WTypeOK
    <3> QED BY <3>1, <3>2 DEF Promoting
  <2> QED BY <2>1, <2>2, <2>3
<1>6. PrimaryNotRevoked'
  BY <1>1 DEF WalletsInv, PrimaryNotRevoked, Used, WTypeOK
<1> QED BY <1>2, <1>3, <1>4, <1>5, <1>6 DEF WalletsInv

--------------------------------------------------------------------------------
(* A call that goes on: what it leaves of the others, *)

LEMMA OthersHold ==
  ASSUME WalletsInv, NEW c \in Calls, NEW d \in Calls \ {c}, WalletsKept,
         pc'[d] = pc[d], hand'[d] = hand[d]
  PROVE  WalletHandOK(d)'
<1>1. WalletHandOK(d)
  BY DEF WalletsInv
<1>2. \A u \in Users : WalletsOf(u) \subseteq WalletsOf(u)'
  BY DEF WalletsInv, WTypeOK, WalletsKept, WalletsOf, Used
<1>3. pc[d] = "insertWallet" => hand[d].row.user \in Users
  BY <1>1 DEF WalletHandOK, Creating, Wallet
<1> QED BY <1>1, <1>2, <1>3 DEF WalletHandOK, WalletsKept, Creating, Promotion

LEMMA OthersIdle ==
  ASSUME WalletsInv, NEW c \in Calls, NEW d \in Calls \ {c},
         pc[c] # "idle", pc'[d] = pc[d], apart' = apart
  PROVE  WalletSerialOK(d)'
<1>1. apart => pc[d] = "idle"
  BY DEF WalletsInv, WalletSerialOK
<1> QED BY <1>1 DEF WalletSerialOK, Promotion

\* and of the primary wallet of a user.
LEMMA PrimaryStays ==
  ASSUME WalletsInv, NEW c \in Calls, WalletsKept, pc[c] # "promote",
         \A d \in Calls \ {c} : pc'[d] = pc[d] /\ hand'[d] = hand[d],
         failures = 0, NEW u \in Users, WalletsOf(u) # {},
         PrimariesOf(u) \subseteq PrimariesOf(u)'
  PROVE  PrimariesOf(u)' # {} \/ Promoting(u)'
<1>1. PrimariesOf(u) # {} \/ Promoting(u)
  BY DEF WalletsInv, SomePrimary
<1>2. CASE Promoting(u)
  <2>1. PICK d \in Calls : pc[d] = "promote" /\ wallets[hand[d].address].user = u
    BY <1>2 DEF Promoting
  <2>2. hand[d].address \in Addresses /\ wallets[hand[d].address] # None
    BY <2>1 DEF WalletsInv, WalletHandOK, Promotion
  <2> QED BY <2>1, <2>2 DEF Promoting, WalletsKept
<1> QED BY <1>1, <1>2

\* The same, when the step changes no wallet.
LEMMA SamePrimary ==
  ASSUME WalletsInv, NEW c \in Calls, wallets' = wallets, pc[c] # "promote",
         \A d \in Calls \ {c} : pc'[d] = pc[d] /\ hand'[d] = hand[d],
         failures' = failures, apart' = apart
  PROVE  SomePrimary' /\ PrimaryNotRevoked' /\ WalletsKept
<1>1. WalletsKept
  BY DEF WalletsKept
<1>2. SomePrimary'
  BY <1>1, PrimaryStays DEF SomePrimary, WalletsOf, PrimariesOf, Used
<1>3. PrimaryNotRevoked'
  BY DEF WalletsInv, PrimaryNotRevoked, Used
<1> QED BY <1>1, <1>2, <1>3

--------------------------------------------------------------------------------
LEMMA CountKeeps ==
  ASSUME WalletsInv, NEW c \in Calls, CountWallets(c)
  PROVE  WalletsInv'
<1> USE DEF Creating, Promotion
<1> DEFINE t == IF WalletsOf(hand[c].row.user) = {} THEN "primary" ELSE hand[c].row.type
           held == [hand[c] EXCEPT !.row.type = t]
<1>1. /\ pc[c] = "countWallets" /\ pc' = [pc EXCEPT ![c] = "insertWallet"]
      /\ hand' = [hand EXCEPT ![c] = held]
      /\ failures' = failures /\ apart' = apart /\ wallets' = wallets
  BY DEF CountWallets, Go
<1>2. hand[c] \in [address : Addresses, row : Wallet] /\ hand[c].row.status = "pending"
  BY <1>1 DEF WalletsInv, WalletHandOK
<1>3. /\ held \in [address : Addresses, row : Wallet] /\ held.row.status = "pending"
      /\ held.row.user = hand[c].row.user /\ held.row.type = t
  BY <1>2 DEF Wallet, WalletType
<1>4. WTypeOK'
  BY <1>1 DEF WalletsInv, WTypeOK, WalletAwaits
<1>5. \A d \in Calls \ {c} : pc'[d] = pc[d] /\ hand'[d] = hand[d]
  BY <1>1 DEF WalletsInv, WTypeOK
<1>6. SomePrimary' /\ PrimaryNotRevoked' /\ WalletsKept
  BY <1>1, <1>5, SamePrimary
<1>7. WalletHandOK(c)'
  <2>1. pc'[c] = "insertWallet" /\ hand'[c] = held
    BY <1>1 DEF WalletsInv, WTypeOK
  <2>2. t = "primary" \/ WalletsOf(hand[c].row.user) # {}
    OBVIOUS
  <2>3. (hand[c].row.type = "primary" \/ WalletsOf(hand[c].row.user) # {})'
    BY <1>1, <1>3, <2>1, <2>2 DEF WalletsOf, Used
  <2> QED BY <1>3, <2>1, <2>3 DEF WalletHandOK
<1>8. WalletSerialOK(c)'
  BY <1>1, <1>5 DEF WalletsInv, WTypeOK, WalletSerialOK
<1> QED BY <1>1, <1>4, <1>5, <1>6, <1>7, <1>8, OthersHold, OthersIdle DEF WalletsInv

LEMMA FoundKeeps ==
  ASSUME WalletsInv, NEW c \in Calls, pc[c] = "findPrimary", UNCHANGED wallets,
         NEW at \in {"demote", "promote"}, NEW held, Go(c, at, held),
         held.address = hand[c].address,
         at = "demote" => held.primary \in PrimariesOf(wallets[held.address].user)
  PROVE  WalletsInv'
<1> USE DEF Creating, Promotion
<1>1. /\ pc' = [pc EXCEPT ![c] = at] /\ hand' = [hand EXCEPT ![c] = held]
      /\ wallets' = wallets /\ failures' = failures /\ apart' = apart
  BY DEF Go
<1>2. held.address \in Addresses /\ wallets[held.address] # None
  BY DEF WalletsInv, WalletHandOK
<1>3. WTypeOK'
  BY <1>1 DEF WalletsInv, WTypeOK, WalletAwaits
<1>4. \A d \in Calls \ {c} : pc'[d] = pc[d] /\ hand'[d] = hand[d]
  BY <1>1 DEF WalletsInv, WTypeOK
<1>5. SomePrimary' /\ PrimaryNotRevoked' /\ WalletsKept
  BY <1>1, <1>4, SamePrimary
<1>6. pc'[c] = at /\ hand'[c] = held
  BY <1>1 DEF WalletsInv, WTypeOK
<1>7. WalletHandOK(c)'
  <2>1. at = "demote" => /\ held.primary \in Addresses /\ wallets[held.primary] # None
                         /\ wallets[held.primary].user = wallets[held.address].user
    BY DEF WalletsInv, WTypeOK, PrimariesOf, WalletsOf, Used
  <2> QED BY <1>1, <1>2, <1>6, <2>1 DEF WalletHandOK
<1>8. WalletSerialOK(c)'
  BY <1>1, <1>4, <1>6 DEF WalletsInv, WalletSerialOK
<1> QED BY <1>1, <1>3, <1>4, <1>5, <1>7, <1>8, OthersHold, OthersIdle DEF WalletsInv

LEMMA WalletFindKeeps ==
  ASSUME WalletsInv, NEW c \in Calls, FindPrimary(c)
  PROVE  WalletsInv'
<1> DEFINE a == hand[c].address
<1>1. pc[c] = "findPrimary" /\ UNCHANGED wallets
  BY DEF FindPrimary
<1>2. ASSUME NEW p \in PrimariesOf(wallets[a].user),
             Go(c, "demote", [address |-> a, primary |-> p])
      PROVE  WalletsInv'
  BY <1>1, <1>2, FoundKeeps
<1>3. CASE Go(c, "promote", [address |-> a])
  BY <1>1, <1>3, FoundKeeps
<1> QED BY <1>2, <1>3 DEF FindPrimary

--------------------------------------------------------------------------------
\* The steps that write.  The new row is primary or not the user's first.
LEMMA WalletInsertKeeps ==
  ASSUME WalletsInv, NEW c \in Calls, InsertWallet(c)
  PROVE  WalletsInv'
<1> USE DEF Creating, Promotion
<1> DEFINE a == hand[c].address
           row == hand[c].row
<1>1. /\ pc[c] = "insertWallet" /\ pc' = [pc EXCEPT ![c] = "idle"]
      /\ hand' = [hand EXCEPT ![c] = None]
      /\ wallets' = IF wallets[a] = None THEN [wallets EXCEPT ![a] = row] ELSE wallets
      /\ failures' = failures /\ apart' = apart
  BY DEF InsertWallet, End, Go
<1>2. /\ a \in Addresses /\ row \in Wallet /\ row.status = "pending"
      /\ row.type = "primary" \/ WalletsOf(row.user) # {}
  BY <1>1 DEF WalletsInv, WalletHandOK
<1>3. WTypeOK' /\ WalletsKept
  BY <1>1, <1>2, WalletsAssumption DEF WalletsInv, WTypeOK, WalletAwaits, WalletsKept
<1>4. \A d \in Calls \ {c} : pc'[d] = pc[d] /\ hand'[d] = hand[d]
  BY <1>1 DEF WalletsInv, WTypeOK
<1>5. WalletHandOK(c)' /\ WalletSerialOK(c)'
  BY <1>1, <1>4 DEF WalletsInv, WTypeOK, WalletHandOK, WalletSerialOK
<1>6. CASE wallets[a] # None
  BY <1>1, <1>3, <1>4, <1>5, <1>6, OthersHold, OthersIdle, SamePrimary DEF WalletsInv
<1>7. CASE wallets[a] = None
  <2>1. wallets' = [wallets EXCEPT ![a] = row] /\ row # None
    BY <1>1, <1>2, <1>7, WalletsAssumption
  <2>2. SomePrimary'
    <3> SUFFICES ASSUME failures = 0, NEW u \in Users, WalletsOf(u)' # {}
                 PROVE  PrimariesOf(u)' # {} \/ Promoting(u)'
      BY <1>1 DEF SomePrimary
    <3>1. PrimariesOf(u) \subseteq PrimariesOf(u)'
      BY <1>7, <2>1 DEF WalletsInv, WTypeOK, PrimariesOf, WalletsOf, Used
    <3>2. CASE WalletsOf(u) # {}
      BY <1>1, <1>3, <1>4, <3>1, <3>2, PrimaryStays
    <3>3. CASE WalletsOf(u) = {}
      <4>1. row.user = u
        BY <1>2, <2>1, <3>3 DEF WalletsInv, WTypeOK, WalletsOf, Used
      <4>2. row.type = "primary"
        BY <1>2, <3>3, <4>1
      <4>3. a \in PrimariesOf(u)'
        BY <1>2, <2>1, <4>1, <4>2 DEF WalletsInv, WTypeOK, PrimariesOf, WalletsOf, Used
      <4> QED BY <4>3
    <3> QED BY <3>2, <3>3
  <2>3. PrimaryNotRevoked'
    BY <1>1, <1>2, <2>1 DEF WalletsInv, WTypeOK, PrimaryNotRevoked, Used
  <2> QED BY <1>1, <1>3, <1>4, <1>5, <2>2, <2>3, OthersHold, OthersIdle DEF WalletsInv
<1> QED BY <1>6, <1>7

\* A wallet is verified or revoked; its type stays.
LEMMA WalletSaveKeeps ==
  ASSUME WalletsInv, NEW c \in Calls, SaveVerified(c) \/ SaveRevoked(c)
  PROVE  WalletsInv'
<1> USE DEF Creating, Promotion
<1> DEFINE a == hand[c].address
<1>1. PICK status \in {"verified", "revoked"} :
        /\ wallets' = [wallets EXCEPT ![a].status = status]
        /\ status = "revoked" => pc[c] = "saveRevoked"
  BY DEF SaveVerified, SaveRevoked
<1>2. /\ pc[c] \in {"saveVerified", "saveRevoked"}
      /\ pc' = [pc EXCEPT ![c] = "idle"] /\ hand' = [hand EXCEPT ![c] = None]
      /\ failures' = failures /\ apart' = apart
  BY DEF SaveVerified, SaveRevoked, End, Go
<1>3. a \in Addresses /\ wallets[a] \in Wallet
  BY <1>2 DEF WalletsInv, WTypeOK, WalletHandOK
<1>4. /\ wallets'[a] \in Wallet /\ wallets'[a].user = wallets[a].user
      /\ wallets'[a].type = wallets[a].type /\ wallets'[a].status = status
      /\ \A b \in Addresses \ {a} : wallets'[b] = wallets[b]
      /\ DOMAIN wallets' = Addresses
  BY <1>1, <1>3 DEF WalletsInv, WTypeOK, Wallet, WalletStatus
<1>5. WTypeOK' /\ WalletsKept
  <2>1. wallets' \in [Addresses -> Wallet \cup {None}]
    BY <1>1, <1>3, <1>4 DEF WalletsInv, WTypeOK
  <2> QED BY <1>2, <1>3, <1>4, <2>1, WalletsAssumption
      DEF WalletsInv, WTypeOK, WalletAwaits, WalletsKept
<1>6. \A d \in Calls \ {c} : pc'[d] = pc[d] /\ hand'[d] = hand[d]
  BY <1>2 DEF WalletsInv, WTypeOK
<1>7. WalletHandOK(c)' /\ WalletSerialOK(c)'
  BY <1>2, <1>6 DEF WalletsInv, WTypeOK, WalletHandOK, WalletSerialOK
<1>8. Used(wallets)' = Used(wallets)
  BY <1>3, <1>4, WalletsAssumption DEF WalletsInv, WTypeOK, Used
<1>9. SomePrimary'
  <2>1. \A u \in Users : WalletsOf(u)' = WalletsOf(u) /\ PrimariesOf(u)' = PrimariesOf(u)
    BY <1>3, <1>4, <1>8 DEF WalletsOf, PrimariesOf, Used, WalletsInv, WTypeOK
  <2> QED BY <1>2, <1>5, <1>6, <2>1, PrimaryStays DEF SomePrimary
<1>10. PrimaryNotRevoked'
  <2>1. apart /\ status = "revoked" => wallets[a].type # "primary"
    BY <1>1 DEF WalletsInv, WalletSerialOK
  <2> QED BY <1>2, <1>3, <1>4, <1>8, <2>1 DEF WalletsInv, WTypeOK, PrimaryNotRevoked, Used
<1> QED BY <1>2, <1>5, <1>6, <1>7, <1>9, <1>10, OthersHold, OthersIdle DEF WalletsInv

\* The user of a demoted wallet has a promotion under way.
LEMMA DemoteKeeps ==
  ASSUME WalletsInv, NEW c \in Calls, Demote(c)
  PROVE  WalletsInv'
<1> USE DEF Creating, Promotion
<1> DEFINE a == hand[c].address
           p == hand[c].primary
<1>1. /\ pc[c] = "demote" /\ pc' = [pc EXCEPT ![c] = "promote"]
      /\ hand' = [hand EXCEPT ![c] = [address |-> a]]
      /\ wallets' = [wallets EXCEPT ![p].type = "secondary"]
      /\ failures' = failures /\ apart' = apart
  BY DEF Demote, Go
<1>2. /\ a \in Addresses /\ wallets[a] \in Wallet
      /\ p \in Addresses /\ wallets[p] \in Wallet
      /\ wallets[p].user = wallets[a].user
  BY <1>1 DEF WalletsInv, WTypeOK, WalletHandOK
<1>3. /\ wallets'[p] \in Wallet /\ wallets'[p].user = wallets[p].user
      /\ wallets'[p].type = "secondary" /\ wallets'[p].status = wallets[p].status
      /\ \A b \in Addresses \ {p} : wallets'[b] = wallets[b]
      /\ DOMAIN wallets' = Addresses
  BY <1>1, <1>2 DEF WalletsInv, WTypeOK, Wallet, WalletType
<1>4. WTypeOK' /\ WalletsKept
  <2>1. wallets' \in [Addresses -> Wallet \cup {None}]
    BY <1>1, <1>2, <1>3 DEF WalletsInv, WTypeOK
  <2> QED BY <1>1, <1>2, <1>3, <2>1, WalletsAssumption
      DEF WalletsInv, WTypeOK, WalletAwaits, WalletsKept
<1>5. \A d \in Calls \ {c} : pc'[d] = pc[d] /\ hand'[d] = hand[d]
  BY <1>1 DEF WalletsInv, WTypeOK
<1>6. pc'[c] = "promote" /\ hand'[c].address = a
  BY <1>1 DEF WalletsInv, WTypeOK
<1>7. WalletHandOK(c)'
  BY <1>2, <1>4, <1>6, WalletsAssumption DEF WalletHandOK, WalletsKept
<1>8. WalletSerialOK(c)'
  BY <1>1, <1>2, <1>3, <1>5, <1>6 DEF WalletsInv, WalletSerialOK
<1>9. Used(wallets)' = Used(wallets)
  BY <1>2, <1>3, WalletsAssumption DEF WalletsInv, WTypeOK, Used
<1>10. SomePrimary'
  <2> SUFFICES ASSUME failures = 0, NEW u \in Users, WalletsOf(u)' # {}
               PROVE  PrimariesOf(u)' # {} \/ Promoting(u)'
    BY <1>1 DEF SomePrimary
  <2>1. CASE u = wallets[a].user
    <3>1. wallets'[a].user = u
      BY <1>2, <1>4, <2>1, WalletsAssumption DEF WalletsKept
    <3> QED BY <1>6, <3>1 DEF Promoting
  <2>2. CASE u # wallets[a].user
    <3>1. WalletsOf(u)' = WalletsOf(u) /\ PrimariesOf(u)' = PrimariesOf(u)
      BY <1>2, <1>3, <1>9, <2>2 DEF WalletsOf, PrimariesOf, Used, WalletsInv, WTypeOK
    <3> QED BY <1>1, <1>4, <1>5, <3>1, PrimaryStays
  <2> QED BY <2>1, <2>2
<1>11. PrimaryNotRevoked'
  BY <1>1, <1>2, <1>3, <1>9 DEF WalletsInv, WTypeOK, PrimaryNotRevoked, Used
<1> QED BY <1>1, <1>4, <1>5, <1>7, <1>8, <1>10, <1>11, OthersHold, OthersIdle DEF WalletsInv

\* The wallet promoted is primary then, and nobody else's promotion ends.
LEMMA PromoteKeeps ==
  ASSUME WalletsInv, NEW c \in Calls, Promote(c)
  PROVE  WalletsInv'
<1> USE DEF Creating, Promotion
<1> DEFINE a == hand[c].address
<1>1. /\ pc[c] = "promote" /\ pc' = [pc EXCEPT ![c] = "idle"]
      /\ hand' = [hand EXCEPT ![c] = None]
      /\ wallets' = [wallets EXCEPT ![a].type = "primary"]
      /\ failures' = failures /\ apart' = apart
  BY DEF Promote, End, Go
<1>2. a \in Addresses /\ wallets[a] \in Wallet
  BY <1>1 DEF WalletsInv, WTypeOK, WalletHandOK
<1>3. /\ wallets'[a] \in Wallet /\ wallets'[a].user = wallets[a].user
      /\ wallets'[a].type = "primary" /\ wallets'[a].status = wallets[a].status
      /\ \A b \in Addresses \ {a} : wallets'[b] = wallets[b]
      /\ DOMAIN wallets' = Addresses
  BY <1>1, <1>2 DEF WalletsInv, WTypeOK, Wallet, WalletType
<1>4. WTypeOK' /\ WalletsKept
  <2>1. wallets' \in [Addresses -> Wallet \cup {None}]
    BY <1>1, <1>2, <1>3 DEF WalletsInv, WTypeOK
  <2> QED BY <1>1, <1>2, <1>3, <2>1, WalletsAssumption
      DEF WalletsInv, WTypeOK, WalletAwaits, WalletsKept
<1>5. \A d \in Calls \ {c} : pc'[d] = pc[d] /\ hand'[d] = hand[d]
  BY <1>1 DEF WalletsInv, WTypeOK
<1>6. WalletHandOK(c)' /\ WalletSerialOK(c)'
  BY <1>1, <1>5 DEF WalletsInv, WTypeOK, WalletHandOK, WalletSerialOK
<1>7. Used(wallets)' = Used(wallets)
  BY <1>2, <1>3, WalletsAssumption DEF WalletsInv, WTypeOK, Used
<1>8. SomePrimary'
  <2> SUFFICES ASSUME failures = 0, NEW u \in Users, WalletsOf(u)' # {}
               PROVE  PrimariesOf(u)' # {} \/ Promoting(u)'
    BY <1>1 DEF SomePrimary
  <2>1. CASE u = wallets[a].user
    <3>1. a \in PrimariesOf(u)'
      BY <1>2, <1>3, <1>7, <2>1, WalletsAssumption
           DEF PrimariesOf, WalletsOf, Used, WalletsInv, WTypeOK
    <3> QED BY <3>1
  <2>2. CASE u # wallets[a].user
    <3>1. WalletsOf(u) # {} /\ PrimariesOf(u) \subseteq PrimariesOf(u)'
      BY <1>2, <1>3, <1>7, <2>2 DEF WalletsOf, PrimariesOf, Used, WalletsInv, WTypeOK
    <3>2. PrimariesOf(u) # {} \/ Promoting(u)
      BY <3>1 DEF WalletsInv, SomePrimary
    <3>3. CASE Promoting(u)
      <4>1. PICK d \in Calls : pc[d] = "promote" /\ wallets[hand[d].address].user = u
        BY <3>3 DEF Promoting
      <4>2. d # c /\ hand[d].address \in Addresses /\ wallets[hand[d].address] # None
        BY <2>2, <4>1 DEF WalletsInv, WalletHandOK
      <4> QED BY <1>4, <1>5, <4>1, <4>2 DEF Promoting, WalletsKept
    <3> QED BY <3>1, <3>2, <3>3
  <2> QED BY <2>1, <2>2
<1>9. PrimaryNotRevoked'
  <2>1. apart => wallets[a].status # "revoked"
    BY <1>1 DEF WalletsInv, WalletSerialOK
  <2> QED BY <1>1, <1>2, <1>3, <1>7, <2>1 DEF WalletsInv, WTypeOK, PrimaryNotRevoked, Used
<1> QED BY <1>1, <1>4, <1>5, <1>6, <1>8, <1>9, OthersHold, OthersIdle DEF WalletsInv

\* A failure is counted, and only the call is gone.
LEMMA FailKeeps ==
  ASSUME WalletsInv, NEW c \in Calls, WalletsFail(c)
  PROVE  WalletsInv'
<1> USE DEF Creating, Promotion
<1>1. /\ pc[c] # "idle" /\ pc' = [pc EXCEPT ![c] = "idle"]
      /\ hand' = [hand EXCEPT ![c] = None]
      /\ wallets' = wallets /\ failures' = failures + 1 /\ apart' = apart
  BY DEF WalletsFail, Fail, Idle, Reject
<1>2. WTypeOK' /\ WalletsKept
  BY <1>1 DEF WalletsInv, WTypeOK, WalletAwaits, WalletsKept
<1>3. \A d \in Calls \ {c} : pc'[d] = pc[d] /\ hand'[d] = hand[d]
  BY <1>1 DEF WalletsInv, WTypeOK
<1>4. WalletHandOK(c)' /\ WalletSerialOK(c)'
  BY <1>1, <1>3 DEF WalletsInv, WTypeOK, WalletHandOK, WalletSerialOK
<1>5. failures' # 0
  BY <1>1 DEF WalletsInv, WTypeOK
<1>6. SomePrimary' /\ PrimaryNotRevoked'
  BY <1>1, <1>5 DEF WalletsInv, SomePrimary, PrimaryNotRevoked, Used
<1> QED BY <1>1, <1>2, <1>3, <1>4, <1>6, OthersHold, OthersIdle DEF WalletsInv

--------------------------------------------------------------------------------
LEMMA WalletNextKeeps == WalletsInv /\ [WalletsNext]_walletsVars => WalletsInv'
<1> SUFFICES ASSUME WalletsInv, [WalletsNext]_walletsVars PROVE WalletsInv'
  OBVIOUS
<1>1. CASE UNCHANGED walletsVars
  BY <1>1 DEF walletsVars, serviceVars, WalletsInv, WTypeOK, WalletHandOK, WalletSerialOK,
     SomePrimary, PrimaryNotRevoked, WalletsOf, PrimariesOf, Promoting, Used
<1>2. ASSUME NEW c \in Calls, NEW a \in Addresses, NEW u \in Users, NEW t \in WalletType,
             CreateWallet(c, u, a, t)
      PROVE  WalletsInv'
  <2> DEFINE held == [address |-> a, row |-> [user |-> u, status |-> "pending", type |-> t]]
  <2>1. held \in [address : Addresses, row : Wallet] /\ held.row.status = "pending"
    BY <1>2 DEF Wallet, WalletStatus
  <2>2. Begin(c, "countWallets", held) /\ UNCHANGED wallets
    BY <1>2 DEF CreateWallet
  <2> HIDE DEF held
  <2> QED BY <2>1, <2>2, WalletBeginKeeps
<1>3. ASSUME NEW c \in Calls, NEW a \in Addresses,
             VerifyWallet(c, a) \/ RevokeWallet(c, a) \/ SetPrimaryWallet(c, a)
      PROVE  WalletsInv'
  <2> DEFINE held == [address |-> a]
  <2>1. held.address = a
    OBVIOUS
  <2> HIDE DEF held
  <2>2. CASE VerifyWallet(c, a)
    BY <2>1, <2>2, WalletBeginKeeps DEF VerifyWallet, held
  <2>3. CASE RevokeWallet(c, a)
    BY <2>1, <2>3, WalletBeginKeeps DEF RevokeWallet, held
  <2>4. CASE SetPrimaryWallet(c, a)
    BY <2>1, <2>4, WalletBeginKeeps DEF SetPrimaryWallet, held
  <2> QED BY <1>3, <2>2, <2>3, <2>4
<1>4. ASSUME NEW c \in Calls,
             \/ CountWallets(c) \/ InsertWallet(c) \/ SaveVerified(c) \/ SaveRevoked(c)
             \/ FindPrimary(c) \/ Demote(c) \/ Promote(c) \/ WalletsFail(c)
      PROVE  WalletsInv'
  BY <1>4, CountKeeps, WalletInsertKeeps, WalletSaveKeeps, WalletFindKeeps, DemoteKeeps,
       PromoteKeeps, FailKeeps
<1> QED BY <1>1, <1>2, <1>3, <1>4 DEF WalletsNext

LEMMA WalletsInductive == WalletsSpec => []WalletsInv
BY WalletsInitInv, WalletNextKeeps, PTL DEF WalletsSpec

\* A user who has wallets has a primary one, or a setPrimaryWallet stands
\* between its two updates, however the calls overlap; only a failed update
\* between the two loses it (createWallet, setPrimaryWallet).
THEOREM PrimaryKept == WalletsSpec => []SomePrimary
<1>1. WalletsInv => SomePrimary
  BY DEF WalletsInv
<1> QED BY WalletsInductive, <1>1, PTL

\* While calls do not overlap, a primary wallet is not a revoked one:
\* revokeWallet and setPrimaryWallet refuse each other's wallets.
THEOREM RevokedNotPrimary == WalletsSpec => []PrimaryNotRevoked
<1>1. WalletsInv => PrimaryNotRevoked
  BY DEF WalletsInv
<1> QED BY WalletsInductive, <1>1, PTL

--------------------------------------------------------------------------------
(* Messages *)

MTypeOK ==
  /\ messages \in [MessageIds -> Message \cup {None}]
  /\ DOMAIN pc = Calls /\ DOMAIN hand = Calls

\* A message as getMessage has loaded it, or as it is to be saved.  It is still
\* there; and if it was deleted since, with nobody racing, it was not held then.
Copy(h) ==
  /\ DOMAIN h = {"message", "row", "receipts", "reactions"}
  /\ h.message \in MessageIds /\ messages[h.message] # None
  /\ h.row \in Message
  /\ h.message \notin raced /\ Deleted(h.message) => h.row.content = "removed"

CopyOK(c) == \A h \in Copies(c) : Copy(h) /\ hand[c].message = h.message
NewOK(c) == pc[c] = "insertMessage" => hand[c].message \in MessageIds \cup {None}

MessagesInv == MTypeOK /\ \A c \in Calls : CopyOK(c) /\ NewOK(c)

LEMMA MessagesInitInv == MessagesInit => MessagesInv
BY DEF MessagesInit, ServiceInit, MessagesInv, MTypeOK, CopyOK, NewOK, Copies

--------------------------------------------------------------------------------
OnlyOf(c) == /\ DOMAIN pc' = Calls /\ DOMAIN hand' = Calls
             /\ \A d \in Calls \ {c} : pc'[d] = pc[d] /\ hand'[d] = hand[d]

\* As a copy of message m sees it, nothing has happened.
SameFor(m) ==
  /\ messages'[m] # None /\ Deleted(m)' = Deleted(m)
  /\ m \in raced' <=> m \in raced

LEMMA CopiesStay ==
  ASSUME NEW d \in Calls, CopyOK(d), pc'[d] = pc[d], hand'[d] = hand[d],
         \A h \in Copies(d) : SameFor(h.message)
  PROVE  CopyOK(d)'
<1>1. Copies(d)' = Copies(d)
  BY DEF Copies
<1>2. ASSUME NEW h \in Copies(d) PROVE Copy(h)'
  BY DEF CopyOK, Copy, SameFor
<1> QED BY <1>1, <1>2 DEF CopyOK

\* A call moves, and no message changes.
LEMMA CallKeeps ==
  ASSUME MessagesInv, NEW c \in Calls, OnlyOf(c), UNCHANGED <<messages, raced>>,
         CopyOK(c)', NewOK(c)'
  PROVE  MessagesInv'
<1>1. ASSUME NEW d \in Calls \ {c} PROVE CopyOK(d)' /\ NewOK(d)'
  <2>1. CopyOK(d) /\ NewOK(d) /\ pc'[d] = pc[d] /\ hand'[d] = hand[d]
    BY DEF MessagesInv, OnlyOf
  <2>2. \A h \in Copies(d) : SameFor(h.message)
    BY <2>1 DEF CopyOK, Copy, SameFor, Deleted
  <2> QED BY <2>1, <2>2, CopiesStay DEF NewOK
<1>2. MTypeOK'
  BY DEF MessagesInv, MTypeOK, OnlyOf
<1> QED BY <1>1, <1>2 DEF MessagesInv

\* A call goes on or returns with nothing to save.
LEMMA NothingToSave ==
  ASSUME MessagesInv, NEW c \in Calls, OnlyOf(c), UNCHANGED <<messages, raced>>,
         pc'[c] \notin {"saveMessage", "findReceipt", "insertReceipt"}, NewOK(c)'
  PROVE  MessagesInv'
<1>1. CopyOK(c)'
  BY DEF CopyOK, Copies
<1> QED BY <1>1, CallKeeps

\* What getMessage loads, with whatever is set before the save
LEMMA LoadedCopy ==
  ASSUME MessagesInv, NEW m \in MessageIds, Found(m)
  PROVE  /\ Copy(Loaded(m)) /\ Loaded(m).message = m
         /\ \A content \in {"edited", "removed"} :
              Copy([Loaded(m) EXCEPT !.row.content = content])
<1>1. messages[m] \in Message /\ messages[m] # None /\ ~Deleted(m)
  BY DEF MessagesInv, MTypeOK, Found
<1>2. Copy(Loaded(m)) /\ Loaded(m).message = m
  BY <1>1 DEF Copy, Loaded
<1>3. ASSUME NEW content \in {"edited", "removed"}
      PROVE  Copy([Loaded(m) EXCEPT !.row.content = content])
  <2> DEFINE held == [Loaded(m) EXCEPT !.row.content = content]
  <2>1. held.message = m /\ held.row = [messages[m] EXCEPT !.content = content]
        /\ DOMAIN held = {"message", "row", "receipts", "reactions"}
    BY DEF Loaded
  <2>2. held.row \in Message
    BY <1>1, <2>1 DEF Message
  <2> QED BY <1>1, <2>1, <2>2 DEF Copy
<1> QED BY <1>2, <1>3

\* updateMessage and deleteMessage
LEMMA EditKeeps ==
  ASSUME MessagesInv, NEW c \in Calls, NEW m \in MessageIds,
         UpdateMessage(c, m) \/ DeleteMessage(c, m)
  PROVE  MessagesInv'
<1>1. PICK content \in {"edited", "removed"} :
        Begin(c, "saveMessage", [Loaded(m) EXCEPT !.row.content = content])
  BY DEF UpdateMessage, DeleteMessage
<1>2. PICK held : held = [Loaded(m) EXCEPT !.row.content = content]
  OBVIOUS
<1>3. Found(m) /\ UNCHANGED <<messages, raced>>
  BY DEF UpdateMessage, DeleteMessage, messagesTables
<1>7. Copy(held)
  BY <1>2, <1>3, LoadedCopy
<1>4. Copy(held)'
  BY <1>3, <1>7 DEF Copy, Deleted
<1>5. OnlyOf(c) /\ pc'[c] = "saveMessage" /\ hand'[c] = held
  BY <1>1, <1>2 DEF Begin, MessagesInv, MTypeOK, OnlyOf
<1>6. CopyOK(c)' /\ NewOK(c)'
  BY <1>4, <1>5 DEF CopyOK, Copies, NewOK
<1> QED BY <1>3, <1>5, <1>6, CallKeeps

\* markAsRead
LEMMA MarkKeeps ==
  ASSUME MessagesInv, NEW c \in Calls, NEW m \in MessageIds, NEW u \in Users, MarkAsRead(c, m, u)
  PROVE  MessagesInv'
<1>1. PICK held : held = [message |-> m, user |-> u, held |-> Loaded(m)]
  OBVIOUS
<1>2. Found(m) /\ Begin(c, "findReceipt", held) /\ UNCHANGED <<messages, raced>>
  BY <1>1 DEF MarkAsRead, messagesTables
<1>3. PICK copy : copy = Loaded(m)
  OBVIOUS
<1>4. held.held = copy /\ held.message = copy.message /\ Copy(copy) /\ Copy(copy)'
  BY <1>1, <1>2, <1>3, LoadedCopy DEF Copy, Deleted
<1>5. OnlyOf(c) /\ pc'[c] = "findReceipt" /\ hand'[c] = held
  BY <1>2 DEF Begin, MessagesInv, MTypeOK, OnlyOf
<1>6. CopyOK(c)' /\ NewOK(c)'
  BY <1>4, <1>5 DEF CopyOK, Copies, NewOK
<1> QED BY <1>2, <1>5, <1>6, CallKeeps

\* The requests that load no message for a save
LEMMA OtherRequestsKeep ==
  ASSUME MessagesInv, NEW c \in Calls,
         \/ \E m \in MessageIds \cup {None} : CreateMessage(c, m)
         \/ \E m \in MessageIds, u \in Users : AddReaction(c, m, u)
  PROVE  MessagesInv'
<1> DEFINE Keeps(at, held) ==
      /\ Begin(c, at, held) /\ UNCHANGED messagesTables
      /\ at \in {"insertMessage", "findReaction"}
      /\ at = "insertMessage" => held.message \in MessageIds \cup {None}
<1>1. ASSUME NEW at, NEW held, Keeps(at, held) PROVE MessagesInv'
  <2>1. OnlyOf(c) /\ pc'[c] = at /\ hand'[c] = held /\ UNCHANGED <<messages, raced>>
    BY <1>1 DEF Begin, MessagesInv, MTypeOK, OnlyOf, messagesTables
  <2>2. NewOK(c)'
    BY <1>1, <2>1 DEF NewOK
  <2> QED BY <1>1, <2>1, <2>2, NothingToSave
<1>2. ASSUME NEW m \in MessageIds \cup {None}, CreateMessage(c, m) PROVE MessagesInv'
  <2>1. Keeps("insertMessage", [message |-> m])
    BY <1>2 DEF CreateMessage
  <2> QED BY <1>1, <2>1
<1>3. ASSUME NEW m \in MessageIds, NEW u \in Users, AddReaction(c, m, u) PROVE MessagesInv'
  <2>1. Keeps("findReaction", [message |-> m, user |-> u])
    BY <1>3 DEF AddReaction
  <2> QED BY <1>1, <2>1
<1> QED BY <1>2, <1>3

--------------------------------------------------------------------------------
\* The copy goes on to the save as read, or the call returns.
LEMMA StatusKeeps ==
  ASSUME MessagesInv, NEW c \in Calls, pc[c] \in {"findReceipt", "insertReceipt"},
         SaveStatus(c), UNCHANGED <<messages, raced>>
  PROVE  MessagesInv'
<1>1. PICK h : h = hand[c].held
  OBVIOUS
<1>2. Copy(h)
  BY <1>1 DEF MessagesInv, CopyOK, Copies
<1>3. OnlyOf(c)
  BY DEF SaveStatus, End, Go, MessagesInv, MTypeOK, OnlyOf
<1>4. CASE End(c)
  <2>1. pc'[c] = "idle"
    BY <1>4 DEF End, Go, MessagesInv, MTypeOK
  <2> QED BY <1>3, <2>1, NothingToSave DEF NewOK
<1>5. CASE Go(c, "saveMessage", [h EXCEPT !.row.status = "read"])
  <2>1. PICK held : held = [h EXCEPT !.row.status = "read"]
    OBVIOUS
  <2>2. /\ held.message = h.message /\ held.row = [h.row EXCEPT !.status = "read"]
        /\ DOMAIN held = {"message", "row", "receipts", "reactions"}
    BY <1>2, <2>1 DEF Copy
  <2>3. held.row \in Message /\ held.row.content = h.row.content
    BY <1>2, <2>2 DEF Copy, Message
  <2>4. Copy(held)'
    BY <1>2, <2>2, <2>3 DEF Copy, Deleted
  <2>5. pc'[c] = "saveMessage" /\ hand'[c] = held
    BY <1>5, <2>1 DEF Go, MessagesInv, MTypeOK
  <2>6. CopyOK(c)' /\ NewOK(c)'
    BY <2>4, <2>5 DEF CopyOK, Copies, NewOK
  <2> QED BY <1>3, <2>6, CallKeeps
<1> QED BY <1>1, <1>4, <1>5 DEF SaveStatus

\* The steps of markAsRead before its save
LEMMA ReceiptKeeps ==
  ASSUME MessagesInv, NEW c \in Calls, FindReceipt(c) \/ InsertReceipt(c)
  PROVE  MessagesInv'
<1>1. pc[c] \in {"findReceipt", "insertReceipt"} /\ UNCHANGED <<messages, raced>>
  BY DEF FindReceipt, InsertReceipt, messagesTables
<1>2. CASE SaveStatus(c)
  BY <1>1, <1>2, StatusKeeps
<1>3. CASE End(c)
  <2>1. OnlyOf(c) /\ pc'[c] = "idle"
    BY <1>3 DEF End, Go, MessagesInv, MTypeOK, OnlyOf
  <2> QED BY <1>1, <2>1, NothingToSave DEF NewOK
<1>4. CASE pc[c] = "findReceipt" /\ Go(c, "insertReceipt", hand[c])
  <2>1. OnlyOf(c) /\ pc'[c] = "insertReceipt" /\ hand'[c] = hand[c]
    BY <1>4 DEF Go, MessagesInv, MTypeOK, OnlyOf
  <2>2. PICK h : h = hand[c].held
    OBVIOUS
  <2>3. Copy(h) /\ hand[c].message = h.message
    BY <1>4, <2>2 DEF MessagesInv, CopyOK, Copies
  <2>4. Copy(h)'
    BY <1>1, <2>3 DEF Copy, Deleted
  <2>5. CopyOK(c)' /\ NewOK(c)'
    BY <2>1, <2>2, <2>3, <2>4 DEF CopyOK, Copies, NewOK
  <2> QED BY <1>1, <2>1, <2>5, CallKeeps
<1> QED BY <1>2, <1>3, <1>4 DEF FindReceipt, InsertReceipt

\* save: whoever holds the message as it was is noted when it is deleted.
LEMMA MessageSaveKeeps ==
  ASSUME MessagesInv, NEW c \in Calls, SaveMessage(c)
  PROVE  MessagesInv'
<1>1. PICK h : h = hand[c]
  OBVIOUS
<1>2. /\ pc[c] = "saveMessage" /\ Save(h) /\ RacedBySave(c) /\ End(c)
  BY <1>1 DEF SaveMessage
<1>3. Copy(h)
  BY <1>1, <1>2 DEF MessagesInv, CopyOK, Copies
<1>4. OnlyOf(c) /\ pc'[c] = "idle"
  BY <1>2 DEF End, Go, OnlyOf, MessagesInv, MTypeOK
<1>5. CopyOK(c)' /\ NewOK(c)'
  BY <1>4 DEF CopyOK, Copies, NewOK
<1>6. CASE Detaches(h)
  <2>1. UNCHANGED <<messages, raced>>
    BY <1>1, <1>2, <1>6 DEF Save, RacedBySave
  <2> QED BY <1>4, <1>5, <2>1, CallKeeps
<1>7. CASE ~Detaches(h)
  <2>1. messages' = [messages EXCEPT ![h.message] = h.row]
    BY <1>2, <1>7 DEF Save
  <2>2. h.row \in Message /\ h.row # None /\ h.message \in MessageIds
    BY <1>3, MessagesAssumption DEF Copy
  <2>3. raced' = IF h.row.content # "removed" THEN raced
                 ELSE IF HeldByOthers(c, h.message) THEN raced \cup {h.message}
                 ELSE raced \ {h.message}
    BY <1>1, <1>2, <1>7 DEF RacedBySave
  <2>4. MTypeOK'
    BY <1>4, <2>1, <2>2 DEF MessagesInv, MTypeOK, OnlyOf
  <2>5. ASSUME NEW d \in Calls \ {c} PROVE CopyOK(d)' /\ NewOK(d)'
    <3>1. CopyOK(d) /\ NewOK(d) /\ pc'[d] = pc[d] /\ hand'[d] = hand[d]
      BY <1>4 DEF MessagesInv, OnlyOf
    <3>2. Copies(d)' = Copies(d)
      BY <3>1 DEF Copies
    <3>3. ASSUME NEW k \in Copies(d) PROVE Copy(k)'
      <4>1. Copy(k)
        BY <3>1 DEF CopyOK
      <4>2. CASE k.message # h.message
        <5>1. SameFor(k.message)
          BY <2>1, <2>3, <4>1, <4>2 DEF Copy, SameFor, Deleted, MessagesInv, MTypeOK
        <5> QED BY <4>1, <5>1 DEF Copy, SameFor
      <4>3. CASE k.message = h.message
        <5>1. messages'[k.message] = h.row
          BY <2>1, <2>2, <4>3 DEF MessagesInv, MTypeOK
        <5>2. h.row.content = "removed" /\ k.row.content # "removed" => k.message \in raced'
          BY <2>3, <4>3 DEF HeldByOthers
        <5> QED BY <2>2, <4>1, <5>1, <5>2 DEF Copy, Deleted
      <4> QED BY <4>2, <4>3
    <3> QED BY <3>1, <3>2, <3>3 DEF CopyOK, NewOK
  <2> QED BY <1>5, <2>4, <2>5 DEF MessagesInv
<1> QED BY <1>6, <1>7

\* A new message takes no copy's place.
LEMMA MessageInsertKeeps ==
  ASSUME MessagesInv, NEW c \in Calls, InsertMessage(c)
  PROVE  MessagesInv'
<1>1. PICK new : new = [replyTo |-> hand[c].message, content |-> "text", status |-> "sent",
                        archived |-> FALSE]
  OBVIOUS
<1>2. PICK m \in Unused(messages) : messages' = [messages EXCEPT ![m] = new]
  BY <1>1 DEF InsertMessage
<1>3. pc[c] = "insertMessage" /\ End(c) /\ UNCHANGED raced
  BY DEF InsertMessage
<1>4. new \in Message /\ new # None
  <2>1. new \in Message
    BY <1>1, <1>3 DEF MessagesInv, NewOK, Message
  <2> QED BY <2>1, MessagesAssumption
<1>5. OnlyOf(c) /\ pc'[c] = "idle"
  BY <1>3 DEF End, Go, OnlyOf, MessagesInv, MTypeOK
<1>6. MTypeOK'
  BY <1>2, <1>4, <1>5 DEF MessagesInv, MTypeOK, OnlyOf
<1>7. CopyOK(c)' /\ NewOK(c)'
  BY <1>5 DEF CopyOK, Copies, NewOK
<1>8. ASSUME NEW d \in Calls \ {c} PROVE CopyOK(d)' /\ NewOK(d)'
  <2>1. CopyOK(d) /\ NewOK(d) /\ pc'[d] = pc[d] /\ hand'[d] = hand[d]
    BY <1>5 DEF MessagesInv, OnlyOf
  <2>2. \A h \in Copies(d) : SameFor(h.message)
    BY <1>2, <1>3, <2>1 DEF CopyOK, Copy, SameFor, Deleted, Unused, MessagesInv, MTypeOK
  <2> QED BY <2>1, <2>2, CopiesStay DEF NewOK
<1> QED BY <1>6, <1>7, <1>8 DEF MessagesInv

\* The steps of addReaction, and a failure: no message changes.
LEMMA OtherStepsKeep ==
  ASSUME MessagesInv, NEW c \in Calls, FindReaction(c) \/ InsertReaction(c) \/ MessagesFail(c)
  PROVE  MessagesInv'
<1>1. /\ pc'[c] \in {"idle", "insertReaction"} /\ OnlyOf(c) /\ UNCHANGED <<messages, raced>>
  BY DEF FindReaction, InsertReaction, MessagesFail, Fail, Reject, End, Go, OnlyOf,
         MessagesInv, MTypeOK, messagesTables
<1> QED BY <1>1, NothingToSave DEF NewOK

--------------------------------------------------------------------------------
(* The statements that are not of a call *)

\* Of the content of a message nothing changes.
LEMMA ArchiveKeeps ==
  ASSUME MessagesInv, NEW old \in SUBSET MessageIds, ArchiveOldMessages(old)
  PROVE  MessagesInv' /\ \A m \in MessageIds : messages[m] # None => SameFor(m)
<1>1. /\ \A m \in old : messages[m] # None
      /\ messages' = [m \in MessageIds |->
           IF m \in old THEN [messages[m] EXCEPT !.archived = TRUE] ELSE messages[m]]
      /\ UNCHANGED <<raced, pc, hand>>
  BY DEF ArchiveOldMessages, serviceVars
<1>2. ASSUME NEW m \in old
      PROVE  /\ messages'[m] \in Message /\ messages'[m] # None
             /\ messages'[m].content = messages[m].content
  <2>1. messages[m] \in Message /\ messages'[m] = [messages[m] EXCEPT !.archived = TRUE]
    BY <1>1 DEF MessagesInv, MTypeOK
  <2>2. messages'[m] \in Message /\ messages'[m].content = messages[m].content
    BY <2>1 DEF Message
  <2> QED BY <2>2, MessagesAssumption
<1>3. MTypeOK'
  BY <1>1, <1>2 DEF MessagesInv, MTypeOK
<1>4. \A m \in MessageIds : messages[m] # None => SameFor(m)
  BY <1>1, <1>2 DEF SameFor, Deleted
<1>5. ASSUME NEW d \in Calls PROVE CopyOK(d)' /\ NewOK(d)'
  <2>1. CopyOK(d) /\ NewOK(d) /\ pc'[d] = pc[d] /\ hand'[d] = hand[d]
    BY <1>1 DEF MessagesInv
  <2>2. \A h \in Copies(d) : SameFor(h.message)
    BY <1>4, <2>1 DEF CopyOK, Copy
  <2> QED BY <2>1, <2>2, CopiesStay DEF NewOK
<1> QED BY <1>3, <1>4, <1>5 DEF MessagesInv

\* No call holds a message that is removed for good.
LEMMA CleanupKeeps ==
  ASSUME MessagesInv, NEW old \in SUBSET MessageIds, CleanupDeletedMessages(old)
  PROVE  /\ MessagesInv'
         /\ \A m \in MessageIds : messages'[m] # None => messages'[m] = messages[m]
<1>1. /\ \A c \in Calls : pc[c] # "idle" => hand[c].message \notin old
      /\ messages' = [m \in MessageIds |-> IF m \in old THEN None ELSE messages[m]]
      /\ raced' = raced \ old /\ UNCHANGED <<pc, hand>>
  BY DEF CleanupDeletedMessages, Idle, serviceVars
<1>2. MTypeOK'
  BY <1>1 DEF MessagesInv, MTypeOK
<1>3. ASSUME NEW d \in Calls PROVE CopyOK(d)' /\ NewOK(d)'
  <2>1. CopyOK(d) /\ NewOK(d) /\ pc'[d] = pc[d] /\ hand'[d] = hand[d]
    BY <1>1 DEF MessagesInv
  <2>2. ASSUME NEW h \in Copies(d) PROVE SameFor(h.message)
    <3>1. pc[d] # "idle" /\ Copy(h) /\ hand[d].message = h.message
      BY <2>1 DEF CopyOK, Copies
    <3> QED BY <1>1, <3>1 DEF Copy, SameFor, Deleted
  <2> QED BY <2>1, <2>2, CopiesStay DEF NewOK
<1> QED BY <1>1, <1>2, <1>3 DEF MessagesInv

--------------------------------------------------------------------------------
LEMMA MessageNextKeeps == MessagesInv /\ [MessagesNext]_messagesVars => MessagesInv'
<1> SUFFICES ASSUME MessagesInv, [MessagesNext]_messagesVars PROVE MessagesInv'
  OBVIOUS
<1>1. ASSUME \/ UNCHANGED messagesVars
             \/ \E m \in MessageIds, u \in Users : RemoveReaction(m, u)
      PROVE  MessagesInv'
  <2>1. UNCHANGED <<messages, raced, pc, hand>>
    BY <1>1 DEF messagesVars, messagesTables, RemoveReaction, serviceVars
  <2> QED BY <2>1 DEF MessagesInv, MTypeOK, CopyOK, NewOK, Copies, Copy, Deleted
<1>2. ASSUME NEW old \in SUBSET MessageIds, ArchiveOldMessages(old) \/ CleanupDeletedMessages(old)
      PROVE  MessagesInv'
  BY <1>2, ArchiveKeeps, CleanupKeeps
<1>3. ASSUME NEW c \in Calls,
             \/ \E m \in MessageIds :
                  \/ UpdateMessage(c, m) \/ DeleteMessage(c, m)
                  \/ \E u \in Users : MarkAsRead(c, m, u) \/ AddReaction(c, m, u)
             \/ \E m \in MessageIds \cup {None} : CreateMessage(c, m)
      PROVE  MessagesInv'
  BY <1>3, EditKeeps, MarkKeeps, OtherRequestsKeep
<1>4. ASSUME NEW c \in Calls,
             \/ InsertMessage(c) \/ SaveMessage(c) \/ FindReceipt(c) \/ InsertReceipt(c)
             \/ FindReaction(c) \/ InsertReaction(c) \/ MessagesFail(c)
      PROVE  MessagesInv'
  BY <1>4, MessageInsertKeeps, MessageSaveKeeps, ReceiptKeeps, OtherStepsKeep
<1> QED BY <1>1, <1>2, <1>3, <1>4 DEF MessagesNext

LEMMA MessagesInductive == MessagesSpec => []MessagesInv
BY MessagesInitInv, MessageNextKeeps, PTL DEF MessagesSpec

\* deleteMessage is for good, unless another call held the message as it was
\* when it was deleted: no request finds a deleted message, and no copy that is
\* saved later brings it back.
THEOREM DeletedForGood == MessagesSpec => DeletionHolds
<1> DEFINE Holds == \A m \in Used(messages) \ raced :
      Deleted(m) /\ messages'[m] # None => Deleted(m)'
<1>1. MessagesInv /\ [MessagesNext]_messagesVars => [Holds]_messagesVars
  <2> SUFFICES ASSUME MessagesInv, MessagesNext, NEW m \in Used(messages) \ raced,
                      Deleted(m), messages'[m] # None
               PROVE  Deleted(m)'
    OBVIOUS
  <2>1. m \in MessageIds /\ messages[m] # None /\ m \notin raced
    BY DEF MessagesInv, MTypeOK, Used
  <2>2. CASE messages' = messages
    BY <2>2 DEF Deleted
  <2>3. ASSUME NEW old \in SUBSET MessageIds, ArchiveOldMessages(old)
        PROVE  Deleted(m)'
    BY <2>1, <2>3, ArchiveKeeps DEF SameFor
  <2>4. ASSUME NEW old \in SUBSET MessageIds, CleanupDeletedMessages(old)
        PROVE  Deleted(m)'
    BY <2>1, <2>4, CleanupKeeps DEF Deleted
  <2>5. ASSUME NEW c \in Calls, InsertMessage(c)
        PROVE  Deleted(m)'
    BY <2>1, <2>5 DEF MessagesInv, MTypeOK, InsertMessage, Unused, Deleted
  <2>6. ASSUME NEW c \in Calls, SaveMessage(c)
        PROVE  Deleted(m)'
    <3>1. PICK h : h = hand[c]
      OBVIOUS
    <3>2. pc[c] = "saveMessage" /\ Save(h)
      BY <2>6, <3>1 DEF SaveMessage
    <3>3. Copy(h)
      BY <3>1, <3>2 DEF MessagesInv, CopyOK, Copies
    <3>4. h.message = m => h.row.content = "removed"
      BY <2>1, <3>3 DEF Copy
    <3> QED BY <2>1, <3>2, <3>3, <3>4 DEF Save, Copy, Deleted, MessagesInv, MTypeOK
  <2>7. \/ messages' = messages
        \/ \E old \in SUBSET MessageIds : ArchiveOldMessages(old) \/ CleanupDeletedMessages(old)
        \/ \E c \in Calls : InsertMessage(c) \/ SaveMessage(c)
    BY DEF MessagesNext, RemoveReaction, UpdateMessage, DeleteMessage, MarkAsRead, AddReaction,
           CreateMessage, FindReceipt, InsertReceipt, FindReaction, InsertReaction,
           MessagesFail, messagesTables
  <2> QED BY <2>2, <2>3, <2>4, <2>5, <2>6, <2>7
<1> QED BY MessagesInductive, <1>1, PTL DEF MessagesSpec, DeletionHolds

--------------------------------------------------------------------------------
(* What every service does with its calls: one of them moves. *)

CallsOK ==
  /\ DOMAIN pc = Calls /\ DOMAIN hand = Calls
  /\ failures \in Nat /\ apart \in BOOLEAN
  /\ apart => \A c \in Calls : pc[c] # "idle" => \A d \in Calls \ {c} : pc[d] = "idle"

Moved(c) ==
  /\ OnlyOf(c)
  /\ apart' => apart /\ \A d \in Calls \ {c} : pc[d] = "idle"

LEMMA CallBegins ==
  ASSUME CallsOK, NEW c \in Calls, NEW at, NEW held, Begin(c, at, held)
  PROVE  /\ CallsOK' /\ Moved(c) /\ failures' = failures
         /\ pc[c] = "idle" /\ pc'[c] = at /\ hand'[c] = held
BY DEF CallsOK, Moved, OnlyOf, Begin, Idle

LEMMA CallGoes ==
  ASSUME CallsOK, NEW c \in Calls, pc[c] # "idle", NEW at, NEW held, Go(c, at, held)
  PROVE  /\ CallsOK' /\ Moved(c) /\ failures' = failures
         /\ pc'[c] = at /\ hand'[c] = held
BY DEF CallsOK, Moved, OnlyOf, Go

LEMMA CallFails ==
  ASSUME CallsOK, NEW c \in Calls, Fail(c)
  PROVE  /\ CallsOK' /\ Moved(c) /\ failures' > 0
         /\ pc[c] # "idle" /\ pc'[c] = "idle"
BY DEF CallsOK, Moved, OnlyOf, Fail, Idle, Reject

--------------------------------------------------------------------------------
(* Activity: follows *)

Distribution == {"findActivity", "findFollowers", "saveFollowers", "saveTargets"}

\* A follow that is to be inserted has no row, as long as calls do not overlap.
FollowOK(c) ==
  /\ pc[c] = "insertFollow" =>
       /\ hand[c] \in [subscriber : Users, publisher : Users]
       /\ apart => Between(hand[c].subscriber, hand[c].publisher) = {}
  /\ pc[c] \in {"saveFollow", "endFollow"} => hand[c].id \in Used(subscriptions)

OneFollow ==
  apart => \A s, t \in Used(subscriptions) :
             /\ subscriptions[s].subscriber = subscriptions[t].subscriber
             /\ subscriptions[s].publisher = subscriptions[t].publisher
             => s = t

FollowsInv ==
  /\ CallsOK
  /\ subscriptions \in [Subscriptions -> Follow \cup {None}]
  /\ \A c \in Calls : FollowOK(c)
  /\ OneFollow
  /\ EndedFollowEnds

LEMMA FollowsInit == ActivityInit => FollowsInv
BY DEF ActivityInit, ServiceInit, FollowsInv, CallsOK, FollowOK, OneFollow, EndedFollowEnds, Used

\* A call moves, and the follows stay as they are.
LEMMA FollowsStay ==
  ASSUME FollowsInv, NEW c \in Calls, Moved(c), CallsOK', UNCHANGED <<subscriptions, ended>>,
         FollowOK(c)'
  PROVE  FollowsInv'
<1>1. ASSUME NEW d \in Calls PROVE FollowOK(d)'
  BY DEF FollowsInv, FollowOK, Moved, OnlyOf, Between, Used
<1>2. OneFollow' /\ EndedFollowEnds'
  BY DEF FollowsInv, OneFollow, EndedFollowEnds, Moved, Used
<1> QED BY <1>1, <1>2 DEF FollowsInv

\* A row is written, the only one of its pair; the call ends.
LEMMA FollowWritten ==
  ASSUME FollowsInv, NEW c \in Calls, Moved(c), CallsOK', pc'[c] = "idle",
         NEW s \in Subscriptions, NEW row \in Follow,
         subscriptions' = [subscriptions EXCEPT ![s] = row],
         IF subscriptions[s] = None
         THEN apart' => Between(row.subscriber, row.publisher) = {}
         ELSE row.subscriber = subscriptions[s].subscriber
             /\ row.publisher = subscriptions[s].publisher,
         ended' = IF row.active THEN ended \ {<<row.subscriber, row.publisher>>}
                  ELSE ended \cup {<<row.subscriber, row.publisher>>}
  PROVE  FollowsInv'
<1>1. /\ None \notin Follow
      /\ subscriptions \in [Subscriptions -> Follow \cup {None}]
      /\ apart' => apart
  BY ActivityAssumption DEF FollowsInv, Moved
<1>2. /\ subscriptions' \in [Subscriptions -> Follow \cup {None}]
      /\ subscriptions'[s] = row
      /\ \A t \in Subscriptions \ {s} : subscriptions'[t] = subscriptions[t]
  BY <1>1
<1>3. Used(subscriptions)' = Used(subscriptions) \cup {s}
  BY <1>1, <1>2 DEF Used
<1>4. ASSUME NEW d \in Calls PROVE FollowOK(d)'
  <2>1. CASE d = c
    BY <2>1 DEF FollowOK
  <2>2. CASE d # c
    <3>1. pc'[d] = pc[d] /\ hand'[d] = hand[d] /\ (apart' => pc[d] = "idle") /\ FollowOK(d)
      BY <2>2 DEF Moved, OnlyOf, FollowsInv
    <3> QED BY <1>3, <3>1 DEF FollowOK
  <2> QED BY <2>1, <2>2
<1>5. OneFollow'
  <2> SUFFICES ASSUME apart', NEW t \in Used(subscriptions)', t # s,
                      subscriptions'[t].subscriber = row.subscriber,
                      subscriptions'[t].publisher = row.publisher
               PROVE  FALSE
    <3>1. ASSUME apart', NEW t \in Used(subscriptions)' \ {s}, NEW u \in Used(subscriptions)' \ {s},
                 subscriptions'[t].subscriber = subscriptions'[u].subscriber,
                 subscriptions'[t].publisher = subscriptions'[u].publisher
          PROVE  t = u
      BY <1>1, <1>2, <1>3, <3>1 DEF FollowsInv, OneFollow, Used
    <3>2. ASSUME apart', NEW t \in Used(subscriptions)', NEW u \in Used(subscriptions)',
                 subscriptions'[t].subscriber = subscriptions'[u].subscriber,
                 subscriptions'[t].publisher = subscriptions'[u].publisher
          PROVE  t = u
      <4>1. CASE t # s /\ u # s
        BY <3>1, <3>2, <4>1
      <4>2. CASE t = s
        BY <1>2, <3>2, <4>2
      <4>3. CASE u = s
        BY <1>2, <3>2, <4>3
      <4> QED BY <4>1, <4>2, <4>3
    <3> QED BY <3>2 DEF OneFollow
  <2>1. /\ t \in Used(subscriptions) /\ t \in Subscriptions
        /\ subscriptions[t].subscriber = row.subscriber
        /\ subscriptions[t].publisher = row.publisher
    BY <1>1, <1>2, <1>3 DEF Used
  <2>2. CASE subscriptions[s] = None
    BY <2>1, <2>2 DEF Between
  <2>3. CASE subscriptions[s] # None
    BY <1>1, <2>1, <2>3 DEF FollowsInv, OneFollow, Used
  <2> QED BY <2>2, <2>3
<1>6. EndedFollowEnds'
  <2> SUFFICES ASSUME apart', NEW t \in Used(subscriptions)', subscriptions'[t].active
               PROVE  <<subscriptions'[t].subscriber, subscriptions'[t].publisher>> \notin ended'
    BY DEF EndedFollowEnds
  <2>1. CASE t = s
    BY <1>2, <2>1
  <2>2. CASE t # s
    <3>1. /\ t \in Used(subscriptions) /\ subscriptions'[t] = subscriptions[t]
          /\ <<subscriptions[t].subscriber, subscriptions[t].publisher>> \notin ended
      BY <1>1, <1>2, <1>3, <2>2 DEF FollowsInv, EndedFollowEnds, Used
    <3>2. ~(/\ subscriptions'[t].subscriber = subscriptions'[s].subscriber
            /\ subscriptions'[t].publisher = subscriptions'[s].publisher)
      BY <1>3, <1>5, <2>2 DEF OneFollow
    <3> QED BY <1>2, <3>1, <3>2
  <2> QED BY <2>1, <2>2
<1> QED BY <1>2, <1>4, <1>5, <1>6 DEF FollowsInv

LEMMA FollowsKept == ASSUME FollowsInv, [ActivityNext]_activityVars PROVE FollowsInv'
<1> USE DEF FollowsInv
<1>1. ASSUME NEW c \in Calls, NEW u \in Users, NEW p \in Users, Subscribe(c, u, p)
             \/ Unsubscribe(c, u, p)
      PROVE  FollowsInv'
  <2>1. UNCHANGED <<subscriptions, ended>>
    BY <1>1 DEF Subscribe, Unsubscribe, activityTables
  <2>2. ASSUME NEW s \in Between(u, p), NEW at \in {"saveFollow", "endFollow"},
               Begin(c, at, [id |-> s])
        PROVE  FollowsInv'
    <3>1. CallsOK' /\ Moved(c) /\ pc'[c] = at /\ hand'[c] = [id |-> s]
      BY <2>2, CallBegins
    <3>2. hand'[c].id \in Used(subscriptions)'
      BY <2>1, <2>2, <3>1 DEF Between, Used
    <3> QED BY <2>1, <2>2, <3>1, <3>2, FollowsStay DEF FollowOK
  <2>3. CASE Between(u, p) = {} /\ Begin(c, "insertFollow", [subscriber |-> u, publisher |-> p])
    <3>1. /\ CallsOK' /\ Moved(c) /\ pc'[c] = "insertFollow"
          /\ hand'[c] = [subscriber |-> u, publisher |-> p]
      BY <2>3, CallBegins
    <3>2. Between(u, p)' = {}
      BY <2>1, <2>3 DEF Between, Used
    <3>3. FollowOK(c)'
      BY <3>1, <3>2 DEF FollowOK, Between, Used
    <3> QED BY <2>1, <3>1, <3>3, FollowsStay
  <2> QED BY <1>1, <2>2, <2>3 DEF Subscribe, Unsubscribe
<1>2. ASSUME NEW c \in Calls, InsertFollow(c) PROVE FollowsInv'
  <2>1. /\ FollowOK(c) /\ pc[c] = "insertFollow" /\ CallsOK' /\ Moved(c) /\ pc'[c] = "idle"
        /\ apart' => apart
    BY <1>2, CallGoes DEF InsertFollow, End, Moved
  <2>2. PICK s \in Unused(subscriptions) : subscriptions' = [subscriptions EXCEPT ![s] =
         [subscriber |-> hand[c].subscriber, publisher |-> hand[c].publisher, active |-> TRUE]]
    BY <1>2 DEF InsertFollow
  <2>3. PICK row \in Follow : row = [subscriber |-> hand[c].subscriber,
             publisher |-> hand[c].publisher, active |-> TRUE]
    BY <2>1 DEF FollowOK, Follow
  <2>4. s \in Subscriptions /\ subscriptions[s] = None
    BY <2>2 DEF Unused
  <2>5. /\ row.active /\ ended' = ended \ {<<row.subscriber, row.publisher>>}
        /\ (apart' => Between(row.subscriber, row.publisher) = {})
    BY <1>2, <2>1, <2>3 DEF InsertFollow, FollowOK
  <2> QED BY <2>1, <2>2, <2>3, <2>4, <2>5, FollowWritten
<1>3. ASSUME NEW c \in Calls, SaveFollow(c) \/ EndFollow(c) PROVE FollowsInv'
  <2>1. FollowOK(c) /\ pc[c] # "idle" /\ CallsOK' /\ Moved(c) /\ pc'[c] = "idle"
    BY <1>3, CallGoes DEF SaveFollow, EndFollow, End
  <2>2. PICK s \in Subscriptions : s = hand[c].id /\ subscriptions[s] # None
             /\ subscriptions[s] \in Follow
    BY <1>3, <2>1 DEF SaveFollow, EndFollow, FollowOK, Used
  <2>3. PICK active \in BOOLEAN :
          /\ subscriptions' = [subscriptions EXCEPT ![s].active = active]
          /\ ended' = IF active THEN ended \ {<<subscriptions[s].subscriber,
               subscriptions[s].publisher>>}
                      ELSE ended \cup {<<subscriptions[s].subscriber, subscriptions[s].publisher>>}
    <3>1. CASE SaveFollow(c)
      BY <2>2, <3>1 DEF SaveFollow
    <3>2. CASE EndFollow(c)
      BY <2>2, <3>2 DEF EndFollow
    <3> QED BY <1>3, <3>1, <3>2
  <2>4. PICK row : row = [subscriptions[s] EXCEPT !.active = active]
    OBVIOUS
  <2>5. /\ row \in Follow /\ row.active = active
        /\ row.subscriber = subscriptions[s].subscriber
             /\ row.publisher = subscriptions[s].publisher
    BY <2>2, <2>3, <2>4 DEF Follow
  <2>6. subscriptions' = [subscriptions EXCEPT ![s] = row]
    BY <2>3, <2>4
  <2>7. /\ row.subscriber = subscriptions[s].subscriber
             /\ row.publisher = subscriptions[s].publisher
        /\ ended' = IF row.active THEN ended \ {<<row.subscriber, row.publisher>>}
                    ELSE ended \cup {<<row.subscriber, row.publisher>>}
    BY <2>3, <2>5
  <2>8. IF subscriptions[s] = None
        THEN apart' => Between(row.subscriber, row.publisher) = {}
        ELSE row.subscriber = subscriptions[s].subscriber
            /\ row.publisher = subscriptions[s].publisher
    BY <2>2, <2>7
  <2>9. row \in Follow
    BY <2>5
  <2> HIDE DEF FollowsInv
  <2> QED BY <2>1, <2>2, <2>6, <2>7, <2>8, <2>9, FollowWritten
<1>4. ASSUME NEW c \in Calls, NEW row \in Drafts, CreateActivity(c, row) PROVE FollowsInv'
  <2>1. CallsOK' /\ Moved(c) /\ pc'[c] = "insertActivity" /\ UNCHANGED <<subscriptions, ended>>
    BY <1>4, CallBegins DEF CreateActivity, activityTables
  <2> QED BY <2>1, FollowsStay DEF FollowOK
<1>5. ASSUME NEW c \in Calls, NEW a \in Activities, StartAttempt(c, a) PROVE FollowsInv'
  <2>1. CallsOK' /\ Moved(c) /\ pc'[c] = "findActivity" /\ UNCHANGED <<subscriptions, ended>>
    BY <1>5, CallBegins DEF StartAttempt
  <2> QED BY <2>1, FollowsStay DEF FollowOK
<1>6. ASSUME NEW c \in Calls, InsertActivity(c) \/ Enqueue(c) \/ FindActivity(c) \/ FindFollowers(c)
                              \/ SaveFollowers(c) \/ SaveTargets(c)
      PROVE  FollowsInv'
  <2>1. pc[c] # "idle" /\ UNCHANGED <<subscriptions, ended>>
    BY <1>6 DEF InsertActivity, Enqueue, FindActivity, FindFollowers, SaveFollowers, SaveTargets,
         activityTables
  <2>2. PICK at \in Distribution \cup {"enqueue", "idle"}, held \in {hand'[c]} : Go(c, at, hand'[c])
    <3>1. ASSUME NEW at, NEW held, Go(c, at, held) PROVE Go(c, at, hand'[c])
      BY <3>1 DEF Go
    <3> QED BY <1>6, <3>1 DEF InsertActivity, Enqueue, FindActivity, FindFollowers, SaveFollowers,
                             SaveTargets, End, Distribution
  <2>3. CallsOK' /\ Moved(c) /\ pc'[c] = at
    BY <2>1, <2>2, CallGoes
  <2> QED BY <2>1, <2>3, FollowsStay DEF FollowOK, Distribution
<1>7. ASSUME NEW c \in Calls, DistributionFail(c) \/ CallFail(c) PROVE FollowsInv'
  <2>1. CallsOK' /\ Moved(c) /\ pc'[c] = "idle" /\ UNCHANGED <<subscriptions, ended>>
    BY <1>7, CallFails DEF DistributionFail, CallFail, activityTables
  <2> QED BY <2>1, FollowsStay DEF FollowOK
<1>8. CASE UNCHANGED <<subscriptions, ended, serviceVars>>
  BY <1>8 DEF CallsOK, FollowOK, OneFollow, EndedFollowEnds, Between, Used, serviceVars
<1> QED BY <1>1, <1>2, <1>3, <1>4, <1>5, <1>6, <1>7, <1>8
        DEF ActivityNext, DeleteActivity, MarkRead, activityVars, activityTables

LEMMA FollowsInductive == ActivitySpec => []FollowsInv
BY FollowsInit, FollowsKept, PTL DEF ActivitySpec

\* Calls that do not overlap leave nobody following whom he has ceased to follow.
THEOREM EndedFollowsEnd == ActivitySpec => []EndedFollowEnds
<1>1. FollowsInv => EndedFollowEnds
  BY DEF FollowsInv
<1> QED BY <1>1, FollowsInductive, PTL

--------------------------------------------------------------------------------
(* Activity: distribution *)

Delivering == Distribution \cup {"enqueue"}
ItemsOf(a) == {i \in DOMAIN items : i.activity = a}

FeedTypes ==
  /\ activities \in [Activities -> Row \cup {None}]
  /\ jobs \in [Activities -> Job \cup {None}]
  /\ DOMAIN items \subseteq [user : Users, activity : Activities]

\* What a call that creates or distributes an activity holds.
DistributionOK(c) ==
  /\ pc[c] = "insertActivity" => hand[c] \in Row /\ ~hand[c].deleted
  /\ pc[c] \in Delivering =>
       hand[c].activity \in Activities /\ activities[hand[c].activity] # None
  /\ pc[c] = "enqueue" => jobs[hand[c].activity] = None
  /\ pc[c] \in Distribution =>
       jobs[hand[c].activity] # None /\ jobs[hand[c].activity].status = "active"
  /\ pc[c] = "saveFollowers" => hand[c].users \subseteq Users

\* One call at a time distributes an activity.
OneDistributes ==
  \A c, d \in Calls :
    pc[c] \in Delivering /\ pc[d] \in Delivering /\ hand[c].activity = hand[d].activity => c = d

NotYet(a) ==
  /\ activities[a] = None => jobs[a] = None
  /\ jobs[a] = None => ItemsOf(a) = {}

\* Without a cause to give it up, a distribution finds no item in its way: the
\* followers come first, and have the only ones when the targets come.
CallOnCourse(c, a) ==
  pc[c] \in Distribution /\ hand[c].activity = a =>
    /\ pc[c] # "saveTargets" => ItemsOf(a) = {}
    /\ pc[c] \in {"findFollowers", "saveFollowers"} => activities[a].public
    /\ pc[c] = "saveFollowers" =>
         ~hand[c].twice /\ \A u \in hand[c].users : Between(u, activities[a].actor) # {}
    /\ pc[c] = "saveTargets" =>
         \A i \in ItemsOf(a) : activities[a].public /\ Between(i.user, activities[a].actor) # {}

OnCourse(a) ==
  activities[a] # None /\ ~Cause(a) =>
    /\ jobs[a] # None => /\ jobs[a].status # "failed"
                         /\ jobs[a].status = "waiting" => ItemsOf(a) = {}
    /\ \A c \in Calls : CallOnCourse(c, a)

FeedInv ==
  /\ FeedTypes
  /\ \A c \in Calls : DistributionOK(c)
  /\ OneDistributes
  /\ \A a \in Activities : NotYet(a) /\ OnCourse(a)

LEMMA TargetsAreUsers == ASSUME NEW row \in Row PROVE Targets(row) \subseteq Users
BY DEF Row, Targets

LEMMA FeedInit == ActivityInit => FeedInv
BY DEF ActivityInit, ServiceInit, FeedInv, FeedTypes, DistributionOK, OneDistributes, NotYet,
   OnCourse, ItemsOf, Delivering, Distribution

\* An activity stays, and is deleted for good; a follow keeps its users.
Grown ==
  /\ \A a \in Used(activities) :
       /\ activities'[a] # None
       /\ activities'[a].actor = activities[a].actor
       /\ activities'[a].public = activities[a].public
       /\ activities'[a].targets = activities[a].targets
       /\ activities[a].deleted => activities'[a].deleted
  /\ \A s \in Used(subscriptions) :
       /\ subscriptions'[s] # None
       /\ subscriptions'[s].subscriber = subscriptions[s].subscriber
       /\ subscriptions'[s].publisher = subscriptions[s].publisher
  /\ failures' >= failures

LEMMA ActivitiesGrow == ASSUME FollowsInv, FeedInv, [ActivityNext]_activityVars PROVE Grown
<1> DEFINE Stay == \A a \in Used(activities) :
                     /\ activities'[a] # None
                     /\ activities'[a].actor = activities[a].actor
                     /\ activities'[a].public = activities[a].public
                     /\ activities'[a].targets = activities[a].targets
                     /\ activities[a].deleted => activities'[a].deleted
           Keep == \A s \in Used(subscriptions) :
                     /\ subscriptions'[s] # None
                     /\ subscriptions'[s].subscriber = subscriptions[s].subscriber
                     /\ subscriptions'[s].publisher = subscriptions[s].publisher
<1>1. /\ activities \in [Activities -> Row \cup {None}]
      /\ subscriptions \in [Subscriptions -> Follow \cup {None}]
      /\ None \notin Row /\ None \notin Follow
      /\ CallsOK
  BY ActivityAssumption DEF FeedInv, FeedTypes, FollowsInv
<1>2. Stay
  <2>1. CASE activities' = activities
    BY <1>1, <2>1 DEF Used
  <2>2. ASSUME NEW c \in Calls, InsertActivity(c) PROVE Stay
    BY <1>1, <2>2 DEF InsertActivity, Used, Unused
  <2>3. ASSUME NEW a \in Activities, DeleteActivity(a) PROVE Stay
    <3>1. /\ [activities[a] EXCEPT !.deleted = TRUE] \in Row
          /\ activities' = [activities EXCEPT ![a] = [activities[a] EXCEPT !.deleted = TRUE]]
      BY <1>1, <2>3 DEF DeleteActivity, Row
    <3>2. activities[a] \in Row /\ activities[a] # None
      BY <1>1, <2>3 DEF DeleteActivity
    <3>3. PICK row \in Row : /\ row = [activities[a] EXCEPT !.deleted = TRUE]
                             /\ row.actor = activities[a].actor
                             /\ row.public = activities[a].public
                             /\ row.targets = activities[a].targets
                             /\ row.deleted
      <4>1. PICK T : T = Seq(Users)
        OBVIOUS
      <4>2. activities[a] \in [actor: Users, public: BOOLEAN, targets: T, deleted: BOOLEAN]
        BY <3>2, <4>1 DEF Row
      <4>3. PICK row : row = [activities[a] EXCEPT !.deleted = TRUE]
        OBVIOUS
      <4>4. row \in [actor: Users, public: BOOLEAN, targets: T, deleted: BOOLEAN]
            /\ row.actor = activities[a].actor
            /\ row.public = activities[a].public
            /\ row.targets = activities[a].targets
            /\ row.deleted
        BY <4>2, <4>3
      <4>5. row \in Row
        BY <4>1, <4>4 DEF Row
      <4> QED BY <4>3, <4>4, <4>5
    <3> QED BY <1>1, <3>1, <3>3 DEF Used
  <2> QED BY <2>1, <2>2, <2>3
          DEF ActivityNext, activityVars, activityTables, CreateActivity, Enqueue, MarkRead,
              StartAttempt,
              FindActivity, FindFollowers, SaveFollowers, SaveTargets, DistributionFail, Subscribe,
              InsertFollow, SaveFollow, Unsubscribe, EndFollow, CallFail
<1>3. Keep
  <2>1. CASE subscriptions' = subscriptions
    BY <1>1, <2>1 DEF Used
  <2>2. ASSUME NEW c \in Calls, InsertFollow(c) PROVE Keep
    BY <1>1, <2>2 DEF InsertFollow, Used, Unused
  <2>3. ASSUME NEW c \in Calls, SaveFollow(c) \/ EndFollow(c) PROVE Keep
    <3>1. PICK s \in {hand[c].id}, active \in BOOLEAN :
           subscriptions' = [subscriptions EXCEPT ![s].active = active]
      BY <2>3 DEF SaveFollow, EndFollow
    <3>2. PICK row : row = [subscriptions[s] EXCEPT !.active = active]
      OBVIOUS
    <3>3. ASSUME s \in Used(subscriptions)
          PROVE  /\ row \in Follow
                 /\ row.subscriber = subscriptions[s].subscriber
                 /\ row.publisher = subscriptions[s].publisher
      BY <1>1, <3>2, <3>3 DEF Used, Follow
    <3>4. subscriptions' = [subscriptions EXCEPT ![s] = row]
      BY <3>1, <3>2
    <3> QED BY <1>1, <3>3, <3>4 DEF Used
  <2> QED BY <2>1, <2>2, <2>3
          DEF ActivityNext, activityVars, activityTables, CreateActivity, Enqueue, MarkRead,
              StartAttempt,
              FindActivity, FindFollowers, SaveFollowers, SaveTargets, DistributionFail, Subscribe,
              InsertActivity, DeleteActivity, Unsubscribe, CallFail
<1>4. failures' >= failures
  <2>1. failures \in Nat
    BY <1>1 DEF CallsOK
  <2>2. CASE failures' = failures
    BY <2>1, <2>2
  <2>3. ASSUME NEW c \in Calls, DistributionFail(c) \/ CallFail(c) PROVE failures' >= failures
    <3>1. failures' = failures + 1
      BY <2>3 DEF DistributionFail, CallFail, Fail, Reject
    <3> QED BY <2>1, <3>1
  <2>4. ASSUME NEW c \in Calls, InsertFollow(c) \/ SaveFollow(c) \/ EndFollow(c)
               \/ InsertActivity(c)
                                \/ Enqueue(c)
        PROVE  failures' = failures
    BY <2>4 DEF InsertFollow, SaveFollow, EndFollow, InsertActivity, Enqueue, End, Go
  <2>5. ASSUME NEW c \in Calls, FindActivity(c) \/ FindFollowers(c) \/ SaveFollowers(c)
               \/ SaveTargets(c)
        PROVE  failures' = failures
    BY <2>5 DEF FindActivity, FindFollowers, SaveFollowers, SaveTargets, End, Go
  <2>6. ASSUME NEW c \in Calls, \/ \E row \in Drafts : CreateActivity(c, row)
                                \/ \E a \in Activities : StartAttempt(c, a)
                                \/ \E u, p \in Users : Subscribe(c, u, p) \/ Unsubscribe(c, u, p)
        PROVE  failures' = failures
    BY <2>6 DEF CreateActivity, StartAttempt, Subscribe, Unsubscribe, Begin
  <2>7. ASSUME \/ \E a \in Activities : DeleteActivity(a)
               \/ \E i \in DOMAIN items : MarkRead(i)
               \/ UNCHANGED activityVars
        PROVE  failures' = failures
    BY <2>7 DEF DeleteActivity, MarkRead, activityVars, serviceVars
  <2> QED BY <2>2, <2>3, <2>4, <2>5, <2>6, <2>7 DEF ActivityNext
<1> QED BY <1>2, <1>3, <1>4 DEF Grown

\* Two rows are more than one.
LEMMA TwoRows ==
  ASSUME NEW S, IsFiniteSet(S), NEW s \in S, NEW t \in S, s # t
  PROVE  Cardinality(S) > 1
<1>1. IsFiniteSet({s}) /\ Cardinality({s}) = 1
  BY FS_Singleton
<1>2. Cardinality({s} \cup {t}) = 2 /\ IsFiniteSet({s} \cup {t})
  BY <1>1, FS_AddElement
<1>3. Cardinality({s} \cup {t}) <= Cardinality(S) /\ Cardinality(S) \in Nat
  BY FS_Subset, FS_CardinalityType
<1> QED BY <1>2, <1>3

\* A cause does not pass.
LEMMA CauseStays ==
  ASSUME FollowsInv, FollowsInv', Grown, NEW a \in Used(activities), Cause(a)
  PROVE  Cause(a)'
<1>1. DOMAIN subscriptions = Subscriptions /\ DOMAIN subscriptions' = Subscriptions
      /\ failures \in Nat
      /\ failures' \in Nat
  BY DEF FollowsInv, CallsOK
<1>2. ASSUME NEW u, NEW p
      PROVE  /\ Between(u, p) \subseteq Between(u, p)'
             /\ Cardinality(Between(u, p)) <= Cardinality(Between(u, p)')
             /\ Cardinality(Between(u, p)) \in Nat /\ Cardinality(Between(u, p)') \in Nat
  <2>1. Between(u, p) \subseteq Between(u, p)'
    BY <1>1 DEF Grown, Between, Used
  <2>2. Between(u, p)' \subseteq Subscriptions
    BY <1>1 DEF Between, Used
  <2>3. IsFiniteSet(Between(u, p)')
    BY <2>2, ActivityAssumption, FS_Subset
  <2> QED BY <2>1, <2>3, FS_Subset, FS_CardinalityType
<1>3. CASE failures > 0
  BY <1>1, <1>3 DEF Grown, Cause
<1>4. CASE activities[a].deleted
  BY <1>4 DEF Grown, Cause
<1>5. CASE activities[a].public /\ \E u \in Users :
             \/ u \in Targets(activities[a]) /\ Between(u, activities[a].actor) # {}
             \/ Cardinality(Between(u, activities[a].actor)) > 1
  <2>1. PICK u \in Users : \/ u \in Targets(activities[a]) /\ Between(u, activities[a].actor) # {}
                           \/ Cardinality(Between(u, activities[a].actor)) > 1
    BY <1>5
  <2>2. PICK p : p = activities[a].actor /\ p = activities'[a].actor
    BY DEF Grown
  <2>3. \/ u \in Targets(activities'[a]) /\ Between(u, p)' # {}
        \/ Cardinality(Between(u, p)') > 1
    BY <1>2, <2>1, <2>2 DEF Grown, Targets
  <2>4. activities'[a].public
    BY <1>5 DEF Grown
  <2> QED BY <2>2, <2>3, <2>4 DEF Cause
<1>6. CASE ListsTwice(activities[a])
  BY <1>6 DEF Grown, Cause, ListsTwice
<1> QED BY <1>3, <1>4, <1>5, <1>6 DEF Cause

\* What a step has nothing to do with stays on course.
LEMMA Elsewhere ==
  ASSUME FollowsInv, FollowsInv', FeedInv, Grown, NEW a \in Activities,
         jobs'[a] = jobs[a], ItemsOf(a)' = ItemsOf(a), FeedTypes',
         \A c \in Calls : pc'[c] \in Distribution /\ hand'[c].activity = a
                            => pc'[c] = pc[c] /\ hand'[c] = hand[c]
  PROVE  NotYet(a)' /\ OnCourse(a)'
<1>1. NotYet(a) /\ OnCourse(a) /\ DOMAIN activities = Activities
  BY DEF FeedInv, FeedTypes
<1>2. NotYet(a)'
  BY <1>1 DEF NotYet, Grown, Used
<1>3. CASE activities[a] = None
  <2>1. jobs'[a] = None
    BY <1>1, <1>3 DEF NotYet
  <2>2. ASSUME NEW c \in Calls PROVE CallOnCourse(c, a)'
    BY <1>3 DEF CallOnCourse, FeedInv, DistributionOK, Delivering
  <2> QED BY <1>2, <2>1, <2>2 DEF OnCourse
<1>4. CASE activities[a] # None
  <2> SUFFICES ASSUME ~Cause(a)'
               PROVE  OnCourse(a)'
    BY <1>2 DEF OnCourse
  <2>1. a \in Used(activities)
    BY <1>1, <1>4 DEF Used
  <2>2. ~Cause(a)
    BY <2>1, CauseStays
  <2>3. /\ activities'[a].public = activities[a].public
        /\ activities'[a].actor = activities[a].actor
    BY <2>1 DEF Grown
  <2>4. ASSUME NEW u, NEW p PROVE Between(u, p) \subseteq Between(u, p)'
    BY DEF Grown, Between, Used, FollowsInv
  <2>5. ASSUME NEW c \in Calls PROVE CallOnCourse(c, a)'
    <3> SUFFICES ASSUME pc'[c] \in Distribution, hand'[c].activity = a
                 PROVE  CallOnCourse(c, a)'
      BY DEF CallOnCourse
    <3>1. pc'[c] = pc[c] /\ hand'[c] = hand[c] /\ CallOnCourse(c, a)
      BY <1>1, <1>4, <2>2 DEF OnCourse
    <3>2. PICK p : p = activities[a].actor /\ p = activities'[a].actor
      BY <2>3
    <3>3. /\ pc'[c] # "saveTargets" => ItemsOf(a)' = {}
          /\ pc'[c] \in {"findFollowers", "saveFollowers"} => activities'[a].public
      BY <2>3, <3>1 DEF CallOnCourse
    <3>4. ASSUME pc'[c] = "saveFollowers"
          PROVE  ~hand'[c].twice /\ \A u \in hand'[c].users : Between(u, p)' # {}
      BY <2>4, <3>1, <3>2, <3>4 DEF CallOnCourse
    <3>5. ASSUME pc'[c] = "saveTargets", NEW i \in ItemsOf(a)'
          PROVE  activities'[a].public /\ Between(i.user, p)' # {}
      BY <2>3, <2>4, <3>1, <3>2, <3>5 DEF CallOnCourse
    <3> QED BY <3>2, <3>3, <3>4, <3>5 DEF CallOnCourse
  <2>6. jobs'[a] # None => /\ jobs'[a].status # "failed"
                           /\ jobs'[a].status = "waiting" => ItemsOf(a)' = {}
    BY <1>1, <1>4, <2>2 DEF OnCourse
  <2> QED BY <2>5, <2>6 DEF OnCourse
<1> QED BY <1>2, <1>3, <1>4

\* One call moves, and the others hold what they held.
LEMMA DistributionsApart ==
  ASSUME FeedInv, Grown, NEW c \in Calls, Moved(c), DistributionOK(c)', FeedTypes',
         \A d \in Calls \ {c} : pc[d] \in Delivering =>
           /\ jobs'[hand[d].activity] = jobs[hand[d].activity]
           /\ pc'[c] \in Delivering => hand[d].activity # hand'[c].activity
  PROVE  (\A d \in Calls : DistributionOK(d)') /\ OneDistributes'
<1>1. ASSUME NEW d \in Calls \ {c} PROVE pc'[d] = pc[d] /\ hand'[d] = hand[d]
  BY DEF Moved, OnlyOf
<1>2. ASSUME NEW d \in Calls PROVE DistributionOK(d)'
  <2>1. CASE d = c
    BY <2>1
  <2>2. CASE d # c
    <3>1. DistributionOK(d) /\ pc'[d] = pc[d] /\ hand'[d] = hand[d]
      BY <1>1, <2>2 DEF FeedInv
    <3>2. pc[d] \in Delivering => /\ hand[d].activity \in Used(activities)
                                  /\ activities'[hand[d].activity] # None
                                  /\ jobs'[hand[d].activity] = jobs[hand[d].activity]
      BY <2>2, <3>1 DEF DistributionOK, Used, Grown, FeedInv, FeedTypes
    <3> QED BY <3>1, <3>2 DEF DistributionOK, Delivering
  <2> QED BY <2>1, <2>2
<1>3. OneDistributes'
  <2> SUFFICES ASSUME NEW d \in Calls, NEW e \in Calls, d # e,
                      pc'[d] \in Delivering, pc'[e] \in Delivering,
                          hand'[d].activity = hand'[e].activity
               PROVE  FALSE
    BY DEF OneDistributes
  <2>1. CASE d = c
    BY <1>1, <2>1
  <2>2. CASE e = c
    BY <1>1, <2>2
  <2>3. CASE d # c /\ e # c
    BY <1>1, <2>3 DEF FeedInv, OneDistributes
  <2> QED BY <2>1, <2>2, <2>3
<1> QED BY <1>2, <1>3

\* A call that has nothing to do with a distribution moves.
LEMMA FeedStays ==
  ASSUME FollowsInv, FollowsInv', FeedInv, Grown, NEW c \in Calls, Moved(c),
         UNCHANGED <<activities, jobs, items>>,
         pc'[c] \notin Delivering, pc'[c] = "insertActivity"
             => hand'[c] \in Row /\ ~hand'[c].deleted
  PROVE  FeedInv'
<1>1. FeedTypes'
  BY DEF FeedInv, FeedTypes
<1>2. DistributionOK(c)'
  BY DEF DistributionOK, Delivering, Distribution
<1>3. (\A d \in Calls : DistributionOK(d)') /\ OneDistributes'
  BY <1>1, <1>2, DistributionsApart
<1>4. ASSUME NEW a \in Activities PROVE NotYet(a)' /\ OnCourse(a)'
  <2>1. ItemsOf(a)' = ItemsOf(a)
    BY DEF ItemsOf
  <2> QED BY <1>1, <2>1, Elsewhere DEF Moved, OnlyOf, Delivering
<1> QED BY <1>1, <1>3, <1>4 DEF FeedInv

\* A distribution moves.  Its job is the only one that changes, and the items
\* that come are its own.
LEMMA DistributionMoves ==
  ASSUME FollowsInv, FollowsInv', FeedInv, Grown, NEW c \in Calls, Moved(c), pc[c] \in Delivering,
         activities' = activities, NEW a \in Activities, a = hand[c].activity,
         NEW job \in Job, jobs' = [jobs EXCEPT ![a] = job],
         FeedTypes', \A b \in Activities \ {a} : ItemsOf(b)' = ItemsOf(b),
         \/ pc'[c] = "idle"
         \/ /\ pc'[c] \in Distribution /\ hand'[c].activity = a /\ job.status = "active"
            /\ pc'[c] = "saveFollowers" => hand'[c].users \subseteq Users,
         ~Cause(a)' => /\ job.status # "failed"
                       /\ job.status = "waiting" => ItemsOf(a)' = {}
                       /\ CallOnCourse(c, a)'
  PROVE  FeedInv'
<1>1. /\ DistributionOK(c) /\ OneDistributes /\ NotYet(a)
      /\ jobs \in [Activities -> Job \cup {None}] /\ None \notin Job
      /\ jobs'[a] = job /\ \A b \in Activities \ {a} : jobs'[b] = jobs[b]
      /\ activities[a] # None
  BY ActivityAssumption DEF FeedInv, FeedTypes, DistributionOK
<1>2. ASSUME NEW d \in Calls \ {c}, pc[d] \in Delivering
      PROVE  hand[d].activity \in Activities \ {a}
  BY <1>1, <1>2 DEF OneDistributes, FeedInv, DistributionOK
<1>3. ASSUME NEW d \in Calls \ {c} PROVE pc'[d] = pc[d] /\ hand'[d] = hand[d]
  BY DEF Moved, OnlyOf
<1>4. DistributionOK(c)'
  BY <1>1 DEF DistributionOK, Distribution, Delivering
<1>5. (\A d \in Calls : DistributionOK(d)') /\ OneDistributes'
  <2>1. ASSUME NEW d \in Calls \ {c}, pc[d] \in Delivering
        PROVE  /\ jobs'[hand[d].activity] = jobs[hand[d].activity]
               /\ pc'[c] \in Delivering => hand[d].activity # hand'[c].activity
    BY <1>1, <1>2, <2>1 DEF Delivering, Distribution
  <2> QED BY <1>4, <2>1, DistributionsApart
<1>6. ASSUME NEW b \in Activities \ {a} PROVE NotYet(b)' /\ OnCourse(b)'
  <2>1. jobs'[b] = jobs[b] /\ ItemsOf(b)' = ItemsOf(b)
    BY <1>1
  <2>2. ASSUME NEW d \in Calls, pc'[d] \in Distribution, hand'[d].activity = b
        PROVE  pc'[d] = pc[d] /\ hand'[d] = hand[d]
    <3>1. d # c
      BY <2>2 DEF Distribution
    <3> QED BY <1>3, <3>1
  <2> QED BY <2>1, <2>2, Elsewhere
<1>7. NotYet(a)'
  BY <1>1 DEF NotYet
<1>8. OnCourse(a)'
  <2> SUFFICES ASSUME ~Cause(a)' PROVE OnCourse(a)'
    BY DEF OnCourse
  <2>1. ASSUME NEW d \in Calls \ {c} PROVE CallOnCourse(d, a)'
    BY <1>2, <1>3 DEF CallOnCourse, Delivering
  <2> QED BY <1>1, <2>1 DEF OnCourse
<1> QED BY <1>5, <1>6, <1>7, <1>8 DEF FeedInv

\* Fewer subscribers than follows: one of them follows twice.
LEMMA TwiceIsTwoRows ==
  ASSUME FollowsInv, NEW p, NEW users, users = {subscriptions[s].subscriber : s \in FollowsOf(p)},
         Cardinality(users) < Cardinality(FollowsOf(p))
  PROVE  \E u \in Users : Cardinality(Between(u, p)) > 1
<1> DEFINE f == [s \in FollowsOf(p) |-> subscriptions[s].subscriber]
<1>1. subscriptions \in [Subscriptions -> Follow \cup {None}]
      /\ FollowsOf(p) \subseteq Subscriptions
  BY DEF FollowsInv, FollowsOf, Used
<1>2. IsFiniteSet(FollowsOf(p))
  BY <1>1, ActivityAssumption, FS_Subset
<1>3. f \in [FollowsOf(p) -> users] /\ f \in Surjection(FollowsOf(p), users)
  BY DEF Surjection
<1>4. IsFiniteSet(users)
  BY <1>2, <1>3, FS_Surjection
<1> HIDE DEF f
<1>5. PICK s, t \in FollowsOf(p) : s # t /\ f[s] = f[t]
  BY <1>2, <1>3, <1>4, FS_PigeonHole
<1>6. subscriptions[s].subscriber = subscriptions[t].subscriber
  BY <1>5 DEF f
<1>7. PICK u \in Users : u = subscriptions[s].subscriber
  BY <1>1, ActivityAssumption DEF FollowsOf, Used, Follow
<1>8. s \in Between(u, p) /\ t \in Between(u, p)
  BY <1>6, <1>7 DEF Between, FollowsOf
<1>9. IsFiniteSet(Between(u, p))
  <2>1. Between(u, p) \subseteq Subscriptions
    BY <1>1 DEF Between, Used
  <2> QED BY <2>1, ActivityAssumption, FS_Subset
<1> QED BY <1>5, <1>8, <1>9, TwoRows

\* An attempt that fails has a cause.
LEMMA AttemptFails ==
  ASSUME FollowsInv, FollowsInv', FeedInv, Grown, NEW c \in Calls, Moved(c), pc[c] \in Distribution,
         UNCHANGED <<activities, items>>, pc'[c] = "idle",
         NEW a \in Activities, a = hand[c].activity, AttemptFailed(a), Cause(a)'
  PROVE  FeedInv'
<1>1. jobs[a] # None /\ jobs[a] \in Job
  BY DEF FeedInv, FeedTypes, DistributionOK, Delivering
<1>2. PICK job \in Job : jobs' = [jobs EXCEPT ![a] = job]
  <2>1. PICK status \in {"waiting", "failed"} : jobs' = [jobs EXCEPT ![a].status = status]
    BY <1>1 DEF AttemptFailed
  <2>2. [jobs[a] EXCEPT !.status = status] \in Job
    BY <1>1 DEF Job
  <2> QED BY <2>1, <2>2
<1>3. FeedTypes'
  BY <1>2 DEF FeedInv, FeedTypes
<1>4. \A b \in Activities : ItemsOf(b)' = ItemsOf(b)
  BY DEF ItemsOf
<1> QED BY <1>1, <1>2, <1>3, <1>4, DistributionMoves DEF Delivering

\* The items of a transaction
LEMMA ItemsWritten ==
  ASSUME FeedTypes, NEW a \in Activities, NEW score, NEW now, DOMAIN score \subseteq Users,
         items' = WithItems(a, score, now)
  PROVE  /\ DOMAIN items' \subseteq [user : Users, activity : Activities]
         /\ \A b \in Activities \ {a} : ItemsOf(b)' = ItemsOf(b)
         /\ ItemsOf(a)' = ItemsOf(a) \cup {[user |-> u, activity |-> a] : u \in DOMAIN score}
<1>1. DOMAIN items' = {[user |-> u, activity |-> a] : u \in DOMAIN score} \cup DOMAIN items
  BY DEF WithItems
<1>2. DOMAIN items \subseteq [user : Users, activity : Activities]
  BY DEF FeedTypes
<1>3. \A u \in DOMAIN score : [user |-> u, activity |-> a] \in [user : Users, activity : Activities]
  OBVIOUS
<1>4. DOMAIN items' \subseteq [user : Users, activity : Activities]
  BY <1>1, <1>2, <1>3
<1>5. ASSUME NEW b \in Activities \ {a} PROVE ItemsOf(b)' = ItemsOf(b)
  BY <1>1 DEF ItemsOf
<1>6. ItemsOf(a)' = ItemsOf(a) \cup {[user |-> u, activity |-> a] : u \in DOMAIN score}
  BY <1>1 DEF ItemsOf
<1> QED BY <1>4, <1>5, <1>6

LEMMA FeedKept ==
  ASSUME FollowsInv, FollowsInv', FeedInv, [ActivityNext]_activityVars
  PROVE  FeedInv'
<1>1. CallsOK
  BY DEF FollowsInv
<1>0. Grown
  BY ActivitiesGrow
<1> USE <1>0
<1>2. ASSUME NEW c \in Calls,
             \/ \E row \in Drafts : CreateActivity(c, row)
             \/ \E u, p \in Users : Subscribe(c, u, p) \/ Unsubscribe(c, u, p)
             \/ InsertFollow(c) \/ SaveFollow(c) \/ EndFollow(c) \/ CallFail(c)
      PROVE  FeedInv'
  <2>1. ASSUME NEW row \in Drafts, CreateActivity(c, row) PROVE FeedInv'
    <3>1. Moved(c) /\ pc'[c] = "insertActivity" /\ hand'[c] = row
          /\ UNCHANGED <<activities, jobs, items>>
      BY <1>1, <2>1, CallBegins DEF CreateActivity, activityTables
    <3>2. row \in Row /\ ~row.deleted
      BY ActivityAssumption
    <3> QED BY <3>1, <3>2, FeedStays DEF Delivering, Distribution
  <2>2. ASSUME NEW u \in Users, NEW p \in Users, Subscribe(c, u, p) \/ Unsubscribe(c, u, p)
        PROVE  FeedInv'
    <3>1. PICK at \in {"saveFollow", "insertFollow", "endFollow"},
               held \in {[id |-> s] : s \in Between(u, p)} \cup {[subscriber |-> u,
                   publisher |-> p]} :
            Begin(c, at, held)
      BY <2>2 DEF Subscribe, Unsubscribe
    <3>2. Moved(c) /\ pc'[c] = at /\ UNCHANGED <<activities, jobs, items>>
      BY <1>1, <2>2, <3>1, CallBegins DEF Subscribe, Unsubscribe, activityTables
    <3> QED BY <3>2, FeedStays DEF Delivering, Distribution
  <2>3. ASSUME InsertFollow(c) \/ SaveFollow(c) \/ EndFollow(c) PROVE FeedInv'
    <3>1. Moved(c) /\ pc'[c] = "idle" /\ UNCHANGED <<activities, jobs, items>>
      BY <1>1, <2>3, CallGoes DEF InsertFollow, SaveFollow, EndFollow, End
    <3> QED BY <3>1, FeedStays DEF Delivering, Distribution
  <2>4. ASSUME CallFail(c) PROVE FeedInv'
    <3>1. Moved(c) /\ pc'[c] = "idle" /\ UNCHANGED <<activities, jobs, items>>
      BY <1>1, <2>4, CallFails DEF CallFail, activityTables
    <3> QED BY <3>1, FeedStays DEF Delivering, Distribution
  <2> QED BY <1>2, <2>1, <2>2, <2>3, <2>4
<1>3. ASSUME NEW c \in Calls, InsertActivity(c) PROVE FeedInv'
  <2>1. PICK a \in Unused(activities) : /\ activities' = [activities EXCEPT ![a] = hand[c]]
                                        /\ Go(c, "enqueue", [activity |-> a])
    BY <1>3 DEF InsertActivity
  <2>2. /\ Moved(c) /\ pc'[c] = "enqueue" /\ hand'[c] = [activity |-> a]
        /\ UNCHANGED <<subscriptions, items, jobs>>
    BY <1>1, <1>3, <2>1, CallGoes DEF InsertActivity
  <2>3. /\ a \in Activities /\ activities[a] = None /\ hand[c] \in Row
        /\ activities'[a] = hand[c] /\ hand[c] # None /\ NotYet(a)
    BY <1>3, <2>1, ActivityAssumption DEF InsertActivity, Unused, FeedInv, FeedTypes, DistributionOK
  <2>4. FeedTypes'
    BY <2>1, <2>2, <2>3 DEF FeedInv, FeedTypes
  <2>5. DistributionOK(c)'
    BY <2>2, <2>3 DEF DistributionOK, Distribution, NotYet
  <2>6. (\A d \in Calls : DistributionOK(d)') /\ OneDistributes'
    <3>1. \A d \in Calls \ {c} : pc[d] \in Delivering =>
            /\ jobs'[hand[d].activity] = jobs[hand[d].activity]
            /\ pc'[c] \in Delivering => hand[d].activity # hand'[c].activity
      BY <2>2, <2>3 DEF FeedInv, DistributionOK
    <3> QED BY <2>2, <2>4, <2>5, <3>1, DistributionsApart
  <2>7. ASSUME NEW b \in Activities PROVE NotYet(b)' /\ OnCourse(b)'
    <3>1. jobs'[b] = jobs[b] /\ ItemsOf(b)' = ItemsOf(b)
      BY <2>2 DEF ItemsOf
    <3> QED BY <2>2, <2>4, <3>1, Elsewhere DEF Moved, OnlyOf, Distribution
  <2> QED BY <2>4, <2>6, <2>7 DEF FeedInv
<1>4. ASSUME NEW c \in Calls, Enqueue(c) PROVE FeedInv'
  <2>1. PICK a \in Activities : /\ a = hand[c].activity /\ jobs[a] = None /\ pc[c] = "enqueue"
                                /\ activities[a] # None
    BY <1>4 DEF Enqueue, FeedInv, DistributionOK, Delivering
  <2>2. PICK job \in Job : job = [attempt |-> 0, status |-> "waiting"]
    BY DEF Job
  <2>3. /\ Moved(c) /\ pc'[c] = "idle" /\ jobs' = [jobs EXCEPT ![a] = job]
        /\ UNCHANGED <<activities, subscriptions, items>>
    BY <1>1, <1>4, <2>1, <2>2, CallGoes DEF Enqueue, End
  <2>4. FeedTypes' /\ \A b \in Activities : ItemsOf(b)' = ItemsOf(b)
    BY <2>3 DEF FeedInv, FeedTypes, ItemsOf
  <2>5. ItemsOf(a) = {}
    BY <2>1 DEF FeedInv, NotYet
  <2>6. job.status # "failed" /\ CallOnCourse(c, a)'
    BY <2>2, <2>3 DEF CallOnCourse, Distribution
  <2> QED BY <2>1, <2>3, <2>4, <2>5, <2>6, DistributionMoves DEF Delivering
<1>5. ASSUME NEW c \in Calls, NEW a \in Activities, StartAttempt(c, a) PROVE FeedInv'
  <2>1. /\ jobs[a] # None /\ jobs[a].status = "waiting" /\ jobs[a] \in Job
        /\ NotYet(a) /\ OnCourse(a) /\ activities[a] # None
    BY <1>5 DEF StartAttempt, FeedInv, FeedTypes, NotYet
  <2>2. /\ Moved(c) /\ pc'[c] = "findActivity" /\ hand'[c] = [activity |-> a]
        /\ UNCHANGED <<activities, subscriptions, items, failures>>
    BY <1>1, <1>5, CallBegins DEF StartAttempt
  <2>3. PICK job \in Job : job = [attempt |-> jobs[a].attempt + 1, status |-> "active"]
    <3>1. jobs[a].attempt + 1 \in Nat
      BY <2>1 DEF Job
    <3>2. [attempt |-> jobs[a].attempt + 1, status |-> "active"] \in Job
      BY <3>1 DEF Job
    <3> QED BY <3>2
  <2>4. jobs' = [jobs EXCEPT ![a] = job] /\ jobs'[a] = job
        /\ \A b \in Activities \ {a} : jobs'[b] = jobs[b]
    BY <1>5, <2>3 DEF StartAttempt, FeedInv, FeedTypes
  <2>5. FeedTypes'
    BY <2>2, <2>4 DEF FeedInv, FeedTypes
  <2>6. ASSUME NEW d \in Calls \ {c},
               pc[d] \in Delivering PROVE hand[d].activity \in Activities \ {a}
    BY <2>1, <2>6 DEF FeedInv, DistributionOK, Delivering
  <2>7. DistributionOK(c)'
    <3>1. jobs'[a] # None /\ jobs'[a].status = "active"
      BY <2>3, <2>4, ActivityAssumption
    <3>2. pc'[c] = "findActivity" /\ hand'[c].activity = a /\ activities'[a] # None
      BY <2>1, <2>2
    <3> QED BY <3>1, <3>2 DEF DistributionOK
  <2>8. (\A d \in Calls : DistributionOK(d)') /\ OneDistributes'
    BY <2>2, <2>4, <2>5, <2>6, <2>7, DistributionsApart
  <2>9. ASSUME NEW b \in Activities \ {a} PROVE NotYet(b)' /\ OnCourse(b)'
    <3>1. jobs'[b] = jobs[b] /\ ItemsOf(b)' = ItemsOf(b)
      BY <2>2, <2>4 DEF ItemsOf
    <3> QED BY <2>2, <2>5, <3>1, Elsewhere DEF Moved, OnlyOf
  <2>10. NotYet(a)' /\ OnCourse(a)'
    <3>1. Cause(a)' = Cause(a) /\ ItemsOf(a)' = ItemsOf(a)
      BY <2>2 DEF Cause, Between, Used, ItemsOf
    <3>2. ASSUME NEW d \in Calls \ {c} PROVE CallOnCourse(d, a)'
      BY <2>2, <2>6 DEF Moved, OnlyOf, CallOnCourse, Delivering
    <3>3. jobs'[a] # None
      BY <2>3, <2>4, ActivityAssumption
    <3>4. ~Cause(a) => CallOnCourse(c, a)'
      BY <2>1, <2>2, <3>1 DEF OnCourse, CallOnCourse
    <3> QED BY <2>1, <2>2, <2>3, <2>4, <3>1, <3>2, <3>3, <3>4 DEF NotYet, OnCourse
  <2> QED BY <2>5, <2>8, <2>9, <2>10 DEF FeedInv
<1>6. ASSUME NEW c \in Calls, FindActivity(c) \/ FindFollowers(c) \/ SaveFollowers(c)
             \/ SaveTargets(c)
                              \/ DistributionFail(c)
      PROVE  FeedInv'
  <2>1. PICK a \in Activities : /\ a = hand[c].activity /\ jobs[a] # None /\ jobs[a] \in Job
                                /\ jobs[a].status = "active" /\ pc[c] \in Distribution
                                     /\ activities[a] # None
                                /\ activities[a] \in Row /\ OnCourse(a)
    BY <1>6, ActivityAssumption
    DEF FindActivity, FindFollowers, SaveFollowers, SaveTargets, DistributionFail, FeedInv,
        FeedTypes,
        DistributionOK, Delivering, Distribution
  <2>2. UNCHANGED <<activities, subscriptions>>
    BY <1>6 DEF FindActivity, FindFollowers, SaveFollowers, SaveTargets, DistributionFail,
         activityTables
  <2>3. CASE DistributionFail(c)
    <3>1. Moved(c) /\ pc'[c] = "idle" /\ Cause(a)' /\ UNCHANGED <<activities, items>>
          /\ AttemptFailed(a)
      BY <1>1, <2>1, <2>3, CallFails DEF DistributionFail, Cause
    <3> QED BY <2>1, <3>1, AttemptFails
  <2>4. CASE FindActivity(c) /\ activities[a].deleted
    <3>1. Moved(c) /\ pc'[c] = "idle" /\ UNCHANGED <<activities, items>> /\ AttemptFailed(a)
      BY <1>1, <2>1, <2>4, CallGoes DEF FindActivity, End
    <3>2. Cause(a)'
      BY <2>2, <2>4 DEF Cause
    <3> QED BY <2>1, <3>1, <3>2, AttemptFails
  <2>5. CASE FindActivity(c) /\ ~activities[a].deleted
    <3>1. /\ Moved(c) /\ hand'[c] = hand[c] /\ failures' = failures
          /\ pc'[c] = IF activities[a].public THEN "findFollowers" ELSE "saveTargets"
          /\ UNCHANGED <<activities, items, jobs>>
      BY <1>1, <2>1, <2>5, CallGoes DEF FindActivity
    <3>2. jobs' = [jobs EXCEPT ![a] = jobs[a]] /\ FeedTypes'
      BY <3>1 DEF FeedInv, FeedTypes
    <3>3. \A b \in Activities : ItemsOf(b)' = ItemsOf(b)
      BY <3>1 DEF ItemsOf
    <3>4. Cause(a)' = Cause(a)
      BY <2>2, <3>1 DEF Cause, Between, Used
    <3>5. pc[c] = "findActivity"
      BY <2>5 DEF FindActivity
    <3>6. ~Cause(a)' => CallOnCourse(c, a)'
      BY <2>1, <3>1, <3>3, <3>4, <3>5 DEF OnCourse, CallOnCourse
    <3>7. pc'[c] \in Distribution /\ pc'[c] # "saveFollowers" /\ hand'[c].activity = a
      BY <2>1, <3>1 DEF Distribution
    <3>8. jobs[a] \in Job /\ jobs[a].status = "active" /\ pc[c] \in Delivering
      BY <2>1 DEF Delivering
    <3> QED BY <2>1, <3>1, <3>2, <3>3, <3>6, <3>7, <3>8, DistributionMoves
  <2>6. CASE FindFollowers(c)
    <3>1. PICK p \in Users : p = activities[a].actor
      BY <2>1 DEF Row
    <3>2. PICK users : users = {subscriptions[s].subscriber : s \in FollowsOf(p)}
      OBVIOUS
    <3>10. PICK twice : twice = (Cardinality(users) < Cardinality(FollowsOf(p)))
      OBVIOUS
    <3>3. /\ Moved(c) /\ pc'[c] = "saveFollowers" /\ failures' = failures
          /\ hand'[c] = [activity |-> a, users |-> users, twice |-> twice]
          /\ UNCHANGED <<activities, items, jobs>>
      BY <1>1, <2>1, <2>6, <3>1, <3>2, <3>10, CallGoes DEF FindFollowers, activityTables
    <3>4. jobs' = [jobs EXCEPT ![a] = jobs[a]] /\ FeedTypes'
      BY <3>3 DEF FeedInv, FeedTypes
    <3>5. \A b \in Activities : ItemsOf(b)' = ItemsOf(b)
      BY <3>3 DEF ItemsOf
    <3>6. users \subseteq Users
      BY <3>2, ActivityAssumption DEF FollowsInv, FollowsOf, Used, Follow
    <3>7. ASSUME ~Cause(a)' PROVE CallOnCourse(c, a)'
      <4>1. ~Cause(a)
        BY <2>2, <3>3, <3>7 DEF Cause, Between, Used
      <4>2. pc[c] = "findFollowers" /\ ItemsOf(a) = {} /\ activities[a].public
        BY <2>1, <2>6, <4>1 DEF FindFollowers, OnCourse, CallOnCourse
      <4>3. ~(Cardinality(users) < Cardinality(FollowsOf(p)))
        BY <3>1, <3>2, <4>1, <4>2, TwiceIsTwoRows DEF Cause
      <4>4. \A u \in users : Between(u, p)' # {}
        BY <2>2, <3>2 DEF FollowsOf, Between, Used
      <4>5. ~hand'[c].twice /\ hand'[c].users = users /\ pc'[c] = "saveFollowers"
        <5>1. ~twice
          BY <3>10, <4>3
        <5>2. hand'[c].twice = twice
          BY <3>3
        <5> QED BY <3>3, <5>1, <5>2
      <4>6. ItemsOf(a)' = {} /\ activities'[a].public /\ activities'[a].actor = p
        BY <2>2, <3>1, <3>5, <4>2
      <4>7. \A u \in hand'[c].users : Between(u, activities[a].actor)' # {}
        BY <4>4, <4>5, <4>6
      <4> QED BY <4>5, <4>6, <4>7 DEF CallOnCourse
    <3>8. pc'[c] \in Distribution /\ hand'[c].activity = a /\ hand'[c].users = users
      BY <3>3 DEF Distribution
    <3>9. jobs[a] \in Job /\ jobs[a].status = "active" /\ pc[c] \in Delivering
      BY <2>1 DEF Delivering
    <3> QED BY <2>1, <3>3, <3>4, <3>5, <3>6, <3>7, <3>8, <3>9, DistributionMoves
  <2>7. CASE SaveFollowers(c)
    <3>1. /\ hand[c].users \subseteq Users /\ pc[c] = "saveFollowers"
      BY <2>7 DEF SaveFollowers, FeedInv, DistributionOK
    <3>2. CASE Refused(a, hand[c].users, hand[c].twice)
      <4>1. Moved(c) /\ pc'[c] = "idle" /\ failures' = failures /\ UNCHANGED <<activities, items>>
            /\ AttemptFailed(a)
        BY <1>1, <2>1, <2>7, <3>2, CallGoes DEF SaveFollowers, End
      <4>2. Cause(a)
        <5> SUFFICES ASSUME ~Cause(a) PROVE FALSE
          OBVIOUS
        <5>1. CallOnCourse(c, a)
          BY <2>1 DEF OnCourse
        <5>2. ~hand[c].twice /\ ItemsOf(a) = {}
          BY <2>1, <3>1, <5>1 DEF CallOnCourse
        <5>3. ~activities[a].deleted
          BY DEF Cause
        <5>4. PICK u \in Users : [user |-> u, activity |-> a] \in DOMAIN items
          BY <3>1, <3>2, <5>2, <5>3 DEF Refused
        <5> QED BY <5>2, <5>4 DEF ItemsOf
      <4>3. Cause(a)'
        BY <2>2, <4>1, <4>2 DEF Cause, Between, Used
      <4> QED BY <2>1, <4>1, <4>3, AttemptFails
    <3>3. CASE ~Refused(a, hand[c].users, hand[c].twice)
      <4>1. /\ Moved(c) /\ pc'[c] = "saveTargets" /\ hand'[c] = [activity |-> a]
                 /\ failures' = failures
            /\ UNCHANGED <<activities, jobs>>
        BY <1>1, <2>1, <2>7, <3>3, CallGoes DEF SaveFollowers
      <4>2. PICK score \in [hand[c].users -> 1..TopScore], now \in Times :
              items' = WithItems(a, score, now)
        BY <2>1, <2>7, <3>3 DEF SaveFollowers
      <4>3. FeedTypes /\ DOMAIN score \subseteq Users /\ DOMAIN score = hand[c].users
        BY <3>1, <4>2 DEF FeedInv
      <4>4. /\ DOMAIN items' \subseteq [user : Users, activity : Activities]
            /\ \A b \in Activities \ {a} : ItemsOf(b)' = ItemsOf(b)
            /\ ItemsOf(a)' = ItemsOf(a) \cup {[user |-> u, activity |-> a] : u \in hand[c].users}
        BY <4>2, <4>3, ItemsWritten
      <4>5. jobs' = [jobs EXCEPT ![a] = jobs[a]] /\ FeedTypes'
        BY <4>1, <4>4 DEF FeedInv, FeedTypes
      <4>6. ASSUME ~Cause(a)' PROVE CallOnCourse(c, a)'
        <5>1. ~Cause(a)
          BY <2>2, <4>1, <4>6 DEF Cause, Between, Used
        <5>2. ItemsOf(a) = {} /\ activities[a].public
              /\ \A u \in hand[c].users : Between(u, activities[a].actor) # {}
          BY <2>1, <3>1, <5>1 DEF OnCourse, CallOnCourse
        <5>3. \A i \in ItemsOf(a)' : i.user \in hand[c].users
          BY <4>4, <5>2
        <5>4. \A u \in hand[c].users : Between(u, activities[a].actor)' # {}
          BY <2>2, <5>2 DEF Between, Used
        <5> QED BY <2>2, <4>1, <5>2, <5>3, <5>4 DEF CallOnCourse
      <4>7. pc'[c] \in Distribution /\ pc'[c] # "saveFollowers" /\ hand'[c].activity = a
        BY <4>1 DEF Distribution
      <4>8. jobs[a] \in Job /\ jobs[a].status = "active" /\ pc[c] \in Delivering
        BY <2>1 DEF Delivering
      <4> QED BY <2>1, <4>1, <4>4, <4>5, <4>6, <4>7, <4>8, DistributionMoves
    <3> QED BY <3>2, <3>3
  <2>8. CASE SaveTargets(c)
    <3>1. /\ Moved(c) /\ pc'[c] = "idle" /\ failures' = failures /\ pc[c] = "saveTargets"
          /\ UNCHANGED activities
      BY <1>1, <2>8, CallGoes DEF SaveTargets, End
    <3>2. CASE Refused(a, Targets(activities[a]), ListsTwice(activities[a]))
      <4>1. AttemptFailed(a) /\ UNCHANGED items
        BY <2>1, <2>8, <3>2 DEF SaveTargets
      <4>2. Cause(a)
        <5> SUFFICES ASSUME ~Cause(a), NEW u \in Targets(activities[a]),
                            [user |-> u, activity |-> a] \in DOMAIN items
                     PROVE  FALSE
          BY <3>2 DEF Refused, Cause
        <5>1. u \in Users
          BY <2>1, TargetsAreUsers
        <5>2. [user |-> u, activity |-> a] \in ItemsOf(a)
          BY DEF ItemsOf
        <5>3. activities[a].public /\ Between(u, activities[a].actor) # {}
          BY <2>1, <3>1, <5>2 DEF OnCourse, CallOnCourse
        <5> QED BY <5>1, <5>3 DEF Cause
      <4>3. Cause(a)'
        BY <2>2, <3>1, <4>2 DEF Cause, Between, Used
      <4> QED BY <2>1, <3>1, <4>1, <4>3, AttemptFails
    <3>3. CASE ~Refused(a, Targets(activities[a]), ListsTwice(activities[a]))
      <4>1. PICK score, now : /\ score = [u \in Targets(activities[a]) |-> TopScore]
                              /\ items' = WithItems(a, score, now)
        BY <2>1, <2>8, <3>3 DEF SaveTargets
      <4>2. FeedTypes /\ DOMAIN score \subseteq Users
        BY <2>1, <4>1, TargetsAreUsers DEF FeedInv
      <4>3. /\ DOMAIN items' \subseteq [user : Users, activity : Activities]
            /\ \A b \in Activities \ {a} : ItemsOf(b)' = ItemsOf(b)
        BY <4>1, <4>2, ItemsWritten
      <4>4. PICK job \in Job : job = [jobs[a] EXCEPT !.status = "completed"]
                 /\ job.status = "completed"
        <5>1. /\ [jobs[a] EXCEPT !.status = "completed"] \in Job
              /\ [jobs[a] EXCEPT !.status = "completed"].status = "completed"
          BY <2>1 DEF Job
        <5> QED BY <5>1
      <4>5. jobs' = [jobs EXCEPT ![a] = job]
        BY <2>1, <2>8, <3>3, <4>4 DEF SaveTargets
      <4>6. FeedTypes'
        BY <3>1, <4>3, <4>5 DEF FeedInv, FeedTypes
      <4>7. CallOnCourse(c, a)'
        BY <3>1 DEF CallOnCourse, Distribution
      <4> QED BY <2>1, <3>1, <4>3, <4>4, <4>5, <4>6, <4>7, DistributionMoves DEF Delivering
    <3> QED BY <3>2, <3>3
  <2> QED BY <1>6, <2>3, <2>4, <2>5, <2>6, <2>7, <2>8
<1>7. ASSUME \/ \E a \in Activities : DeleteActivity(a)
             \/ \E i \in DOMAIN items : MarkRead(i)
             \/ UNCHANGED activityVars
      PROVE  FeedInv'
  <2>1. UNCHANGED <<pc, hand, jobs, DOMAIN items>>
    BY <1>7 DEF DeleteActivity, MarkRead, activityVars, activityTables, serviceVars
  <2>2. FeedTypes'
    <3>1. ASSUME NEW a \in Activities,
                 DeleteActivity(a) PROVE activities' \in [Activities -> Row \cup {None}]
      <4>1. activities[a] \in Row
        BY <3>1 DEF DeleteActivity, FeedInv, FeedTypes
      <4>2. [activities[a] EXCEPT !.deleted = TRUE] \in Row
        BY <4>1 DEF Row
      <4> QED BY <3>1, <4>2 DEF DeleteActivity, FeedInv, FeedTypes
    <3>2. activities' \in [Activities -> Row \cup {None}]
      BY <1>7, <3>1 DEF MarkRead, activityVars, activityTables, FeedInv, FeedTypes
    <3> QED BY <2>1, <3>2 DEF FeedInv, FeedTypes
  <2>3. ASSUME NEW c \in Calls PROVE DistributionOK(c)'
    BY <2>1 DEF FeedInv, FeedTypes, DistributionOK, Grown, Used
  <2>4. OneDistributes'
    BY <2>1 DEF FeedInv, OneDistributes
  <2>5. ASSUME NEW a \in Activities PROVE NotYet(a)' /\ OnCourse(a)'
    <3>1. ItemsOf(a)' = ItemsOf(a)
      BY <2>1 DEF ItemsOf
    <3> QED BY <2>1, <2>2, <3>1, Elsewhere
  <2> QED BY <2>2, <2>3, <2>4, <2>5 DEF FeedInv
<1> QED BY <1>2, <1>3, <1>4, <1>5, <1>6, <1>7 DEF ActivityNext

LEMMA FeedInductive == ActivitySpec => []FeedInv
BY FollowsInductive, FeedInit, FeedKept, PTL DEF ActivitySpec

\* A distribution is given up for a cause only, whatever else goes on: an attempt
\* that is tried again has put nothing in its own way.
THEOREM DistributedAlways == ActivitySpec => []DistributedUnlessCause
<1>1. FeedInv => DistributedUnlessCause
  BY DEF FeedInv, OnCourse, NotYet, DistributedUnlessCause
<1> QED BY <1>1, FeedInductive, PTL

--------------------------------------------------------------------------------
(* Notifications: preferences *)

\* A preference that is to be inserted has no row, as long as calls do not overlap.
PreferenceOK(c) ==
  /\ pc[c] = "insertPreference" =>
       /\ hand[c] \in Preference
       /\ apart => PreferencesFor(hand[c].user, hand[c].channel) = {}
  /\ pc[c] = "savePreference" => hand[c].id \in Used(preferences) /\ hand[c].enabled \in BOOLEAN

OnePreference ==
  apart => \A p, q \in Used(preferences) :
             /\ preferences[p].user = preferences[q].user
             /\ preferences[p].channel = preferences[q].channel
             => p = q

PreferencesInv ==
  /\ CallsOK
  /\ preferences \in [PreferenceIds -> Preference \cup {None}]
  /\ \A c \in Calls : PreferenceOK(c)
  /\ OnePreference

PreferencesKeep ==
  \A p \in Used(preferences) : /\ preferences'[p] # None
                               /\ preferences'[p].user = preferences[p].user
                               /\ preferences'[p].channel = preferences[p].channel

LEMMA PreferencesInit == NotificationsInit => PreferencesInv
BY DEF NotificationsInit, ServiceInit, PreferencesInv, CallsOK, PreferenceOK, OnePreference, Used

LEMMA PreferencesStay ==
  ASSUME PreferencesInv, NEW c \in Calls, Moved(c), CallsOK', UNCHANGED preferences,
         PreferenceOK(c)'
  PROVE  PreferencesInv' /\ PreferencesKeep
<1>1. ASSUME NEW d \in Calls PROVE PreferenceOK(d)'
  BY DEF PreferencesInv, PreferenceOK, Moved, OnlyOf, PreferencesFor, Used
<1>2. OnePreference' /\ PreferencesKeep
  BY DEF PreferencesInv, OnePreference, Moved, PreferencesKeep, Used
<1> QED BY <1>1, <1>2 DEF PreferencesInv

\* What moves a call that has nothing to do with preferences.
LEMMA PreferencesElsewhere ==
  ASSUME PreferencesInv, NEW c \in Calls, UNCHANGED preferences,
         pc'[c] \notin {"insertPreference", "savePreference"},
         \/ \E at, held : Begin(c, at, held)
         \/ pc[c] # "idle" /\ \E at, held : Go(c, at, held)
         \/ Fail(c)
         \/ /\ pc[c] # "idle" /\ Reject(c)
            /\ \E at, held : pc' = [pc EXCEPT ![c] = at] /\ hand' = [hand EXCEPT ![c] = held]
  PROVE  PreferencesInv' /\ PreferencesKeep /\ Moved(c)
<1>1. CallsOK
  BY DEF PreferencesInv
<1>2. CallsOK' /\ Moved(c)
  <2>1. CASE \E at, held : Begin(c, at, held)
    BY <1>1, <2>1, CallBegins
  <2>2. CASE pc[c] # "idle" /\ \E at, held : Go(c, at, held)
    BY <1>1, <2>2, CallGoes
  <2>3. CASE Fail(c)
    BY <1>1, <2>3, CallFails
  <2>4. CASE /\ pc[c] # "idle" /\ Reject(c)
             /\ \E at, held : pc' = [pc EXCEPT ![c] = at] /\ hand' = [hand EXCEPT ![c] = held]
    BY <1>1, <2>4 DEF CallsOK, Moved, OnlyOf, Reject
  <2> QED BY <2>1, <2>2, <2>3, <2>4
<1>3. PreferenceOK(c)'
  BY DEF PreferenceOK
<1> QED BY <1>2, <1>3, PreferencesStay

\* A row is written, the only one of its user and channel; the call ends.
LEMMA PreferenceWritten ==
  ASSUME PreferencesInv, NEW c \in Calls, Moved(c), CallsOK', pc'[c] = "idle",
         NEW p \in PreferenceIds, NEW row \in Preference,
         preferences' = [preferences EXCEPT ![p] = row],
         IF preferences[p] = None
         THEN apart' => PreferencesFor(row.user, row.channel) = {}
         ELSE row.user = preferences[p].user /\ row.channel = preferences[p].channel
  PROVE  PreferencesInv' /\ PreferencesKeep
<1>1. /\ None \notin Preference
      /\ preferences \in [PreferenceIds -> Preference \cup {None}]
      /\ apart' => apart
  BY NotificationsAssumption DEF PreferencesInv, Moved
<1>2. /\ preferences' \in [PreferenceIds -> Preference \cup {None}]
      /\ preferences'[p] = row
      /\ \A q \in PreferenceIds \ {p} : preferences'[q] = preferences[q]
  BY <1>1
<1>3. Used(preferences)' = Used(preferences) \cup {p}
  BY <1>1, <1>2 DEF Used
<1>4. ASSUME NEW d \in Calls PROVE PreferenceOK(d)'
  <2>1. CASE d = c
    BY <2>1 DEF PreferenceOK
  <2>2. CASE d # c
    <3>1. pc'[d] = pc[d] /\ hand'[d] = hand[d] /\ (apart' => pc[d] = "idle") /\ PreferenceOK(d)
      BY <2>2 DEF Moved, OnlyOf, PreferencesInv
    <3> QED BY <1>3, <3>1 DEF PreferenceOK
  <2> QED BY <2>1, <2>2
<1>5. OnePreference'
  <2> SUFFICES ASSUME apart', NEW q \in Used(preferences)', NEW r \in Used(preferences)',
                      preferences'[q].user = preferences'[r].user,
                      preferences'[q].channel = preferences'[r].channel
               PROVE  q = r
    BY DEF OnePreference
  <2>1. ASSUME NEW t \in Used(preferences)', t # p,
               preferences'[t].user = row.user, preferences'[t].channel = row.channel
        PROVE  FALSE
    <3>1. t \in Used(preferences) /\ preferences[t].user = row.user
          /\ preferences[t].channel = row.channel
      BY <1>1, <1>2, <1>3, <2>1 DEF Used
    <3>2. CASE preferences[p] = None
      BY <3>1, <3>2 DEF PreferencesFor
    <3>3. CASE preferences[p] # None
      BY <1>1, <2>1, <3>1, <3>3 DEF PreferencesInv, OnePreference, Used
    <3> QED BY <3>2, <3>3
  <2>2. CASE q # p /\ r # p
    BY <1>1, <1>2, <1>3, <2>2 DEF PreferencesInv, OnePreference, Used
  <2>3. CASE q = p
    BY <1>2, <2>1, <2>3
  <2>4. CASE r = p
    BY <1>2, <2>1, <2>4
  <2> QED BY <2>2, <2>3, <2>4
<1>6. PreferencesKeep
  BY <1>1, <1>2 DEF PreferencesKeep, Used
<1> QED BY <1>2, <1>4, <1>5, <1>6 DEF PreferencesInv

LEMMA PreferencesKept ==
  ASSUME PreferencesInv, [NotificationsNext]_notificationVars
  PROVE  PreferencesInv' /\ PreferencesKeep
<1>0. CallsOK /\ preferences \in [PreferenceIds -> Preference \cup {None}]
  BY DEF PreferencesInv
<1>1. ASSUME NEW c \in Calls, NEW u \in Users, NEW ch \in Channels, NEW enabled \in BOOLEAN,
             UpdatePreference(c, u, ch, enabled)
      PROVE  PreferencesInv' /\ PreferencesKeep
  <2>1. UNCHANGED preferences
    BY <1>1 DEF UpdatePreference, notificationTables
  <2>2. ASSUME NEW p \in PreferencesFor(u, ch),
               Begin(c, "savePreference", [id |-> p, enabled |-> enabled])
        PROVE  PreferencesInv' /\ PreferencesKeep
    <3>1. /\ CallsOK' /\ Moved(c) /\ pc'[c] = "savePreference"
          /\ hand'[c] = [id |-> p, enabled |-> enabled]
      BY <1>0, <2>2, CallBegins
    <3>2. hand'[c].id \in Used(preferences)' /\ hand'[c].enabled \in BOOLEAN
      BY <2>1, <2>2, <3>1 DEF PreferencesFor, Used
    <3>3. PreferenceOK(c)'
      BY <3>1, <3>2 DEF PreferenceOK
    <3> QED BY <2>1, <3>1, <3>3, PreferencesStay
  <2>3. CASE /\ PreferencesFor(u, ch) = {}
             /\ Begin(c, "insertPreference", [user |-> u, channel |-> ch, enabled |-> enabled])
    <3>1. /\ CallsOK' /\ Moved(c) /\ pc'[c] = "insertPreference"
          /\ hand'[c] = [user |-> u, channel |-> ch, enabled |-> enabled]
      BY <1>0, <2>3, CallBegins
    <3>2. PreferencesFor(u, ch)' = {}
      BY <2>1, <2>3 DEF PreferencesFor, Used
    <3>3. hand'[c] \in Preference /\ PreferencesFor(hand[c].user, hand[c].channel)' = {}
      BY <2>1, <3>1, <3>2 DEF Preference, PreferencesFor, Used
    <3>4. PreferenceOK(c)'
      BY <3>1, <3>3 DEF PreferenceOK
    <3> QED BY <2>1, <3>1, <3>4, PreferencesStay
  <2> QED BY <1>1, <2>2, <2>3 DEF UpdatePreference
<1>2. ASSUME NEW c \in Calls, InsertPreference(c) PROVE PreferencesInv' /\ PreferencesKeep
  <2>1. PreferenceOK(c) /\ pc[c] = "insertPreference" /\ CallsOK' /\ Moved(c) /\ pc'[c] = "idle"
    BY <1>0, <1>2, CallGoes DEF PreferencesInv, InsertPreference, End
  <2>2. PICK p \in PreferenceIds : preferences[p] = None
             /\ preferences' = [preferences EXCEPT ![p] = hand[c]]
    BY <1>0, <1>2 DEF InsertPreference, Unused
  <2>3. PICK row \in Preference : row = hand[c]
    BY <2>1 DEF PreferenceOK
  <2>4. apart' => PreferencesFor(row.user, row.channel) = {}
    BY <2>1, <2>3 DEF PreferenceOK, Moved
  <2> QED BY <2>1, <2>2, <2>3, <2>4, PreferenceWritten
<1>3. ASSUME NEW c \in Calls, SavePreference(c) PROVE PreferencesInv' /\ PreferencesKeep
  <2>1. PreferenceOK(c) /\ pc[c] = "savePreference" /\ CallsOK' /\ Moved(c) /\ pc'[c] = "idle"
    BY <1>0, <1>3, CallGoes DEF PreferencesInv, SavePreference, End
  <2>2. PICK p \in PreferenceIds, enabled \in BOOLEAN :
          /\ p = hand[c].id /\ enabled = hand[c].enabled
          /\ preferences[p] # None /\ preferences[p] \in Preference
    BY <1>0, <2>1 DEF PreferenceOK, Used
  <2>3. PICK row : row = [preferences[p] EXCEPT !.enabled = enabled]
    OBVIOUS
  <2>4. row \in Preference /\ row.user = preferences[p].user /\ row.channel = preferences[p].channel
    BY <2>2, <2>3 DEF Preference
  <2>5. preferences' = [preferences EXCEPT ![p] = row]
    BY <1>3, <2>2, <2>3 DEF SavePreference
  <2> QED BY <2>1, <2>2, <2>4, <2>5, PreferenceWritten
<1>4. ASSUME NEW c \in Calls,
             \/ \E u \in Users : CreateNotification(c, u)
             \/ \E j \in DOMAIN deliveryJobs : StartDelivery(c, j)
      PROVE  PreferencesInv' /\ PreferencesKeep
  <2>1. PICK at \in {"insertNotification", "insertDelivery"} : \E held : Begin(c, at, held)
    BY <1>4 DEF CreateNotification, StartDelivery
  <2>2. UNCHANGED preferences
    BY <1>4 DEF CreateNotification, StartDelivery, notificationTables
  <2>3. pc'[c] = at
    BY <1>0, <2>1, CallBegins
  <2> QED BY <2>1, <2>2, <2>3, PreferencesElsewhere
<1>5. ASSUME NEW c \in Calls, InsertNotification(c) \/ ScheduleDelivery(c) \/ InsertDelivery(c)
                              \/ SaveDelivery(c) \/ SaveFailed(c)
      PROVE  PreferencesInv' /\ PreferencesKeep
  <2>1. PICK at \in {"idle", "scheduleDelivery", "saveFailed", "saveDelivery"} : \E held : Go(c, at,
             held)
    BY <1>5 DEF InsertNotification, ScheduleDelivery, InsertDelivery, SaveDelivery, SaveFailed, End
  <2>2. UNCHANGED preferences /\ pc[c] # "idle"
    BY <1>5 DEF InsertNotification, ScheduleDelivery, InsertDelivery, SaveDelivery, SaveFailed
  <2>3. pc'[c] = at
    BY <1>0, <2>1, <2>2, CallGoes
  <2> QED BY <2>1, <2>2, <2>3, PreferencesElsewhere
<1>6. ASSUME NEW c \in Calls, SaveDeliveryFails(c) PROVE PreferencesInv' /\ PreferencesKeep
  <2>1. /\ UNCHANGED preferences /\ pc[c] # "idle" /\ Reject(c) /\ pc'[c] = "saveFailed"
        /\ pc' = [pc EXCEPT ![c] = "saveFailed"]
        /\ \E held : hand' = [hand EXCEPT ![c] = held]
    BY <1>0, <1>6 DEF SaveDeliveryFails, notificationTables, CallsOK
  <2> QED BY <2>1, PreferencesElsewhere
<1>7. ASSUME NEW c \in Calls, DeliveryFails(c) \/ NotificationsFail(c)
      PROVE  PreferencesInv' /\ PreferencesKeep
  <2>1. UNCHANGED preferences /\ Fail(c)
    BY <1>7 DEF DeliveryFails, NotificationsFail, notificationTables
  <2>2. pc'[c] = "idle"
    BY <1>0, <2>1, CallFails
  <2> QED BY <2>1, <2>2, PreferencesElsewhere
<1>8. ASSUME (\E n \in NotificationIds : ReadNotification(n)) \/ UNCHANGED notificationVars
      PROVE  PreferencesInv' /\ PreferencesKeep
  <2>1. UNCHANGED <<preferences, pc, hand, failures, apart>>
    BY <1>8 DEF ReadNotification, notificationVars, notificationTables, serviceVars
  <2> QED BY <2>1 DEF PreferencesInv, CallsOK, PreferenceOK, OnePreference, PreferencesFor, Used,
      PreferencesKeep
<1> QED BY <1>1, <1>2, <1>3, <1>4, <1>5, <1>6, <1>7, <1>8 DEF NotificationsNext

--------------------------------------------------------------------------------
(* Notifications: the jobs of a notification *)

Sending == {"insertDelivery", "saveDelivery", "saveFailed"}
Pairs == NotificationIds \X (PreferenceIds \cup {None})

NotificationTypes ==
  /\ notifications \in [NotificationIds -> Notification \cup {None}]
  /\ deliveryJobs \in [Pairs -> DeliveryJob \cup {None}]

\* What is to be queued for a user: the default, or preferences of his.
Todo(u, todo) ==
  \/ todo = {None}
  \/ todo \subseteq Used(preferences) /\ \A p \in todo : preferences[p].user = u

Queueing(n, todo) ==
  /\ notifications[n] # None
  /\ Todo(notifications[n].user, todo)
  /\ \A p \in todo : deliveryJobs[<<n, p>>] = None
  /\ deliveryJobs[<<n, None>>] = None
  /\ todo = {None} => \A p \in PreferenceIds : deliveryJobs[<<n, p>>] = None

ScheduleOK(c) ==
  /\ pc[c] = "insertNotification" => hand[c].user \in Users /\ Todo(hand[c].user, hand[c].todo)
  /\ pc[c] = "scheduleDelivery" =>
       /\ hand[c] \in [notification : NotificationIds, todo : SUBSET (PreferenceIds \cup {None})]
       /\ Queueing(hand[c].notification, hand[c].todo)

OneSchedules ==
  \A c, d \in Calls :
    pc[c] = "scheduleDelivery" /\ pc[d] = "scheduleDelivery"
        /\ hand[c].notification = hand[d].notification
      => c = d

\* The job of the default is its notification's only one, the others are those
\* of preferences of the recipient.
KeyOK(n, p) ==
  deliveryJobs[<<n, p>>] # None =>
    /\ notifications[n] # None
    /\ p = None => /\ deliveryJobs[<<n, p>>].channel = "in-app"
                   /\ \A q \in PreferenceIds : deliveryJobs[<<n, q>>] = None
    /\ p # None => /\ p \in Used(preferences)
                   /\ preferences[p].user = notifications[n].user
                   /\ preferences[p].channel = deliveryJobs[<<n, p>>].channel

ScheduleInv ==
  /\ \A c \in Calls : ScheduleOK(c)
  /\ OneSchedules
  /\ \A n \in NotificationIds, p \in PreferenceIds \cup {None} : KeyOK(n, p)

\* Without failures an email, or a job of a channel that is not known, has a
\* failed row for each of its attempts.
FailedRow == [status |-> "failed", attempts |-> 1]
FailedTimes(job, n) ==
  Throws(job.channel) => Len(job.rows) = n /\ \A i \in 1..n : job.rows[i] = FailedRow

SendOK(c) ==
  pc[c] \in Sending =>
    LET job == deliveryJobs[hand[c].job] IN
      /\ hand[c].job \in Pairs /\ job # None /\ job.status = "active"
      /\ pc[c] = "saveDelivery" =>
           /\ job.rows # <<>> /\ Outcome(job.channel) # "failed"
           /\ hand[c] = [job |-> hand[c].job,
                row |-> [status |-> Outcome(job.channel), attempts |-> 1]]
      /\ pc[c] = "saveFailed" =>
           job.rows # <<>> /\ hand[c].row \in [status : {"failed"}, attempts : 1..2]
      /\ failures = 0 /\ pc[c] = "insertDelivery" =>
           job.shown = 0 /\ job.attempt \in 1..Tries /\ FailedTimes(job, job.attempt - 1)
      /\ failures = 0 /\ pc[c] = "saveFailed" =>
           /\ job.shown = 0 /\ Throws(job.channel) /\ hand[c].row = FailedRow
           /\ job.attempt \in 1..Tries /\ Len(job.rows) = job.attempt
           /\ \A i \in 1..(job.attempt - 1) : job.rows[i] = FailedRow

OneSends ==
  \A c, d \in Calls : pc[c] \in Sending /\ pc[d] \in Sending /\ hand[c].job = hand[d].job => c = d

Progress(job) ==
  /\ job.status = "completed" =>
       /\ Outcome(job.channel) # "failed"
       /\ \E i \in DOMAIN job.rows : job.rows[i].status = Outcome(job.channel)
  /\ failures = 0 =>
       /\ job.shown <= 1
       /\ job.status = "waiting" => /\ job.shown = 0 /\ job.attempt < Tries
                                    /\ FailedTimes(job, job.attempt)
       /\ job.status = "failed" => Throws(job.channel) /\ FailedTimes(job, Tries)

SendInv ==
  /\ \A c \in Calls : SendOK(c)
  /\ OneSends
  /\ \A j \in Pairs : deliveryJobs[j] # None => Progress(deliveryJobs[j])

DeliveryInv == NotificationTypes /\ ScheduleInv /\ SendInv

LEMMA DeliveryInit == NotificationsInit => DeliveryInv
BY DEF NotificationsInit, ServiceInit, DeliveryInv, NotificationTypes, Pairs, ScheduleInv,
   ScheduleOK, OneSchedules, KeyOK, SendInv, SendOK, OneSends, Sending

NotificationsKeep ==
  \A n \in Used(notifications) : notifications'[n] # None
      /\ notifications'[n].user = notifications[n].user

JobsKeep ==
  \A j \in Pairs : /\ deliveryJobs'[j] = None <=> deliveryJobs[j] = None
                   /\ deliveryJobs[j] # None => deliveryJobs'[j].channel = deliveryJobs[j].channel

LEMMA TodoStays ==
  ASSUME PreferencesInv, PreferencesInv', PreferencesKeep, NEW u, NEW todo, Todo(u, todo)
  PROVE  Todo(u, todo)'
BY DEF PreferencesInv, PreferencesKeep, Todo, Used

LEMMA QueueingStays ==
  ASSUME PreferencesInv, PreferencesInv', PreferencesKeep, NotificationTypes, NotificationsKeep,
         JobsKeep,
         NEW n \in NotificationIds, NEW todo, Queueing(n, todo)
  PROVE  Queueing(n, todo)'
<1>1. /\ n \in Used(notifications)
      /\ notifications'[n] # None /\ notifications'[n].user = notifications[n].user
  BY DEF NotificationTypes, Queueing, Used, NotificationsKeep
<1>2. PICK u : u = notifications[n].user
  OBVIOUS
<1>3. Todo(u, todo)'
  BY <1>2, TodoStays DEF Queueing
<1>4. todo \subseteq PreferenceIds \cup {None}
  BY DEF Queueing, Todo, Used, PreferencesInv
<1>5. \A p \in PreferenceIds \cup {None} : deliveryJobs'[<<n, p>>] = None <=> deliveryJobs[<<n,
      p>>] = None
  BY DEF JobsKeep, Pairs
<1> QED BY <1>1, <1>2, <1>3, <1>4, <1>5 DEF Queueing

\* The jobs keep their channels.
LEMMA SchedulesStay ==
  ASSUME PreferencesInv, PreferencesInv', PreferencesKeep, NotificationTypes, NotificationTypes',
         NotificationsKeep, JobsKeep, ScheduleInv, NEW c \in Calls, Moved(c), ScheduleOK(c)',
         pc'[c] = "scheduleDelivery" => \A d \in Calls \ {c} :
            pc[d] = "scheduleDelivery" => hand[d].notification # hand'[c].notification
  PROVE  ScheduleInv'
<1>1. ASSUME NEW d \in Calls \ {c} PROVE pc'[d] = pc[d] /\ hand'[d] = hand[d]
  BY DEF Moved, OnlyOf
<1>2. ASSUME NEW d \in Calls PROVE ScheduleOK(d)'
  <2>1. CASE d = c
    BY <2>1
  <2>2. CASE d # c
    <3>1. pc'[d] = pc[d] /\ hand'[d] = hand[d] /\ ScheduleOK(d)
      BY <1>1, <2>2 DEF ScheduleInv
    <3>2. PICK n, u, todo : n = hand[d].notification /\ u = hand[d].user /\ todo = hand[d].todo
      OBVIOUS
    <3>3. Todo(u, todo) => Todo(u, todo)'
      BY TodoStays
    <3>4. n \in NotificationIds /\ Queueing(n, todo) => Queueing(n, todo)'
      BY QueueingStays
    <3> QED BY <3>1, <3>2, <3>3, <3>4 DEF ScheduleOK
  <2> QED BY <2>1, <2>2
<1>3. OneSchedules'
  <2> SUFFICES ASSUME NEW d \in Calls, NEW e \in Calls, d # e,
                      pc'[d] = "scheduleDelivery", pc'[e] = "scheduleDelivery",
                      hand'[d].notification = hand'[e].notification
               PROVE  FALSE
    BY DEF OneSchedules
  <2>1. CASE d = c
    BY <1>1, <2>1
  <2>2. CASE e = c
    BY <1>1, <2>2
  <2>3. CASE d # c /\ e # c
    BY <1>1, <2>3 DEF ScheduleInv, OneSchedules
  <2> QED BY <2>1, <2>2, <2>3
<1>4. ASSUME NEW n \in NotificationIds, NEW p \in PreferenceIds \cup {None} PROVE KeyOK(n, p)'
  <2>1. /\ KeyOK(n, p)
        /\ \A q \in PreferenceIds \cup {None} :
             /\ deliveryJobs'[<<n, q>>] = None <=> deliveryJobs[<<n, q>>] = None
             /\ deliveryJobs[<<n, q>>] # None
                  => deliveryJobs'[<<n, q>>].channel = deliveryJobs[<<n, q>>].channel
    BY DEF ScheduleInv, JobsKeep, Pairs
  <2>2. notifications[n] # None => /\ notifications'[n] # None
                                   /\ notifications'[n].user = notifications[n].user
    BY DEF NotificationsKeep, NotificationTypes, Used
  <2>3. p \in Used(preferences) => /\ p \in Used(preferences)'
                                   /\ preferences'[p].user = preferences[p].user
                                   /\ preferences'[p].channel = preferences[p].channel
    BY DEF PreferencesKeep, PreferencesInv, Used
  <2> QED BY <2>1, <2>2, <2>3 DEF KeyOK
<1> QED BY <1>2, <1>3, <1>4 DEF ScheduleInv

\* A job does not change while another call is about to save its delivery.
LEMMA SendsApart ==
  ASSUME SendInv, NEW c \in Calls, Moved(c), SendOK(c)', failures' = 0 => failures = 0,
         \A d \in Calls \ {c} : pc[d] \in Sending =>
           /\ deliveryJobs'[hand[d].job] = deliveryJobs[hand[d].job]
           /\ pc'[c] \in Sending => hand[d].job # hand'[c].job
  PROVE  (\A d \in Calls : SendOK(d)') /\ OneSends'
<1>1. ASSUME NEW d \in Calls \ {c} PROVE pc'[d] = pc[d] /\ hand'[d] = hand[d]
  BY DEF Moved, OnlyOf
<1>2. ASSUME NEW d \in Calls PROVE SendOK(d)'
  <2>1. CASE d = c
    BY <2>1
  <2>2. CASE d # c /\ pc[d] \in Sending
    <3>1. pc'[d] = pc[d] /\ hand'[d] = hand[d] /\ SendOK(d)
          /\ deliveryJobs'[hand'[d].job] = deliveryJobs[hand[d].job]
      BY <1>1, <2>2 DEF SendInv
    <3> QED BY <2>2, <3>1 DEF SendOK
  <2>3. CASE d # c /\ pc[d] \notin Sending
    BY <1>1, <2>3 DEF SendOK
  <2> QED BY <2>1, <2>2, <2>3
<1>3. OneSends'
  <2> SUFFICES ASSUME NEW d \in Calls, NEW e \in Calls, d # e,
                      pc'[d] \in Sending, pc'[e] \in Sending, hand'[d].job = hand'[e].job
               PROVE  FALSE
    BY DEF OneSends
  <2>1. CASE d = c
    BY <1>1, <2>1
  <2>2. CASE e = c
    BY <1>1, <2>2
  <2>3. CASE d # c /\ e # c
    BY <1>1, <2>3 DEF SendInv, OneSends
  <2> QED BY <2>1, <2>2, <2>3
<1> QED BY <1>2, <1>3

\* The jobs stay as they are.
LEMMA SendsStay ==
  ASSUME SendInv, NEW c \in Calls, Moved(c), UNCHANGED deliveryJobs,
         SendOK(c)', pc'[c] \in Sending => pc[c] \in Sending /\ hand'[c].job = hand[c].job,
         failures' = 0 => failures = 0
  PROVE  SendInv'
<1>1. (\A d \in Calls : SendOK(d)') /\ OneSends'
  <2>1. \A d \in Calls \ {c} : pc[d] \in Sending
        => (pc'[c] \in Sending => hand[d].job # hand'[c].job)
    BY DEF SendInv, OneSends
  <2> QED BY <2>1, SendsApart
<1>2. \A j \in Pairs : deliveryJobs'[j] # None => Progress(deliveryJobs[j])'
  BY DEF SendInv, Progress
<1> QED BY <1>1, <1>2 DEF SendInv

\* A step of a delivery writes its job.
LEMMA JobWritten ==
  ASSUME PreferencesInv, PreferencesInv', PreferencesKeep, DeliveryInv, NEW c \in Calls, Moved(c),
         UNCHANGED notifications, NEW j \in Pairs, deliveryJobs[j] # None,
         NEW job \in DeliveryJob, job.channel = deliveryJobs[j].channel,
         deliveryJobs' = [deliveryJobs EXCEPT ![j] = job],
         pc'[c] \notin {"insertNotification", "scheduleDelivery"},
         pc'[c] \in Sending => hand'[c].job = j,
         deliveryJobs[j].status = "waiting" \/ (pc[c] \in Sending /\ hand[c].job = j),
         SendOK(c)', Progress(job)', failures' = 0 => failures = 0
  PROVE  DeliveryInv'
<1>1. /\ NotificationTypes' /\ deliveryJobs'[j] = job
      /\ \A k \in Pairs \ {j} : deliveryJobs'[k] = deliveryJobs[k]
  BY DEF DeliveryInv, NotificationTypes
<1>2. JobsKeep /\ NotificationsKeep
  BY <1>1, NotificationsAssumption
       DEF DeliveryInv, NotificationTypes, JobsKeep, NotificationsKeep, Used
<1>3. ScheduleOK(c)'
  BY DEF ScheduleOK
<1>4. ScheduleInv'
  BY <1>1, <1>2, <1>3, SchedulesStay DEF DeliveryInv
<1>5. ASSUME NEW d \in Calls \ {c}, pc[d] \in Sending PROVE hand[d].job \in Pairs \ {j}
  BY <1>5 DEF DeliveryInv, SendInv, SendOK, OneSends
<1>6. (\A d \in Calls : SendOK(d)') /\ OneSends'
  BY <1>1, <1>5, SendsApart DEF DeliveryInv
<1>7. ASSUME NEW k \in Pairs, deliveryJobs'[k] # None PROVE Progress(deliveryJobs[k])'
  <2>1. CASE k = j
    BY <1>1, <2>1 DEF Progress
  <2>2. CASE k # j
    <3>1. deliveryJobs'[k] = deliveryJobs[k] /\ Progress(deliveryJobs[k])
      BY <1>1, <1>7, <2>2 DEF DeliveryInv, SendInv
    <3> QED BY <3>1 DEF Progress
  <2> QED BY <2>1, <2>2
<1> QED BY <1>1, <1>4, <1>6, <1>7 DEF DeliveryInv, SendInv

\* What the steps of a delivery make of its job
LEMMA JobStarts ==
  ASSUME NEW job \in DeliveryJob, NEW next, next = Started(job)
  PROVE  /\ next \in DeliveryJob /\ next.status = "active" /\ next.channel = job.channel
         /\ next.attempt = job.attempt + 1 /\ next.shown = job.shown /\ next.rows = job.rows
<1> USE DEF Started
<1>1. PICK k : k = [job EXCEPT !.status = "active"]
  OBVIOUS
<1>2. k \in DeliveryJob /\ k.attempt = job.attempt
  BY <1>1 DEF DeliveryJob
<1>3. k.attempt + 1 \in Nat
  BY <1>2 DEF DeliveryJob
<1>4. [k EXCEPT !.attempt = k.attempt + 1] \in DeliveryJob
  BY <1>2, <1>3 DEF DeliveryJob
<1>5. next \in DeliveryJob
  BY <1>1, <1>2, <1>4
<1> QED BY <1>5 DEF DeliveryJob

LEMMA JobSends ==
  ASSUME NEW job \in DeliveryJob, NEW next, next = Sent(job)
  PROVE  /\ next \in DeliveryJob /\ next.status = job.status /\ next.channel = job.channel
         /\ next.attempt = job.attempt /\ next.shown = job.shown + Shown(job.channel)
         /\ next.rows = Append(job.rows, [status |-> "pending", attempts |-> 0])
<1>7. PICK n \in {0, 1}, row \in Delivery :
        n = Shown(job.channel) /\ row = [status |-> "pending", attempts |-> 0]
  <2>1. Shown(job.channel) \in {0, 1}
    BY DEF Shown
  <2>2. [status |-> "pending", attempts |-> 0] \in Delivery
    BY DEF Delivery
  <2> QED BY <2>1, <2>2
<1>8. next = [job EXCEPT !.rows = Append(@, row), !.shown = @ + n]
  BY <1>7 DEF Sent
<1>0. Append(job.rows, row) \in Seq(Delivery)
  BY DEF DeliveryJob
<1>1. PICK rows \in Seq(Delivery) : rows = Append(job.rows, row)
  BY <1>0
<1>2. PICK k : k = [job EXCEPT !.rows = rows]
  OBVIOUS
<1>3. k \in DeliveryJob /\ k.shown = job.shown
  BY <1>2 DEF DeliveryJob
<1>4. k.shown + n \in Nat
  BY <1>3 DEF DeliveryJob
<1>5. [k EXCEPT !.shown = k.shown + n] \in DeliveryJob
  BY <1>3, <1>4 DEF DeliveryJob
<1>6. next = [k EXCEPT !.shown = k.shown + n]
  BY <1>1, <1>2, <1>3, <1>8
<1> QED BY <1>1, <1>2, <1>3, <1>5, <1>6, <1>7 DEF DeliveryJob

LEMMA JobSaves ==
  ASSUME NEW job \in DeliveryJob, job.rows # <<>>, NEW row \in Delivery
  PROVE  \E saved \in DeliveryJob :
           /\ saved = Saved(job, row)
           /\ saved.rows = [job.rows EXCEPT ![Len(job.rows)] = row]
           /\ saved.channel = job.channel /\ saved.shown = job.shown /\ saved.attempt = job.attempt
<1>1. PICK rows : rows = [job.rows EXCEPT ![Len(job.rows)] = row]
  OBVIOUS
<1>2. rows \in Seq(Delivery)
  BY <1>1 DEF DeliveryJob
<1>3. PICK saved : saved = [job EXCEPT !.rows = rows]
  OBVIOUS
<1>4. saved = Saved(job, row)
  BY <1>1, <1>3 DEF Saved
<1> QED BY <1>1, <1>2, <1>3, <1>4 DEF DeliveryJob

LEMMA JobRetries ==
  ASSUME NEW job \in DeliveryJob, NEW next, next = Retried(job)
  PROVE  /\ next \in DeliveryJob /\ next.status = (IF job.attempt < Tries THEN "waiting" ELSE "failed")
         /\ next.channel = job.channel /\ next.shown = job.shown /\ next.rows = job.rows
         /\ next.attempt = job.attempt
BY DEF Retried, DeliveryJob

LEMMA DeliveryKept ==
  ASSUME PreferencesInv, DeliveryInv, [NotificationsNext]_notificationVars
  PROVE  DeliveryInv'
<1>0. PreferencesInv' /\ PreferencesKeep /\ CallsOK
  BY PreferencesKept DEF PreferencesInv
<1> USE <1>0
<1>1. /\ notifications \in [NotificationIds -> Notification \cup {None}] /\ None \notin Notification
      /\ deliveryJobs \in [Pairs -> DeliveryJob \cup {None}] /\ None \notin DeliveryJob
      /\ ScheduleInv /\ SendInv /\ NotificationTypes
  BY NotificationsAssumption DEF DeliveryInv, NotificationTypes
\* Steps that leave the jobs alone
<1>2. ASSUME NEW c \in Calls, Moved(c), UNCHANGED deliveryJobs, NotificationTypes',
             NotificationsKeep,
             ScheduleOK(c)', pc'[c] \notin Sending, failures' = 0 => failures = 0,
             pc'[c] = "scheduleDelivery" => \A d \in Calls \ {c} :
               pc[d] = "scheduleDelivery" => hand[d].notification # hand'[c].notification
      PROVE  DeliveryInv'
  <2>1. JobsKeep
    BY <1>2 DEF JobsKeep
  <2>2. ScheduleInv'
    BY <1>1, <1>2, <2>1, SchedulesStay
  <2>3. SendOK(c)'
    BY <1>2 DEF SendOK
  <2>4. SendInv'
    BY <1>1, <1>2, <2>3, SendsStay
  <2> QED BY <1>2, <2>2, <2>4 DEF DeliveryInv
<1>3. ASSUME NEW c \in Calls,
             \/ \E u \in Users, ch \in Channels,
                  enabled \in BOOLEAN : UpdatePreference(c, u, ch, enabled)
             \/ InsertPreference(c) \/ SavePreference(c) \/ NotificationsFail(c)
      PROVE  DeliveryInv'
  <2>1. UNCHANGED <<notifications, deliveryJobs>>
    BY <1>3 DEF UpdatePreference, InsertPreference, SavePreference, NotificationsFail,
         notificationTables
  <2>2. NotificationTypes' /\ NotificationsKeep
    BY <1>1, <2>1 DEF NotificationTypes, NotificationsKeep, Used
  <2>3. /\ Moved(c) /\ pc'[c] \in {"idle", "insertPreference", "savePreference"}
        /\ failures' = 0 => failures = 0
    <3>1. CASE \E u \in Users, ch \in Channels,
               enabled \in BOOLEAN : UpdatePreference(c, u, ch, enabled)
      <4>1. PICK at \in {"insertPreference", "savePreference"} : \E held : Begin(c, at, held)
        BY <3>1 DEF UpdatePreference
      <4> QED BY <4>1, CallBegins
    <3>2. CASE InsertPreference(c) \/ SavePreference(c)
      BY <3>2, CallGoes DEF InsertPreference, SavePreference, End
    <3>3. CASE NotificationsFail(c)
      BY <3>3, CallFails DEF NotificationsFail
    <3> QED BY <1>3, <3>1, <3>2, <3>3
  <2>4. ScheduleOK(c)'
    BY <2>3 DEF ScheduleOK
  <2> QED BY <1>2, <2>1, <2>2, <2>3, <2>4 DEF Sending
<1>4. ASSUME NEW c \in Calls, NEW u \in Users, CreateNotification(c, u) PROVE DeliveryInv'
  <2>1. PICK todo : /\ todo = IF GetUserPreferences(u) = {} THEN {None} ELSE GetUserPreferences(u)
                    /\ Begin(c, "insertNotification", [user |-> u, todo |-> todo])
    BY <1>4 DEF CreateNotification
  <2>2. /\ Moved(c) /\ pc'[c] = "insertNotification" /\ hand'[c] = [user |-> u, todo |-> todo]
        /\ failures' = failures /\ UNCHANGED <<preferences, notifications, deliveryJobs>>
    BY <1>4, <2>1, CallBegins DEF CreateNotification, notificationTables
  <2>3. NotificationTypes' /\ NotificationsKeep
    BY <1>1, <2>2 DEF NotificationTypes, NotificationsKeep, Used
  <2>4. Todo(u, todo)'
    BY <2>1, <2>2 DEF GetUserPreferences, Todo, Used
  <2>5. ScheduleOK(c)'
    BY <2>2, <2>4 DEF ScheduleOK
  <2> QED BY <1>2, <2>2, <2>3, <2>5 DEF Sending
<1>5. ASSUME NEW c \in Calls, InsertNotification(c) PROVE DeliveryInv'
  <2>1. pc[c] = "insertNotification" /\ ScheduleOK(c)
    BY <1>1, <1>5 DEF InsertNotification, ScheduleInv
  <2>2. PICK u \in Users, n \in NotificationIds, todo \in {hand[c].todo} :
          /\ u = hand[c].user /\ Todo(u, todo) /\ notifications[n] = None
          /\ notifications' = [notifications EXCEPT ![n] = [user |-> u, status |-> "unread"]]
          /\ Go(c, "scheduleDelivery", [notification |-> n, todo |-> todo])
    BY <1>1, <1>5, <2>1 DEF InsertNotification, ScheduleOK, Unused
  <2>3. /\ Moved(c) /\ pc'[c] = "scheduleDelivery" /\ hand'[c] = [notification |-> n, todo |-> todo]
        /\ failures' = failures /\ UNCHANGED <<preferences, deliveryJobs>>
    BY <1>5, <2>1, <2>2, CallGoes DEF InsertNotification
  <2>4. [user |-> u, status |-> "unread"] \in Notification
    BY DEF Notification
  <2>5. /\ NotificationTypes' /\ NotificationsKeep
        /\ notifications'[n] # None /\ notifications'[n].user = u
    BY <1>1, <2>2, <2>3, <2>4 DEF NotificationTypes, NotificationsKeep, Used
  <2>6. Todo(u, todo)'
    BY <2>2, <2>3 DEF Todo, Used
  <2>7. \A p \in PreferenceIds \cup {None} : deliveryJobs'[<<n, p>>] = None
    BY <1>1, <2>2, <2>3 DEF ScheduleInv, KeyOK
  <2>8. todo \subseteq PreferenceIds \cup {None}
    BY <2>2 DEF Todo, Used, PreferencesInv
  <2>9. Queueing(n, todo)'
    BY <2>5, <2>6, <2>7, <2>8 DEF Queueing
  <2>10. ScheduleOK(c)'
    BY <2>3, <2>8, <2>9 DEF ScheduleOK
  <2>11. ASSUME NEW d \in Calls \ {c}, pc[d] = "scheduleDelivery" PROVE hand[d].notification # n
    BY <1>1, <2>2, <2>11 DEF ScheduleInv, ScheduleOK, Queueing
  <2> QED BY <1>2, <2>3, <2>5, <2>10, <2>11 DEF Sending
<1>6. ASSUME NEW c \in Calls, ScheduleDelivery(c) PROVE DeliveryInv'
  <2>1. pc[c] = "scheduleDelivery" /\ ScheduleOK(c)
    BY <1>1, <1>6 DEF ScheduleDelivery, ScheduleInv
  <2>2. PICK n \in NotificationIds, todo \in {hand[c].todo} : n = hand[c].notification
             /\ Queueing(n, todo)
    BY <2>1 DEF ScheduleOK
  <2>3. todo \subseteq PreferenceIds \cup {None}
    BY <2>2 DEF Queueing, Todo, Used, PreferencesInv
  <2>4. PICK p \in todo :
          /\ deliveryJobs' = [deliveryJobs EXCEPT ![<<n, p>>] =
               [channel |-> IF p = None THEN "in-app" ELSE preferences[p].channel,
                status |-> "waiting", attempt |-> 0, rows |-> <<>>, shown |-> 0]]
          /\ IF todo = {p} THEN End(c) ELSE Go(c, "scheduleDelivery",
               [hand[c] EXCEPT !.todo = @ \ {p}])
    BY <1>6, <2>2 DEF ScheduleDelivery
  <2>5. PICK ch : ch = IF p = None THEN "in-app" ELSE preferences[p].channel
    OBVIOUS
  <2>6. /\ p # None => p \in Used(preferences) /\ preferences[p].user = notifications[n].user
        /\ ch \in Channels
    BY <2>2, <2>5 DEF Queueing, Todo, PreferencesInv, Used, Preference, Channels
  <2>7. PICK job : job = [channel |-> ch, status |-> "waiting", attempt |-> 0, rows |-> <<>>,
             shown |-> 0]
    OBVIOUS
  <2>8. job \in DeliveryJob
    <3>1. <<>> \in Seq(Delivery)
      OBVIOUS
    <3> QED BY <2>6, <2>7, <3>1 DEF DeliveryJob
  <2>9. <<n, p>> \in Pairs /\ deliveryJobs[<<n, p>>] = None /\ notifications[n] # None
    BY <2>2, <2>3 DEF Pairs, Queueing
  <2>10. /\ deliveryJobs'[<<n, p>>] = job
         /\ \A k \in Pairs \ {<<n, p>>} : deliveryJobs'[k] = deliveryJobs[k]
         /\ UNCHANGED <<preferences, notifications>>
         /\ NotificationTypes'
    BY <1>1, <1>6, <2>4, <2>5, <2>7, <2>8, <2>9 DEF ScheduleDelivery, NotificationTypes
  <2>11. /\ Moved(c) /\ failures' = failures
         /\ \/ pc'[c] = "idle"
            \/ pc'[c] = "scheduleDelivery" /\ todo # {p}
                 /\ hand'[c] = [hand[c] EXCEPT !.todo = @ \ {p}]
    BY <2>1, <2>4, CallGoes DEF End
  <2>12. ScheduleInv'
    <3>1. ASSUME NEW d \in Calls \ {c} PROVE pc'[d] = pc[d] /\ hand'[d] = hand[d]
      BY <2>11 DEF Moved, OnlyOf
    <3>2. ASSUME NEW d \in Calls \ {c} PROVE ScheduleOK(d)'
      <4>1. pc'[d] = pc[d] /\ hand'[d] = hand[d] /\ ScheduleOK(d)
        BY <1>1, <3>1 DEF ScheduleInv
      <4>2. pc[d] = "scheduleDelivery" => hand[d].notification # n
        BY <1>1, <2>1, <2>2 DEF ScheduleInv, OneSchedules
      <4>3. ASSUME NEW m \in NotificationIds \ {n}, NEW q \in PreferenceIds \cup {None}
            PROVE  deliveryJobs'[<<m, q>>] = deliveryJobs[<<m, q>>]
        <5>1. <<m, q>> \in Pairs \ {<<n, p>>}
          BY DEF Pairs
        <5> QED BY <2>10, <5>1
      <4>4. PICK m, left : m = hand[d].notification /\ left = hand[d].todo
        OBVIOUS
      <4>5. ASSUME m \in NotificationIds \ {n}, Queueing(m, left) PROVE Queueing(m, left)'
        <5>1. left \subseteq PreferenceIds \cup {None}
          BY <4>5 DEF Queueing, Todo, Used, PreferencesInv
        <5> QED BY <2>10, <4>3, <4>5, <5>1 DEF Queueing, Todo, Used
      <4>6. pc[d] = "scheduleDelivery" => m \in NotificationIds \ {n} /\ Queueing(m, left)
        BY <4>1, <4>2, <4>4 DEF ScheduleOK
      <4>7. ASSUME pc[d] = "insertNotification"
            PROVE  hand'[d].user \in Users /\ Todo(hand[d].user, hand[d].todo)'
        BY <2>10, <4>1, <4>7 DEF ScheduleOK, Todo, Used
      <4> QED BY <4>1, <4>4, <4>5, <4>6, <4>7 DEF ScheduleOK
    <3>3. ScheduleOK(c)'
      <4>1. CASE pc'[c] = "idle"
        BY <4>1 DEF ScheduleOK
      <4>2. CASE pc'[c] = "scheduleDelivery" /\ todo # {p}
                 /\ hand'[c] = [hand[c] EXCEPT !.todo = @ \ {p}]
        <5>1. /\ hand[c] \in [notification : NotificationIds,
                   todo : SUBSET (PreferenceIds \cup {None})]
              /\ todo = hand[c].todo /\ n = hand[c].notification
          BY <2>1, <2>2 DEF ScheduleOK
        <5>2. PICK left : left = todo \ {p}
          OBVIOUS
        <5>3. hand'[c] = [notification |-> n, todo |-> left]
          BY <4>2, <5>1, <5>2
        <5>4. todo # {None} /\ todo \subseteq Used(preferences)
              /\ \A q \in todo : preferences[q].user = notifications[n].user
          BY <2>2, <4>2 DEF Queueing, Todo
        <5>5. p \in PreferenceIds /\ p # None /\ left \subseteq PreferenceIds /\ left # {None}
          BY <5>2, <5>4, NotificationsAssumption DEF Used, PreferencesInv
        <5>6. ASSUME NEW q \in (PreferenceIds \cup {None}) \ {p} PROVE deliveryJobs'[<<n,
                     q>>] = deliveryJobs[<<n, q>>]
          <6>1. <<n, q>> \in Pairs \ {<<n, p>>}
            BY DEF Pairs
          <6> QED BY <2>10, <6>1
        <5>7. Todo(notifications[n].user, left)'
          BY <2>10, <5>2, <5>4 DEF Todo, Used
        <5>8. Queueing(n, left)'
          BY <2>2, <2>9, <2>10, <5>2, <5>5, <5>6, <5>7 DEF Queueing
        <5> QED BY <4>2, <5>3, <5>5, <5>8 DEF ScheduleOK
      <4> QED BY <2>11, <4>1, <4>2
    <3>4. OneSchedules'
      <4>1. pc'[c] = "scheduleDelivery" => hand'[c].notification = n
        BY <2>1, <2>2, <2>11 DEF ScheduleOK
      <4> QED BY <1>1, <2>1, <2>2, <3>1, <4>1 DEF ScheduleInv, OneSchedules
    <3>5. ASSUME NEW m \in NotificationIds, NEW q \in PreferenceIds \cup {None} PROVE KeyOK(m, q)'
      <4>1. KeyOK(m, q)
        BY <1>1 DEF ScheduleInv
      <4>2. CASE m # n
        <5>1. \A r \in PreferenceIds \cup {None} : <<m, r>> \in Pairs \ {<<n, p>>}
          BY <4>2 DEF Pairs
        <5>2. \A r \in PreferenceIds \cup {None} : deliveryJobs'[<<m, r>>] = deliveryJobs[<<m, r>>]
          BY <2>10, <5>1
        <5> QED BY <2>10, <4>1, <5>2 DEF KeyOK, Used
      <4>3. CASE m = n /\ q = p
        <5>1. ASSUME p = None, NEW r \in PreferenceIds PROVE deliveryJobs'[<<n, r>>] = None
          <6>1. todo = {None}
            BY <2>2, <2>4, <5>1, NotificationsAssumption DEF Queueing, Todo, Used, PreferencesInv
          <6>2. <<n, r>> \in Pairs \ {<<n, p>>}
            BY <5>1, NotificationsAssumption DEF Pairs
          <6> QED BY <2>2, <2>10, <6>1, <6>2 DEF Queueing
        <5>2. deliveryJobs'[<<n, p>>].channel = ch
          BY <2>7, <2>10
        <5>3. ASSUME p # None PROVE p \in Used(preferences)'
                     /\ preferences'[p].user = notifications'[n].user
          BY <2>6, <2>10, <5>3 DEF Used
        <5> QED BY <2>5, <2>9, <2>10, <4>3, <5>1, <5>2, <5>3 DEF KeyOK
      <4>4. CASE m = n /\ q # p
        <5>1. <<m, q>> \in Pairs \ {<<n, p>>}
          BY <4>4 DEF Pairs
        <5>2. deliveryJobs'[<<m, q>>] = deliveryJobs[<<m, q>>]
          BY <2>10, <5>1
        <5>3. q = None => deliveryJobs[<<m, q>>] = None
          BY <2>2, <4>4 DEF Queueing
        <5> QED BY <2>10, <4>1, <5>2, <5>3 DEF KeyOK, Used
      <4> QED BY <4>2, <4>3, <4>4
    <3> QED BY <3>2, <3>3, <3>4, <3>5 DEF ScheduleInv
  <2>13. SendInv'
    <3>1. ASSUME NEW d \in Calls \ {c}, pc[d] \in Sending PROVE hand[d].job \in Pairs \ {<<n, p>>}
      BY <1>1, <2>9, <3>1 DEF SendInv, SendOK
    <3>2. SendOK(c)' /\ pc'[c] \notin Sending
      BY <2>11 DEF SendOK, Sending
    <3>3. (\A d \in Calls : SendOK(d)') /\ OneSends'
      BY <1>1, <2>10, <2>11, <3>1, <3>2, SendsApart
    <3>4. ASSUME NEW j \in Pairs, deliveryJobs'[j] # None PROVE Progress(deliveryJobs[j])'
      <4>1. CASE j = <<n, p>>
        <5>1. deliveryJobs'[j] = job
          BY <2>10, <4>1
        <5>2. job.status = "waiting" /\ job.shown = 0 /\ job.attempt = 0 /\ job.rows = <<>>
          BY <2>7
        <5>3. FailedTimes(job, job.attempt)
          BY <5>2 DEF FailedTimes
        <5> QED BY <5>1, <5>2, <5>3 DEF Progress, Tries
      <4>2. CASE j # <<n, p>>
        <5>1. deliveryJobs'[j] = deliveryJobs[j] /\ Progress(deliveryJobs[j])
          BY <1>1, <2>10, <3>4, <4>2 DEF SendInv
        <5> QED BY <2>11, <5>1 DEF Progress
      <4> QED BY <4>1, <4>2
    <3> QED BY <3>3, <3>4 DEF SendInv
  <2> QED BY <2>10, <2>12, <2>13 DEF DeliveryInv
<1>7. ASSUME NEW c \in Calls, NEW j \in DOMAIN deliveryJobs, StartDelivery(c, j) PROVE DeliveryInv'
  <2>1. /\ j \in Pairs /\ deliveryJobs[j] # None /\ deliveryJobs[j] \in DeliveryJob
        /\ deliveryJobs[j].status = "waiting" /\ Progress(deliveryJobs[j])
    BY <1>1, <1>7 DEF StartDelivery, SendInv
  <2>2. /\ Moved(c) /\ pc'[c] = "insertDelivery" /\ hand'[c] = [job |-> j] /\ failures' = failures
        /\ UNCHANGED notifications
    BY <1>7, CallBegins DEF StartDelivery
  <2>3. PICK job : job = Started(deliveryJobs[j])
    OBVIOUS
  <2>4. /\ job \in DeliveryJob /\ job.status = "active" /\ job.channel = deliveryJobs[j].channel
        /\ job.attempt = deliveryJobs[j].attempt + 1 /\ job.shown = deliveryJobs[j].shown
        /\ job.rows = deliveryJobs[j].rows
    BY <2>1, <2>3, JobStarts
  <2>5. deliveryJobs' = [deliveryJobs EXCEPT ![j] = job]
    BY <1>7, <2>3 DEF StartDelivery
  <2>6. deliveryJobs'[j] = job /\ job # None
    BY <1>1, <2>1, <2>4, <2>5
  <2>7. ASSUME failures = 0
        PROVE  job.shown = 0 /\ job.attempt \in 1..Tries /\ FailedTimes(job, job.attempt - 1)
    <3>1. /\ deliveryJobs[j].shown = 0 /\ deliveryJobs[j].attempt < Tries
               /\ deliveryJobs[j].attempt \in Nat
          /\ FailedTimes(deliveryJobs[j], deliveryJobs[j].attempt)
      BY <2>1, <2>7 DEF Progress, DeliveryJob
    <3>2. job.attempt - 1 = deliveryJobs[j].attempt /\ job.attempt \in 1..Tries
      BY <2>4, <3>1 DEF Tries
    <3> QED BY <2>4, <3>1, <3>2 DEF FailedTimes
  <2>8. SendOK(c)'
    <3>1. /\ pc'[c] = "insertDelivery" /\ hand'[c].job = j /\ deliveryJobs'[hand'[c].job] = job
          /\ job # None /\ job.status = "active" /\ j \in Pairs
      BY <2>1, <2>2, <2>4, <2>6
    <3>2. failures' = 0 => job.shown = 0 /\ job.attempt \in 1..Tries
          /\ FailedTimes(job, job.attempt - 1)
      BY <2>2, <2>7
    <3> QED BY <3>1, <3>2 DEF SendOK, FailedTimes
  <2>9. Progress(job)'
    BY <2>2, <2>4, <2>7 DEF Progress
  <2>10. hand'[c].job = j /\ pc'[c] \notin {"insertNotification", "scheduleDelivery"}
    BY <2>2
  <2> QED BY <2>1, <2>2, <2>4, <2>5, <2>8, <2>9, <2>10, JobWritten
\* The steps of a delivery
<1>8. ASSUME NEW c \in Calls, InsertDelivery(c) \/ SaveDelivery(c) \/ SaveFailed(c)
             \/ DeliveryFails(c)
      PROVE  DeliveryInv'
  <2>1. PICK j \in Pairs : /\ j = hand[c].job /\ pc[c] \in Sending /\ SendOK(c)
                           /\ deliveryJobs[j] # None /\ deliveryJobs[j] \in DeliveryJob
                           /\ deliveryJobs[j].status = "active" /\ Progress(deliveryJobs[j])
    <3>1. pc[c] \in Sending /\ SendOK(c)
      BY <1>1, <1>8 DEF InsertDelivery, SaveDelivery, SaveFailed, DeliveryFails, Sending, SendInv
    <3>2. hand[c].job \in Pairs /\ deliveryJobs[hand[c].job] # None
          /\ deliveryJobs[hand[c].job].status = "active"
      BY <3>1 DEF SendOK
    <3> QED BY <1>1, <3>1, <3>2 DEF SendInv
  <2>2. PICK job \in DeliveryJob : job = deliveryJobs[j]
    BY <2>1
  <2>3. UNCHANGED notifications
    BY <1>8 DEF InsertDelivery, SaveDelivery, SaveFailed, DeliveryFails
  \* The job is written, and the call ends.
  <2>4. ASSUME NEW next \in DeliveryJob, next.channel = job.channel,
               deliveryJobs' = [deliveryJobs EXCEPT ![j] = next],
               Moved(c), pc'[c] = "idle", Progress(next)', failures' = 0 => failures = 0
        PROVE  DeliveryInv'
    <3>1. SendOK(c)'
      BY <2>4 DEF SendOK, Sending
    <3> QED BY <2>1, <2>2, <2>3, <2>4, <3>1, JobWritten DEF Sending
  <2>5. CASE InsertDelivery(c)
    <3>1. PICK next : next = Sent(job)
      OBVIOUS
    <3>2. PICK n \in {0, 1} : n = Shown(job.channel)
      BY DEF Shown
    <3>3. /\ next \in DeliveryJob /\ next.status = job.status /\ next.channel = job.channel
          /\ next.attempt = job.attempt /\ next.shown = job.shown + Shown(job.channel)
          /\ next.rows = Append(job.rows, [status |-> "pending", attempts |-> 0])
      BY <3>1, JobSends
    <3>4. /\ deliveryJobs' = [deliveryJobs EXCEPT ![j] = next]
          /\ Moved(c) /\ failures' = failures
          /\ pc'[c] = IF Outcome(job.channel) = "failed" THEN "saveFailed" ELSE "saveDelivery"
          /\ hand'[c] = [job |-> j, row |-> [status |-> Outcome(job.channel), attempts |-> 1]]
      <4>1. deliveryJobs' = [deliveryJobs EXCEPT ![j] = Sent(job)]
        BY <2>1, <2>2, <2>5 DEF InsertDelivery
      <4>2. Go(c, IF Outcome(job.channel) = "failed" THEN "saveFailed" ELSE "saveDelivery",
               [job |-> j, row |-> [status |-> Outcome(job.channel), attempts |-> 1]])
        BY <2>1, <2>2, <2>5 DEF InsertDelivery
      <4>3. pc[c] # "idle"
        BY <2>5 DEF InsertDelivery
      <4> QED BY <2>2, <3>1, <4>1, <4>2, <4>3, CallGoes
    <3>5. deliveryJobs'[j] = next /\ next # None
      BY <1>1, <3>3, <3>4
    <3>6. next.rows # <<>> /\ Len(next.rows) = Len(job.rows) + 1 /\ Len(job.rows) \in Nat
          /\ \A i \in 1..Len(job.rows) : next.rows[i] = job.rows[i]
      BY <3>3 DEF DeliveryJob
    <3>7. ASSUME failures = 0
          PROVE  job.shown = 0 /\ job.attempt \in 1..Tries /\ FailedTimes(job, job.attempt - 1)
      BY <2>1, <2>2, <2>5, <3>7 DEF InsertDelivery, SendOK
    <3>8. Progress(next)'
      <4>1. next.status = "active" /\ (failures = 0 => next.shown <= 1)
        BY <2>1, <2>2, <3>2, <3>3, <3>7
      <4> QED BY <3>4, <4>1 DEF Progress
    <3>10. hand'[c].job = j /\ pc'[c] \notin {"insertNotification", "scheduleDelivery"}
      BY <3>4
    <3>11. /\ deliveryJobs'[hand'[c].job] = next /\ hand'[c].job \in Pairs /\ next # None
           /\ next.status = "active" /\ next.rows # <<>> /\ next.channel = job.channel
      BY <2>1, <2>2, <3>3, <3>5, <3>6, <3>10
    <3>9. SendOK(c)'
      <4>1. CASE Throws(job.channel)
        <5>1. pc'[c] = "saveFailed" /\ hand'[c].row = FailedRow /\ Shown(job.channel) = 0
          BY <3>4, <4>1 DEF Throws, Outcome, FailedRow, Shown
        <5>2. ASSUME failures = 0
              PROVE  /\ next.shown = 0 /\ next.attempt \in 1..Tries /\ Len(next.rows) = next.attempt
                     /\ \A i \in 1..(next.attempt - 1) : next.rows[i] = FailedRow
          <6>1. Len(job.rows) = job.attempt - 1
                /\ \A i \in 1..(job.attempt - 1) : job.rows[i] = FailedRow
            BY <3>7, <4>1, <5>2 DEF FailedTimes
          <6>2. next.shown = 0
            BY <3>3, <3>7, <5>1, <5>2
          <6>3. job.attempt \in 1..3 /\ next.attempt = job.attempt /\ Len(next.rows) = job.attempt
            BY <3>3, <3>6, <3>7, <5>2, <6>1 DEF Tries
          <6>4. ASSUME NEW i \in 1..(next.attempt - 1) PROVE next.rows[i] = FailedRow
            <7>1. i \in 1..(job.attempt - 1) /\ i \in 1..Len(job.rows)
              BY <6>1, <6>3
            <7> QED BY <3>6, <6>1, <7>1
          <6> QED BY <6>2, <6>3, <6>4 DEF Tries
        <5>3. FailedRow \in [status : {"failed"}, attempts : 1..2]
          BY DEF FailedRow
        <5>4. failures' = failures
          BY <3>4
        <5> QED BY <3>11, <4>1, <5>1, <5>2, <5>3, <5>4 DEF SendOK, Throws
      <4>2. CASE ~Throws(job.channel)
        <5>1. Outcome(job.channel) # "failed"
          BY <4>2 DEF Outcome, Throws
        <5>2. pc'[c] = "saveDelivery"
          BY <3>4, <5>1
        <5>3. Outcome(next.channel) # "failed"
          BY <3>11, <5>1
        <5>4. hand'[c] = [job |-> hand'[c].job,
              row |-> [status |-> Outcome(next.channel), attempts |-> 1]]
          BY <3>3, <3>4
        <5> QED BY <3>11, <5>2, <5>3, <5>4 DEF SendOK
      <4> QED BY <4>1, <4>2
    <3> QED BY <2>1, <2>2, <2>3, <3>3, <3>4, <3>8, <3>9, <3>10, JobWritten
  <2>6. CASE SaveDelivery(c)
    <3>1. PICK row : row = hand[c].row
      OBVIOUS
    <3>2. /\ job.rows # <<>> /\ Outcome(job.channel) # "failed"
          /\ row = [status |-> Outcome(job.channel), attempts |-> 1]
      BY <2>1, <2>2, <2>6, <3>1 DEF SaveDelivery, SendOK
    <3>3. row \in Delivery /\ row.status = Outcome(job.channel)
      BY <3>2 DEF Outcome, Delivery
    <3>4. PICK saved \in DeliveryJob :
            /\ saved = Saved(job, row)
            /\ saved.rows = [job.rows EXCEPT ![Len(job.rows)] = row]
            /\ saved.channel = job.channel /\ saved.shown = job.shown
      BY <3>2, <3>3, JobSaves
    <3>5. PICK next : next = [saved EXCEPT !.status = "completed"]
      OBVIOUS
    <3>6. /\ next \in DeliveryJob /\ next.status = "completed" /\ next.channel = job.channel
          /\ next.shown = job.shown /\ next.rows = saved.rows
      BY <3>4, <3>5 DEF DeliveryJob
    <3>7. /\ deliveryJobs' = [deliveryJobs EXCEPT ![j] = next]
          /\ Moved(c) /\ failures' = failures /\ pc'[c] = "idle"
      BY <2>1, <2>2, <2>6, <3>1, <3>4, <3>5, CallGoes DEF SaveDelivery, End
    <3>8. Len(job.rows) \in DOMAIN next.rows /\ next.rows[Len(job.rows)] = row
      <4>1. job.rows \in Seq(Delivery)
        BY DEF DeliveryJob
      <4>2. Len(job.rows) \in DOMAIN job.rows
        BY <3>2, <4>1
      <4> QED BY <3>4, <3>6, <4>2
    <3>9. Progress(next)'
      <4>1. failures' = 0 => next.shown <= 1
        BY <2>1, <2>2, <3>6, <3>7 DEF Progress
      <4> QED BY <3>2, <3>3, <3>6, <3>8, <4>1 DEF Progress
    <3> QED BY <2>4, <3>6, <3>7, <3>9
  <2>7. CASE SaveFailed(c)
    <3>1. PICK row \in [status : {"failed"}, attempts : 1..2] : row = hand[c].row /\ job.rows # <<>>
      BY <2>1, <2>2, <2>7 DEF SaveFailed, SendOK
    <3>2. row \in Delivery /\ row.attempts < Tries
      BY DEF Delivery, Tries
    <3>3. PICK saved \in DeliveryJob :
            /\ saved = Saved(job, row)
            /\ saved.rows = [job.rows EXCEPT ![Len(job.rows)] = row]
            /\ saved.channel = job.channel /\ saved.shown = job.shown /\ saved.attempt = job.attempt
      BY <3>1, <3>2, JobSaves
    <3>4. PICK next : next = Retried(saved)
      OBVIOUS
    <3>5. /\ next \in DeliveryJob /\ next.status = (IF saved.attempt < Tries THEN "waiting" ELSE "failed")
          /\ next.channel = saved.channel /\ next.shown = saved.shown /\ next.rows = saved.rows
          /\ next.attempt = saved.attempt
      BY <3>4, JobRetries
    <3>6. /\ deliveryJobs' = [deliveryJobs EXCEPT ![j] = next]
          /\ Moved(c) /\ failures' = failures /\ pc'[c] = "idle"
      BY <2>1, <2>2, <2>7, <3>1, <3>2, <3>3, <3>4, CallGoes DEF SaveFailed, Caught, End
    <3>7. ASSUME failures = 0
          PROVE  /\ next.shown = 0 /\ Throws(next.channel) /\ next.attempt \in 1..Tries
                 /\ FailedTimes(next, next.attempt)
      <4>1. /\ job.shown = 0 /\ Throws(job.channel) /\ row = FailedRow
            /\ job.attempt \in 1..Tries /\ Len(job.rows) = job.attempt
            /\ \A i \in 1..(job.attempt - 1) : job.rows[i] = FailedRow
        BY <2>1, <2>2, <2>7, <3>1, <3>7 DEF SaveFailed, SendOK
      <4>2. job.rows \in Seq(Delivery)
        BY DEF DeliveryJob
      <4>3. next.rows = [job.rows EXCEPT ![job.attempt] = FailedRow]
        BY <3>3, <3>5, <4>1
      <4>4. Len(next.rows) = job.attempt /\ \A i \in 1..job.attempt : next.rows[i] = FailedRow
        BY <4>1, <4>2, <4>3 DEF Tries
      <4> QED BY <3>3, <3>5, <4>1, <4>4 DEF FailedTimes, Throws
    <3>8. next.status = "failed" /\ failures = 0 => next.attempt = Tries
      BY <3>3, <3>5, <3>7 DEF Tries
    <3>9. Progress(next)'
      <4>1. next.status \in {"waiting", "failed"}
            /\ (next.status = "waiting" => next.attempt < Tries)
        BY <3>5
      <4> QED BY <3>6, <3>7, <3>8, <4>1 DEF Progress, FailedTimes
    <3> QED BY <2>4, <3>3, <3>5, <3>6, <3>9
  <2>8. CASE DeliveryFails(c)
    <3>1. PICK next : next = Retried(job)
      OBVIOUS
    <3>2. /\ next \in DeliveryJob /\ next.status \in {"waiting", "failed"}
               /\ next.channel = job.channel
      BY <3>1, JobRetries
    <3>3. /\ deliveryJobs' = [deliveryJobs EXCEPT ![j] = next]
          /\ Moved(c) /\ failures' > 0 /\ pc'[c] = "idle"
      BY <2>1, <2>2, <2>8, <3>1, CallFails DEF DeliveryFails
    <3>4. failures' # 0
      BY <3>3
    <3>5. Progress(next)'
      BY <3>2, <3>4 DEF Progress
    <3> QED BY <2>4, <3>2, <3>3, <3>4, <3>5
  <2> QED BY <1>8, <2>5, <2>6, <2>7, <2>8
<1>9. ASSUME NEW c \in Calls, SaveDeliveryFails(c) PROVE DeliveryInv'
  <2>1. PICK j \in Pairs : /\ j = hand[c].job /\ pc[c] = "saveDelivery"
                           /\ deliveryJobs[j] # None /\ deliveryJobs[j].status = "active"
                           /\ deliveryJobs[j].rows # <<>>
                           /\ hand[c] = [job |-> j,
                                row |-> [status |-> Outcome(deliveryJobs[j].channel),
                                    attempts |-> 1]]
    BY <1>1, <1>9 DEF SaveDeliveryFails, SendInv, SendOK, Sending
  <2>2. /\ pc' = [pc EXCEPT ![c] = "saveFailed"]
        /\ hand' = [hand EXCEPT ![c].row = [status |-> "failed",
             attempts |-> hand[c].row.attempts + 1]]
        /\ Reject(c) /\ UNCHANGED <<preferences, notifications, deliveryJobs>>
    BY <1>9 DEF SaveDeliveryFails, notificationTables
  <2>3. hand' = [hand EXCEPT ![c] = [job |-> j, row |-> [status |-> "failed", attempts |-> 2]]]
    <3>1. PICK held : held = [hand[c] EXCEPT !.row = [status |-> "failed",
               attempts |-> hand[c].row.attempts + 1]]
      OBVIOUS
    <3>2. hand' = [hand EXCEPT ![c] = held]
      BY <2>2, <3>1
    <3>3. hand[c].row.attempts + 1 = 2
      BY <2>1
    <3>4. held = [job |-> j, row |-> [status |-> "failed", attempts |-> 2]]
      BY <2>1, <3>1, <3>3
    <3> QED BY <3>2, <3>4
  <2>4. Moved(c) /\ failures' # 0 /\ pc'[c] = "saveFailed"
    <3>1. failures' # 0
      BY <2>2 DEF CallsOK, Reject
    <3>2. pc'[c] = "saveFailed" /\ OnlyOf(c)
      BY <2>2, <2>3 DEF CallsOK, OnlyOf
    <3>3. apart' => apart /\ \A d \in Calls \ {c} : pc[d] = "idle"
      BY <2>1, <2>2 DEF CallsOK, Reject
    <3> QED BY <3>1, <3>2, <3>3 DEF Moved
  <2>5. hand'[c] = [job |-> j, row |-> [status |-> "failed", attempts |-> 2]]
    BY <2>3 DEF CallsOK
  <2>6. hand'[c].row \in [status : {"failed"}, attempts : 1..2] /\ hand'[c].job = j
    BY <2>5
  <2>7. SendOK(c)'
    BY <2>1, <2>2, <2>4, <2>6 DEF SendOK
  <2>8. SendInv'
    BY <1>1, <2>1, <2>2, <2>4, <2>6, <2>7, SendsStay DEF Sending
  <2>9. NotificationTypes' /\ NotificationsKeep /\ JobsKeep
    BY <1>1, <2>2 DEF NotificationTypes, NotificationsKeep, JobsKeep, Used
  <2>10. ScheduleOK(c)'
    BY <2>4 DEF ScheduleOK
  <2>11. ScheduleInv'
    BY <1>1, <2>4, <2>9, <2>10, SchedulesStay
  <2> QED BY <2>8, <2>9, <2>11 DEF DeliveryInv
<1>10. ASSUME (\E n \in NotificationIds : ReadNotification(n)) \/ UNCHANGED notificationVars
       PROVE  DeliveryInv'
  <2>1. UNCHANGED <<preferences, deliveryJobs, pc, hand, failures>>
    BY <1>10 DEF ReadNotification, notificationVars, notificationTables, serviceVars
  <2>2. NotificationTypes' /\ NotificationsKeep
    <3>1. CASE notifications' = notifications
      BY <1>1, <2>1, <3>1 DEF NotificationTypes, NotificationsKeep, Used
    <3>2. ASSUME NEW n \in NotificationIds, ReadNotification(n) PROVE NotificationTypes'
                 /\ NotificationsKeep
      <4>1. PICK row : row = [notifications[n] EXCEPT !.status = "read"]
        OBVIOUS
      <4>2. row \in Notification /\ row.user = notifications[n].user
        BY <1>1, <3>2, <4>1 DEF ReadNotification, Notification
      <4>3. notifications' = [notifications EXCEPT ![n] = row]
        BY <3>2, <4>1 DEF ReadNotification
      <4> QED BY <1>1, <2>1, <4>2, <4>3 DEF NotificationTypes, NotificationsKeep, Used
    <3> QED BY <1>10, <3>1, <3>2 DEF notificationVars, notificationTables
  <2>3. JobsKeep
    BY <2>1 DEF JobsKeep
  <2>4. SendInv'
    BY <1>1, <2>1 DEF SendInv, SendOK, OneSends, Progress, FailedTimes
  <2>5. ScheduleInv'
    <3>1. ASSUME NEW c \in Calls PROVE ScheduleOK(c)'
      <4>1. ScheduleOK(c)
        BY <1>1 DEF ScheduleInv
      <4>2. PICK n, todo : n = hand[c].notification /\ todo = hand[c].todo
        OBVIOUS
      <4>3. n \in NotificationIds /\ Queueing(n, todo) => Queueing(n, todo)'
        BY <1>1, <2>2, <2>3, QueueingStays
      <4> QED BY <2>1, <4>1, <4>2, <4>3 DEF ScheduleOK, Todo, Used
    <3>2. OneSchedules'
      BY <1>1, <2>1 DEF ScheduleInv, OneSchedules
    <3>3. ASSUME NEW n \in NotificationIds, NEW p \in PreferenceIds \cup {None} PROVE KeyOK(n, p)'
      <4>1. notifications[n] # None => /\ notifications'[n] # None
                                       /\ notifications'[n].user = notifications[n].user
        BY <1>1, <2>2 DEF NotificationsKeep, Used
      <4> QED BY <1>1, <2>1, <4>1 DEF ScheduleInv, KeyOK, Used
    <3> QED BY <3>1, <3>2, <3>3 DEF ScheduleInv
  <2> QED BY <2>2, <2>4, <2>5 DEF DeliveryInv
<1> QED BY <1>3, <1>4, <1>5, <1>6, <1>7, <1>8, <1>9, <1>10 DEF NotificationsNext

LEMMA DeliveryInductive == NotificationsSpec => [](PreferencesInv /\ DeliveryInv)
<1>1. PreferencesInv /\ DeliveryInv /\ [NotificationsNext]_notificationVars
      => (PreferencesInv /\ DeliveryInv)'
  BY PreferencesKept, DeliveryKept
<1> QED BY PreferencesInit, DeliveryInit, <1>1, PTL DEF NotificationsSpec

\* A job of each channel is queued for a notification, and each is sent once.
THEOREM NotifiedAtMostOnce == NotificationsSpec => []NotifiedOnce
<1>1. PreferencesInv /\ DeliveryInv => NotifiedOnce
  <2> SUFFICES ASSUME PreferencesInv, DeliveryInv, NEW n \in NotificationIds,
                      NEW j \in DOMAIN deliveryJobs, NEW k \in DOMAIN deliveryJobs,
                      j \in JobsOf(n), k \in JobsOf(n)
               PROVE  /\ deliveryJobs[j].shown > 1 => failures > 0
                      /\ j # k /\ deliveryJobs[j].channel = deliveryJobs[k].channel => ~apart
    BY DEF NotifiedOnce
  <2>1. DOMAIN deliveryJobs = Pairs /\ deliveryJobs[j] # None /\ deliveryJobs[k] # None
        /\ failures \in Nat
    BY DEF DeliveryInv, NotificationTypes, JobsOf, PreferencesInv, CallsOK
  <2>2. Progress(deliveryJobs[j]) /\ deliveryJobs[j].shown \in Nat
    BY <2>1, NotificationsAssumption DEF DeliveryInv, SendInv, NotificationTypes, DeliveryJob
  <2>3. deliveryJobs[j].shown > 1 => failures > 0
    BY <2>1, <2>2 DEF Progress
  <2>4. ASSUME j # k, deliveryJobs[j].channel = deliveryJobs[k].channel, apart PROVE FALSE
    <3>1. PICK p \in PreferenceIds \cup {None}, q \in PreferenceIds \cup {None} : j = <<n, p>>
               /\ k = <<n, q>>
      BY <2>1 DEF JobsOf, Pairs
    <3>2. KeyOK(n, p) /\ KeyOK(n, q) /\ p # q
      BY <2>4, <3>1 DEF DeliveryInv, ScheduleInv
    <3>3. p # None /\ q # None
      BY <2>1, <3>1, <3>2 DEF KeyOK
    <3>4. /\ p \in Used(preferences) /\ q \in Used(preferences)
          /\ preferences[p].user = preferences[q].user
               /\ preferences[p].channel = preferences[q].channel
      BY <2>1, <2>4, <3>1, <3>2, <3>3 DEF KeyOK
    <3> QED BY <2>4, <3>2, <3>4 DEF PreferencesInv, OnePreference
  <2> QED BY <2>3, <2>4
<1> QED BY <1>1, DeliveryInductive, PTL

\* What comes of a job is what its deliveries say.
THEOREM DeliveriesRecorded == NotificationsSpec => []DeliveryRecorded
<1>1. PreferencesInv /\ DeliveryInv => DeliveryRecorded
  <2> SUFFICES ASSUME DeliveryInv, NEW j \in Pairs, deliveryJobs[j] # None, NEW job,
                      job = deliveryJobs[j]
               PROVE  /\ job.status = "completed" =>
                           \E i \in DOMAIN job.rows : job.rows[i].status = Outcome(job.channel)
                                                      /\ Outcome(job.channel) # "failed"
                      /\ job.status = "failed" /\ failures = 0 =>
                           /\ Throws(job.channel)
                           /\ job.rows = [i \in 1..Tries |-> [status |-> "failed", attempts |-> 1]]
    BY DEF DeliveryRecorded, DeliveryInv, NotificationTypes
  <2>1. Progress(job) /\ job \in DeliveryJob
    BY DEF DeliveryInv, SendInv, NotificationTypes
  <2>2. ASSUME job.status = "failed", failures = 0
        PROVE  /\ Throws(job.channel)
               /\ job.rows = [i \in 1..Tries |-> [status |-> "failed", attempts |-> 1]]
    <3>1. /\ Throws(job.channel) /\ Len(job.rows) = Tries
          /\ \A i \in 1..Tries : job.rows[i] = FailedRow
      BY <2>1, <2>2 DEF Progress, FailedTimes
    <3>2. job.rows \in Seq(Delivery)
      BY <2>1 DEF DeliveryJob
    <3> QED BY <3>1, <3>2 DEF FailedRow
  <2> QED BY <2>1, <2>2 DEF Progress
<1> QED BY <1>1, DeliveryInductive, PTL

--------------------------------------------------------------------------------
(* Activity: the pages of a feed *)

LEMMA LeastNatural ==
  ASSUME NEW T, T \subseteq Nat, T # {}
  PROVE  \E n \in T : \A m \in T : n <= m
<1>1. PICK R : R = {mn \in Nat \X Nat : mn[1] < mn[2]}
  OBVIOUS
<1>2. IsWellFoundedOn(R, Nat)
  BY <1>1, NatLessThanWellFounded DEF OpToRel
<1>3. PICK n \in T : \A m \in T : <<m, n>> \notin R
  BY <1>2, WFMin
<1>4. ASSUME NEW m \in T PROVE n <= m
  <2>1. n \in Nat /\ m \in Nat /\ ~(m < n)
    BY <1>1, <1>3
  <2> QED BY <2>1
<1> QED BY <1>4

Item == [score : Nat, at : Nat, read : BOOLEAN]

ItemsInv ==
  /\ IsFiniteSet(DOMAIN items)
  /\ \A i \in DOMAIN items : items[i] \in Item

LEMMA ItemsInit == ActivityInit => ItemsInv
<1> SUFFICES ASSUME items = <<>> PROVE ItemsInv
  BY DEF ActivityInit
<1>1. DOMAIN items = {} /\ IsFiniteSet({})
  BY FS_EmptySet
<1> QED BY <1>1 DEF ItemsInv

LEMMA ItemsAdded ==
  ASSUME ItemsInv, NEW a, NEW now \in Nat, NEW score, DOMAIN score \subseteq Users,
         \A u \in DOMAIN score : score[u] \in Nat,
         items' = WithItems(a, score, now)
  PROVE  ItemsInv'
<1>1. PICK new : new = {[user |-> u, activity |-> a] : u \in DOMAIN score}
  OBVIOUS
<1>2. DOMAIN items' = new \cup DOMAIN items
  BY <1>1 DEF WithItems
<1>3. \A i \in DOMAIN items : items'[i] = items[i]
  BY <1>2 DEF WithItems
<1>4. ASSUME NEW i \in new \ DOMAIN items PROVE items'[i] \in Item
  <2>1. i.user \in DOMAIN score
    BY <1>1
  <2>2. PICK n \in Nat : n = score[i.user]
    BY <2>1
  <2>3. items'[i] = [score |-> n, at |-> now, read |-> FALSE]
    BY <1>1, <2>2 DEF WithItems
  <2> QED BY <2>3 DEF Item
<1>5. IsFiniteSet(DOMAIN items')
  <2>1. IsFiniteSet(DOMAIN score)
    BY ActivityAssumption, FS_Subset
  <2>2. PICK f : f = [u \in DOMAIN score |-> [user |-> u, activity |-> a]]
    OBVIOUS
  <2>3. f \in Surjection(DOMAIN score, new)
    BY <1>1, <2>2 DEF Surjection
  <2>4. IsFiniteSet(new)
    BY <2>1, <2>3, FS_Surjection
  <2>5. IsFiniteSet(DOMAIN items)
    BY DEF ItemsInv
  <2>6. IsFiniteSet(new \cup DOMAIN items)
    BY <2>4, <2>5, FS_Union
  <2> QED BY <1>2, <2>6
<1> QED BY <1>2, <1>3, <1>4, <1>5 DEF ItemsInv

LEMMA ItemsKept == ASSUME FeedInv, ItemsInv, [ActivityNext]_activityVars PROVE ItemsInv'
<1>1. CASE items' = items
  BY <1>1 DEF ItemsInv
<1>2. ASSUME NEW i \in DOMAIN items, MarkRead(i) PROVE ItemsInv'
  <2>1. PICK item : item = [items[i] EXCEPT !.read = TRUE]
    OBVIOUS
  <2>2. items' = [items EXCEPT ![i] = item]
    BY <1>2, <2>1 DEF MarkRead
  <2>3. item \in Item
    BY <2>1 DEF ItemsInv, Item
  <2> QED BY <2>2, <2>3 DEF ItemsInv
<1>3. ASSUME NEW c \in Calls, SaveFollowers(c), items' # items PROVE ItemsInv'
  <2>1. hand[c].users \subseteq Users
    BY <1>3 DEF SaveFollowers, FeedInv, DistributionOK
  <2>2. PICK score \in [hand[c].users -> 1..TopScore], now \in Times :
          items' = WithItems(hand[c].activity, score, now)
    BY <1>3 DEF SaveFollowers
  <2>3. now \in Nat /\ \A u \in DOMAIN score : score[u] \in Nat
    BY <2>2, ActivityAssumption
  <2> QED BY <2>1, <2>2, <2>3, ItemsAdded
<1>4. ASSUME NEW c \in Calls, SaveTargets(c), items' # items PROVE ItemsInv'
  <2>1. PICK a \in Activities : a = hand[c].activity /\ activities[a] # None
    BY <1>4 DEF SaveTargets, FeedInv, DistributionOK, Delivering, Distribution
  <2>2. PICK score : \E now \in Times : /\ score = [u \in Targets(activities[a]) |-> TopScore]
                                      /\ items' = WithItems(a, score, now)
    BY <1>4, <2>1 DEF SaveTargets
  <2>3. activities[a] \in Row
    BY <2>1 DEF FeedInv, FeedTypes
  <2>4. Times \subseteq Nat /\ DOMAIN score \subseteq Users /\ \A u \in DOMAIN score : score[u] \in Nat
    BY <2>2, <2>3, ActivityAssumption, TargetsAreUsers
  <2> QED BY <2>2, <2>4, ItemsAdded
<1> QED BY <1>1, <1>2, <1>3, <1>4
        DEF ActivityNext, activityVars, activityTables, CreateActivity, InsertActivity,
            DeleteActivity, Enqueue,
            StartAttempt, FindActivity, FindFollowers, DistributionFail, Subscribe, Unsubscribe,
            InsertFollow, SaveFollow, EndFollow, CallFail

\* A time that is not before another's as printed is of its millisecond.
LEMMA SameMillisecond ==
  ASSUME NEW t \in Nat, NEW l \in Nat, t <= l, ~(t < Printed(l))
  PROVE  Printed(t) = Printed(l)
<1>1. PICK d \in Nat \ {0} : d = Millisecond
  BY PagingAssumption
<1>2. PICK a \in Nat : a = l \div d
  BY <1>1
<1>3. PICK b \in Nat : b = t \div d
  BY <1>1
<1>4. /\ l = d * a + (l % d) /\ l % d \in 0..(d - 1)
      /\ t = d * b + (t % d) /\ t % d \in 0..(d - 1)
  BY <1>2, <1>3
<1>5. d * a <= t /\ d * b <= t /\ t < d * a + d /\ t < d * b + d
  BY <1>1, <1>4 DEF Printed
<1>6. a = b
  <2>1. ~(a + 1 <= b)
    <3> SUFFICES ASSUME a + 1 <= b PROVE FALSE
      OBVIOUS
    <3>1. PICK k \in Nat : b = a + 1 + k
      <4>1. b - (a + 1) \in Nat /\ b = a + 1 + (b - (a + 1))
        OBVIOUS
      <4> QED BY <4>1
    <3>2. d * b = d * a + d + d * k /\ d * k >= 0
      BY <3>1
    <3> QED BY <1>5, <3>2
  <2>2. ~(b + 1 <= a)
    <3> SUFFICES ASSUME b + 1 <= a PROVE FALSE
      OBVIOUS
    <3>1. PICK k \in Nat : a = b + 1 + k
      <4>1. a - (b + 1) \in Nat /\ a = b + 1 + (a - (b + 1))
        OBVIOUS
      <4> QED BY <4>1
    <3>2. d * a = d * b + d + d * k /\ d * k >= 0
      BY <3>1
    <3> QED BY <1>5, <3>2
  <2> QED BY <2>1, <2>2
<1> QED BY <1>1, <1>4, <1>6 DEF Printed

\* What is left out of a page comes after none of it.
LEMMA PageCut ==
  ASSUME NEW found, IsFiniteSet(found), found # {}, NEW order,
         NEW size \in Nat \ {0}, NEW page \in PagesOf(size, found, order)
  PROVE  /\ page \subseteq found /\ page # {}
         /\ \A i \in found \ page, j \in page : <<i, j>> \notin order
<1>1. ASSUME NEW n \in Nat \ {0}, NEW all, IsFiniteSet(all), all # {},
             NEW first \in Firsts(n, all, order)
      PROVE  /\ first \subseteq all /\ first # {} /\ IsFiniteSet(first)
             /\ \A i \in all \ first, j \in first : <<i, j>> \notin order
  <2>1. first \subseteq all /\ order \cap ((all \ first) \X first) = {}
        /\ Cardinality(first) = IF Cardinality(all) < n THEN Cardinality(all) ELSE n
    BY DEF Firsts
  <2>2. IsFiniteSet(first)
    BY <1>1, <2>1, FS_Subset
  <2>3. Cardinality(all) \in Nat /\ Cardinality(all) # 0
    BY <1>1, FS_CardinalityType, FS_EmptySet
  <2>4. first # {}
    BY <2>1, <2>3, FS_EmptySet
  <2>5. \A i \in all \ first, j \in first : <<i, j>> \notin order
    BY <2>1
  <2> QED BY <2>1, <2>2, <2>4, <2>5
<1>2. PICK first \in Firsts(size + 1, found, order) :
        page \in IF Cardinality(first) > size THEN Firsts(size, first, order) ELSE {first}
  BY DEF PagesOf
<1>3. size + 1 \in Nat \ {0}
  OBVIOUS
<1>4. /\ first \subseteq found /\ first # {} /\ IsFiniteSet(first)
      /\ \A i \in found \ first, j \in first : <<i, j>> \notin order
  BY <1>1, <1>2, <1>3
<1>5. CASE page = first
  BY <1>4, <1>5
<1>6. CASE page \in Firsts(size, first, order)
  <2>1. /\ page \subseteq first /\ page # {}
        /\ \A i \in first \ page, j \in page : <<i, j>> \notin order
    BY <1>1, <1>4, <1>6
  <2> QED BY <1>4, <2>1
<1> QED BY <1>2, <1>5, <1>6

\* A page has a last item: one of the lowest score, and of those one of the
\* earliest time.
LEMMA PageHasLast ==
  ASSUME ItemsInv, NEW page, page \subseteq DOMAIN items, page # {}
  PROVE  LastOf(page, FeedOrder) \in page
<1>1. \A i \in page : items[i].score \in Nat /\ items[i].at \in Nat
  BY DEF ItemsInv, Item
<1>2. PICK i \in page : \A j \in page : items[i].score <= items[j].score
  <2>1. PICK T : T = {items[i].score : i \in page}
    OBVIOUS
  <2>2. T \subseteq Nat /\ T # {}
    BY <1>1, <2>1
  <2>3. PICK n \in T : \A m \in T : n <= m
    BY <2>2, LeastNatural
  <2> QED BY <2>1, <2>3
<1>3. PICK low : low = {j \in page : items[j].score = items[i].score}
  OBVIOUS
<1>4. PICK k \in low : \A j \in low : items[k].at <= items[j].at
  <2>1. PICK T : T = {items[j].at : j \in low}
    OBVIOUS
  <2>2. T \subseteq Nat /\ T # {}
    BY <1>1, <1>3, <2>1
  <2>3. PICK n \in T : \A m \in T : n <= m
    BY <2>2, LeastNatural
  <2> QED BY <2>1, <2>3
<1>5. ASSUME NEW j \in page PROVE <<k, j>> \notin FeedOrder
  <2>1. k \in page /\ items[k].score = items[i].score /\ items[i].score <= items[j].score
    BY <1>2, <1>3, <1>4
  <2>2. items[j].score = items[k].score => items[k].at <= items[j].at
    BY <1>3, <1>4, <2>1
  <2>3. /\ items[k].score \in Nat /\ items[j].score \in Nat
        /\ items[k].at \in Nat /\ items[j].at \in Nat
    BY <1>1, <2>1
  <2>4. ~(\/ items[k].score > items[j].score
          \/ items[k].score = items[j].score /\ items[k].at > items[j].at)
    BY <2>1, <2>2, <2>3
  <2> QED BY <2>4 DEF FeedOrder
<1>6. k \in page
  BY <1>3, <1>4
<1> QED BY <1>5, <1>6 DEF LastOf

LEMMA FeedPages == ASSUME ItemsInv PROVE FeedMissesOnlyTies
<1> DEFINE Comes(i, cursor) == \/ cursor = None
                               \/ items[i].score < cursor.score
                               \/ items[i].score = cursor.score /\ items[i].at < cursor.at
<1> SUFFICES ASSUME NEW u \in Users, NEW cursor, NEW page \in Pages(u, cursor),
                    NEW i \in DOMAIN items, i.user = u, ~items[i].read, Comes(i, cursor),
                        i \notin page,
                    ~Comes(i, NextCursor(page, u, cursor))
             PROVE  \E j \in page : /\ items[j].score = items[i].score
                                    /\ Printed(items[j].at) = Printed(items[i].at)
  BY DEF FeedMissesOnlyTies
<1>1. PICK found : found = Matching(u, cursor)
  OBVIOUS
<1>2. found \subseteq DOMAIN items /\ i \in found
  BY <1>1 DEF Matching
<1>3. IsFiniteSet(found)
  BY <1>2, FS_Subset DEF ItemsInv
<1>4. page \in PagesOf(PageSize, found, FeedOrder)
  BY <1>1 DEF Pages
<1>5. /\ page \subseteq found /\ page # {}
      /\ \A k \in found \ page, j \in page : <<k, j>> \notin FeedOrder
  BY <1>2, <1>3, <1>4, ActivityAssumption, PageCut
<1>6. PICK last \in page : last = LastOf(page, FeedOrder)
  BY <1>2, <1>5, PageHasLast
<1>7. NextCursor(page, u, cursor) = [score |-> items[last].score, at |-> Printed(items[last].at)]
  BY <1>6 DEF NextCursor
<1>8. /\ items[i].score \in Nat /\ items[i].at \in Nat
      /\ items[last].score \in Nat /\ items[last].at \in Nat
  BY <1>2, <1>5 DEF ItemsInv, Item
<1>9. ~(items[i].score > items[last].score)
      /\ ~(items[i].score = items[last].score /\ items[i].at > items[last].at)
  <2>1. <<i, last>> \notin FeedOrder /\ last \in DOMAIN items
    BY <1>2, <1>5
  <2> QED BY <2>1 DEF FeedOrder
<1>10. /\ items[i].score = items[last].score /\ items[i].at <= items[last].at
       /\ ~(items[i].at < Printed(items[last].at))
  <2>1. PICK next : next = NextCursor(page, u, cursor)
    OBVIOUS
  <2>2. ~(items[i].score < next.score) /\ ~(items[i].score = next.score /\ items[i].at < next.at)
    BY <2>1
  <2>3. next.score = items[last].score /\ next.at = Printed(items[last].at)
    BY <1>7, <2>1
  <2> QED BY <1>8, <1>9, <2>2, <2>3
<1> QED BY <1>8, <1>10, SameMillisecond

\* Whoever follows the cursors misses an unread item only behind one of the same
\* score and millisecond.
THEOREM FeedReadToItsEnd == ActivitySpec => []FeedMissesOnlyTies
<1>1. ItemsInv /\ FeedInv /\ [ActivityNext]_activityVars => ItemsInv'
  BY ItemsKept
<1>2. ActivitySpec => []ItemsInv
  BY <1>1, ItemsInit, FeedInductive, PTL DEF ActivitySpec
<1> QED BY <1>2, FeedPages, PTL

--------------------------------------------------------------------------------
(* Rooms *)

RoomEvent == [user : {None}, notice : Notices] \cup [user : Users, here : BOOLEAN]
View      == [last : Notices \cup {None}, here : [Users -> BOOLEAN \cup {None}]]
Topics    == Users \cup {None}   \* the coming and going of each user, and the notices

Says(e)     == IF e.user = None THEN e.notice ELSE e.here
Known(s, x) == IF x = None THEN heard[s].last ELSE heard[s].here[x]

\* A queue is silent on a topic, or v is its last word.
Mute(q, x) == \A k \in 1..Len(q) : q[k].user # x
LastWord(q, x, v) ==
  \E k \in 1..Len(q) : /\ q[k].user = x /\ Says(q[k]) = v
                       /\ \A l \in (k + 1)..Len(q) : q[l].user # x

\* Where the channel has nothing more to say on a topic, the members know its
\* last word or nothing; elsewhere it is still to come.
Agreed(x, v) ==
  \A i \in Instances :
    IF Mute(channel[i], x) THEN \A s \in members : home[s] = i => Known(s, x) \in {None, v}
                           ELSE LastWord(channel[i], x, v)

RoomTypes ==
  /\ outgoing \in [Instances -> Seq(RoomEvent)]
  /\ channel \in [Instances -> Seq(RoomEvent)]
  /\ DOMAIN home \subseteq Connections
  /\ members \subseteq Connected
  /\ \A s \in members : heard[s] \in View
  /\ DOMAIN pc = Calls /\ DOMAIN hand = Calls
  /\ \A c \in Calls : pc[c] \in {"setOffline", "setPresence", "recordReceipt"} =>
       hand[c].user \in Users /\ hand[c].at \in Instances

InRoom(u) == Here(u) \cap members # {}

\* The truth of a user, or what the user said.
Possible(u) == {InRoom(u)} \cup {v \in {FALSE} : u \in hidden}

\* A user is connected once or is being taken leave of once; what is still to be
\* announced of the user waits on one instance, in the order in which it was so.
RosterOK(u) ==
  /\ \A s, t \in Here(u) : s = t
  /\ \A c, d \in Leaving(u) : c = d
  /\ Leaving(u) # {} => Here(u) = {}
  /\ \A c \in Hiding(u) :
       /\ u \in hidden
       /\ \A s \in Here(u) : home[s] = hand[c].at
       /\ \A d \in Leaving(u) \cup Hiding(u) : hand[d].at = hand[c].at
  /\ \A i \in Instances : ~Mute(outgoing[i], u) =>
       /\ \A s \in Here(u) : home[s] = i
       /\ \A c \in Leaving(u) \cup Hiding(u) : hand[c].at = i
       /\ \A j \in Instances : ~Mute(outgoing[j], u) => i = j
  /\ Leaving(u) = {} =>
       /\ \A i \in Instances : ~Mute(outgoing[i], u) =>
            \E v \in Possible(u) : LastWord(outgoing[i], u, v)
       /\ (\A i \in Instances : Mute(outgoing[i], u)) =>
            \E v \in {None} \cup Possible(u) : Agreed(u, v)

RoomsInv ==
  /\ RoomTypes
  /\ \A x \in Topics : \E v \in BOOLEAN \cup Notices \cup {None} : Agreed(x, v)
  /\ \A u \in Users \ muddled : RosterOK(u)

LEMMA Appended ==
  ASSUME NEW q \in Seq(RoomEvent), NEW e \in RoomEvent, NEW x
  PROVE  /\ Append(q, e) \in Seq(RoomEvent)
         /\ e.user = x => ~Mute(Append(q, e), x) /\ LastWord(Append(q, e), x, Says(e))
         /\ e.user # x => /\ Mute(Append(q, e), x) <=> Mute(q, x)
                          /\ \A v : LastWord(q, x, v) => LastWord(Append(q, e), x, v)
<1>1. PICK r : r = Append(q, e)
  OBVIOUS
<1>2. /\ r \in Seq(RoomEvent) /\ Len(r) = Len(q) + 1 /\ Len(q) \in Nat
      /\ r[Len(r)] = e /\ \A k \in 1..Len(q) : r[k] = q[k]
  BY <1>1
<1>3. ASSUME e.user = x PROVE ~Mute(r, x) /\ LastWord(r, x, Says(e))
  <2>1. Len(r) \in 1..Len(r) /\ (Len(r) + 1)..Len(r) = {}
    BY <1>2
  <2> QED BY <1>2, <1>3, <2>1 DEF Mute, LastWord
<1>4. ASSUME e.user # x PROVE Mute(r, x) <=> Mute(q, x)
  <2>1. \A k \in 1..Len(r) : k \in 1..Len(q) \/ k = Len(r)
    BY <1>2
  <2>2. \A k \in 1..Len(q) : k \in 1..Len(r)
    BY <1>2
  <2> QED BY <1>2, <1>4, <2>1, <2>2 DEF Mute
<1>5. ASSUME e.user # x, NEW v, LastWord(q, x, v) PROVE LastWord(r, x, v)
  <2>1. PICK k \in 1..Len(q) : /\ q[k].user = x /\ Says(q[k]) = v
                               /\ \A l \in (k + 1)..Len(q) : q[l].user # x
    BY <1>5 DEF LastWord
  <2>2. k \in 1..Len(r) /\ r[k] = q[k]
    BY <1>2
  <2>3. ASSUME NEW l \in (k + 1)..Len(r) PROVE r[l].user # x
    <3>1. (l \in (k + 1)..Len(q) /\ l \in 1..Len(q)) \/ l = Len(r)
      BY <1>2
    <3> QED BY <1>2, <1>5, <2>1, <3>1
  <2> QED BY <2>1, <2>2, <2>3 DEF LastWord
<1> QED BY <1>1, <1>2, <1>3, <1>4, <1>5

LEMMA Taken ==
  ASSUME NEW q \in Seq(RoomEvent), q # <<>>, NEW x
  PROVE  /\ Tail(q) \in Seq(RoomEvent) /\ Head(q) \in RoomEvent
         /\ Mute(q, x) => Mute(Tail(q), x) /\ Head(q).user # x
         /\ Head(q).user # x => (Mute(Tail(q), x) <=> Mute(q, x))
         /\ \A v : LastWord(q, x, v) =>
              IF Mute(Tail(q), x) THEN Head(q).user = x /\ Says(Head(q)) = v
                                  ELSE LastWord(Tail(q), x, v)
         /\ Head(q).user # x => \A v : LastWord(q, x, v) => LastWord(Tail(q), x, v)
<1>1. PICK r : r = Tail(q)
  OBVIOUS
<1>2. /\ r \in Seq(RoomEvent) /\ Len(q) \in Nat /\ Len(q) > 0 /\ Len(r) = Len(q) - 1
      /\ \A k \in 1..Len(r) : r[k] = q[k + 1]
      /\ Head(q) = q[1] /\ Head(q) \in RoomEvent
  BY <1>1
<1>3. Mute(q, x) => Mute(r, x) /\ Head(q).user # x
  BY <1>2 DEF Mute
<1>4. Head(q).user # x /\ Mute(r, x) => Mute(q, x)
  <2> SUFFICES ASSUME Head(q).user # x, Mute(r, x), NEW k \in 1..Len(q) PROVE q[k].user # x
    BY DEF Mute
  <2>1. k = 1 \/ (k - 1 \in 1..Len(r) /\ (k - 1) + 1 = k)
    BY <1>2
  <2> QED BY <1>2, <2>1 DEF Mute
<1>5. ASSUME NEW v, LastWord(q, x, v)
      PROVE  IF Mute(r, x) THEN Head(q).user = x /\ Says(Head(q)) = v ELSE LastWord(r, x, v)
  <2>1. PICK k \in 1..Len(q) : /\ q[k].user = x /\ Says(q[k]) = v
                               /\ \A l \in (k + 1)..Len(q) : q[l].user # x
    BY <1>5 DEF LastWord
  <2>2. CASE k = 1
    <3>1. \A l \in 1..Len(r) : r[l] = q[l + 1] /\ l + 1 \in (k + 1)..Len(q)
      BY <1>2, <2>2
    <3>2. Mute(r, x)
      BY <2>1, <3>1 DEF Mute
    <3> QED BY <1>2, <2>1, <2>2, <3>2
  <2>3. CASE k # 1
    <3>1. k - 1 \in 1..Len(r) /\ r[k - 1] = q[k]
      BY <1>2, <2>3
    <3>2. \A l \in ((k - 1) + 1)..Len(r) : r[l] = q[l + 1] /\ l + 1 \in (k + 1)..Len(q)
      BY <1>2, <3>1
    <3>3. ~Mute(r, x)
      BY <2>1, <3>1 DEF Mute
    <3>4. LastWord(r, x, v)
      BY <2>1, <3>1, <3>2 DEF LastWord
    <3> QED BY <3>3, <3>4
  <2> QED BY <2>2, <2>3
<1>6. ASSUME NEW v, LastWord(q, x, v), Head(q).user # x PROVE LastWord(r, x, v)
  BY <1>5, <1>6
<1> QED BY <1>1, <1>2, <1>3, <1>4, <1>5, <1>6


LEMMA RoomsInitOK == RoomsInit => RoomsInv
<1> SUFFICES ASSUME RoomsInit PROVE RoomsInv
  OBVIOUS
<1> USE DEF RoomsInit, ServiceInit
<1>1. Connected = {} /\ members = {}
  <2>1. DOMAIN home = {} /\ DOMAIN heard = {}
    OBVIOUS
  <2> QED BY <2>1 DEF Connected, members
<1>2. \A i \in Instances : outgoing[i] = <<>> /\ channel[i] = <<>>
  OBVIOUS
<1>3. \A x : Mute(<<>>, x)
  BY DEF Mute
<1>4. \A x, v : Agreed(x, v)
  BY <1>1, <1>2, <1>3 DEF Agreed
<1>5. RoomTypes
  BY <1>1 DEF RoomTypes
<1>6. ASSUME NEW u \in Users PROVE RosterOK(u)
  <2>1. Here(u) = {} /\ Leaving(u) = {} /\ Hiding(u) = {}
    BY <1>1 DEF Here, Leaving, Hiding
  <2>2. \A i \in Instances : Mute(outgoing[i], u)
    BY <1>2, <1>3
  <2> QED BY <1>4, <2>1, <2>2 DEF RosterOK
<1> QED BY <1>4, <1>5, <1>6 DEF RoomsInv

\* What a PUBLISH command under way adds to what is said,
LEMMA Spoken ==
  ASSUME RoomTypes, NEW i \in Instances, NEW e \in RoomEvent, BroadcastMessage(i, e)
  PROVE  /\ outgoing' \in [Instances -> Seq(RoomEvent)]
         /\ ~Mute(outgoing'[i], e.user) /\ LastWord(outgoing'[i], e.user, Says(e))
         /\ \A j \in Instances : \A x : j # i \/ x # e.user =>
              /\ Mute(outgoing'[j], x) <=> Mute(outgoing[j], x)
              /\ \A v : LastWord(outgoing[j], x, v) => LastWord(outgoing'[j], x, v)
<1>1. outgoing[i] \in Seq(RoomEvent) /\ outgoing' = [outgoing EXCEPT ![i] = Append(outgoing[i], e)]
  BY DEF RoomTypes, BroadcastMessage
<1>2. Append(outgoing[i], e) \in Seq(RoomEvent)
  BY <1>1
<1>3. /\ outgoing' \in [Instances -> Seq(RoomEvent)]
      /\ outgoing'[i] = Append(outgoing[i], e)
      /\ \A j \in Instances \ {i} : outgoing'[j] = outgoing[j]
  BY <1>1, <1>2 DEF RoomTypes
<1> QED BY <1>1, <1>3, Appended

\* and what Redis adds for everyone;
LEMMA Published ==
  ASSUME RoomTypes, NEW e \in RoomEvent,
         channel' = [j \in Instances |-> Append(channel[j], e)], UNCHANGED <<home, heard>>, NEW x
  PROVE  /\ e.user = x => Agreed(x, Says(e))'
         /\ e.user # x => \A v : Agreed(x, v) => Agreed(x, v)'
<1>1. ASSUME NEW j \in Instances
      PROVE  /\ e.user = x => ~Mute(channel'[j], x) /\ LastWord(channel'[j], x, Says(e))
             /\ e.user # x => /\ Mute(channel'[j], x) <=> Mute(channel[j], x)
                              /\ \A v : LastWord(channel[j], x, v) => LastWord(channel'[j], x, v)
  <2>1. channel[j] \in Seq(RoomEvent) /\ channel'[j] = Append(channel[j], e)
    BY DEF RoomTypes
  <2> QED BY <2>1, Appended
<1>2. members' = members /\ home' = home /\ \A s \in members : Known(s, x)' = Known(s, x)
  BY DEF Known, members
<1>3. e.user = x => Agreed(x, Says(e))'
  BY <1>1 DEF Agreed
<1>4. ASSUME e.user # x, NEW v, Agreed(x, v) PROVE Agreed(x, v)'
  BY <1>1, <1>2, <1>4 DEF Agreed
<1> QED BY <1>3, <1>4

\* what an instance emits says nothing new;
LEMMA Emitted ==
  ASSUME RoomTypes, NEW i \in Instances, HandleRedisMessage(i), NEW x \in Topics, NEW v,
         Agreed(x, v)
  PROVE  Agreed(x, v)'
<1>1. PICK q \in Seq(RoomEvent) : q = channel[i] /\ q # <<>>
  BY DEF RoomTypes, HandleRedisMessage
<1>2. PICK e \in RoomEvent : e = Head(q)
  BY <1>1
<1>3. channel'[i] = Tail(q) /\ \A j \in Instances \ {i} : channel'[j] = channel[j]
  BY <1>1 DEF RoomTypes, HandleRedisMessage
<1>4. /\ members' = members
      /\ \A s \in members : heard'[s] = IF home[s] = i THEN Hears(heard[s], e) ELSE heard[s]
  BY <1>1, <1>2 DEF HandleRedisMessage, members
<1>5. ASSUME NEW s \in members, home[s] = i
      PROVE  Known(s, x)' = IF e.user = x THEN Says(e) ELSE Known(s, x)
  <2>1. heard[s] \in View /\ heard'[s] = Hears(heard[s], e)
    BY <1>4, <1>5 DEF RoomTypes
  <2>2. CASE e.user = None
    <3>1. heard'[s].last = e.notice /\ heard'[s].here = heard[s].here
      BY <2>1, <2>2 DEF Hears, View
    <3> QED BY <2>2, <3>1 DEF Known, Says
  <2>3. CASE e.user # None
    <3>1. e.user \in Users
      BY <2>3 DEF RoomEvent
    <3>2. heard'[s].last = heard[s].last
          /\ heard'[s].here = [heard[s].here EXCEPT ![e.user] = e.here]
      BY <2>1, <2>3 DEF Hears, View
    <3>3. heard[s].here \in [Users -> BOOLEAN \cup {None}]
      BY <2>1 DEF View
    <3> QED BY <2>3, <3>1, <3>2, <3>3 DEF Known, Says, Topics
  <2> QED BY <2>2, <2>3
<1>6. ASSUME NEW j \in Instances, j # i
      PROVE  IF Mute(channel'[j], x) THEN \A s \in members' : home'[s] = j
             => Known(s, x)' \in {None, v}
                                     ELSE LastWord(channel'[j], x, v)
  <2>1. \A s \in members : home[s] = j => Known(s, x)' = Known(s, x)
    BY <1>4, <1>6 DEF Known
  <2>2. home' = home
    BY DEF HandleRedisMessage
  <2> QED BY <1>3, <1>4, <1>6, <2>1, <2>2 DEF Agreed
<1>7. IF Mute(channel'[i], x) THEN \A s \in members' : home'[s] = i => Known(s, x)' \in {None, v}
                              ELSE LastWord(channel'[i], x, v)
  <2>1. home' = home
    BY DEF HandleRedisMessage
  <2>2. CASE Mute(q, x)
    <3>1. Mute(Tail(q), x) /\ e.user # x
      BY <1>1, <1>2, <2>2, Taken
    <3>2. \A s \in members : home[s] = i => Known(s, x) \in {None, v}
      BY <1>1, <2>2 DEF Agreed
    <3> QED BY <1>3, <1>4, <1>5, <2>1, <3>1, <3>2
  <2>3. CASE ~Mute(q, x)
    <3>1. LastWord(q, x, v)
      BY <1>1, <2>3 DEF Agreed
    <3>2. IF Mute(Tail(q), x) THEN e.user = x /\ Says(e) = v ELSE LastWord(Tail(q), x, v)
      BY <1>1, <1>2, <3>1, Taken
    <3> QED BY <1>3, <1>4, <1>5, <2>1, <3>2
  <2> QED BY <2>2, <2>3
<1>8. \A j \in Instances :
        IF Mute(channel'[j], x) THEN \A s \in members' : home'[s] = j => Known(s, x)' \in {None, v}
                                ELSE LastWord(channel'[j], x, v)
  BY <1>6, <1>7
<1> QED BY <1>8 DEF Agreed

\* and who joins knows nothing.
LEMMA Joining ==
  ASSUME RoomTypes, UNCHANGED channel,
         \A s \in members' : \/ s \in members /\ home'[s] = home[s] /\ heard'[s] = heard[s]
                             \/ heard'[s] = Silence,
         NEW x \in Topics, NEW v, Agreed(x, v)
  PROVE  Agreed(x, v)'
<1>1. ASSUME NEW s \in members', heard'[s] = Silence PROVE Known(s, x)' = None
  BY <1>1 DEF Known, Silence, Topics
<1>2. ASSUME NEW s \in members', s \in members,
             heard'[s] = heard[s] PROVE Known(s, x)' = Known(s, x)
  BY <1>2 DEF Known
<1>3. ASSUME NEW i \in Instances
      PROVE  IF Mute(channel[i], x) THEN \A s \in members' : home'[s] = i
             => Known(s, x)' \in {None, v}
                                    ELSE LastWord(channel[i], x, v)
  BY <1>1, <1>2 DEF Agreed
<1> QED BY <1>3 DEF Agreed

\* A user nothing is done to
LEMMA RosterKept ==
  ASSUME NEW u \in Users, RosterOK(u),
         Here(u)' = Here(u), Leaving(u)' = Leaving(u), Hiding(u)' = Hiding(u),
         InRoom(u)' = InRoom(u), u \in hidden' <=> u \in hidden,
         \A s \in Here(u) : home'[s] = home[s],
         \A c \in Leaving(u) \cup Hiding(u) : hand'[c].at = hand[c].at,
         \A i \in Instances : /\ Mute(outgoing'[i], u) <=> Mute(outgoing[i], u)
                              /\ \A v : LastWord(outgoing[i], u, v) => LastWord(outgoing'[i], u, v),
         \A v : Agreed(u, v) => Agreed(u, v)'
  PROVE  RosterOK(u)'
<1>1. PICK h : h = Here(u)
  OBVIOUS
<1>2. PICK l : l = Leaving(u)
  OBVIOUS
<1>3. PICK b : b = Hiding(u)
  OBVIOUS
<1>4. PICK p : p = Possible(u)
  OBVIOUS
<1>5. Possible(u)' = p
  BY <1>4 DEF Possible
<1>6. l = {} => /\ \A i \in Instances : ~Mute(outgoing'[i], u) =>
                     \E v \in p : LastWord(outgoing'[i], u, v)
                /\ (\A i \in Instances : Mute(outgoing'[i], u))
                     => \E v \in {None} \cup p : Agreed(u, v)'
  BY <1>2, <1>4 DEF RosterOK
<1>7. /\ \A s, t \in h : s = t
      /\ \A c, d \in l : c = d
      /\ l # {} => h = {}
  BY <1>1, <1>2 DEF RosterOK
<1>8. \A c \in b :
       /\ u \in hidden'
       /\ \A s \in h : home'[s] = hand'[c].at
       /\ \A d \in l \cup b : hand'[d].at = hand'[c].at
  BY <1>1, <1>2, <1>3 DEF RosterOK
<1>9. \A i \in Instances : ~Mute(outgoing'[i], u) =>
       /\ \A s \in h : home'[s] = i
       /\ \A c \in l \cup b : hand'[c].at = i
       /\ \A j \in Instances : ~Mute(outgoing'[j], u) => i = j
  BY <1>1, <1>2, <1>3 DEF RosterOK
<1>10. Here(u)' = h /\ Leaving(u)' = l /\ Hiding(u)' = b
  BY <1>1, <1>2, <1>3
<1> QED BY <1>5, <1>6, <1>7, <1>8, <1>9, <1>10 DEF RosterOK


\* A step that publishes nothing keeps what is agreed upon.
LEMMA RoomsKeep ==
  ASSUME RoomsInv, RoomTypes', \A x \in Topics : \A v : Agreed(x, v) => Agreed(x, v)',
         \A u \in Users \ muddled' : RosterOK(u)'
  PROVE  RoomsInv'
<1>1. ASSUME NEW x \in Topics PROVE \E v \in BOOLEAN \cup Notices \cup {None} : Agreed(x, v)'
  BY DEF RoomsInv
<1> QED BY <1>1 DEF RoomsInv

\* The calls that are to say a user is gone are those of a step before.
SameLeaving ==
  /\ DOMAIN pc' = Calls /\ DOMAIN hand' = Calls
  /\ \A c \in Calls : pc'[c] \in {"setOffline", "setPresence", "recordReceipt"} =>
       hand'[c].user \in Users /\ hand'[c].at \in Instances
  /\ \A u \in Users : /\ Leaving(u)' = Leaving(u) /\ Hiding(u)' = Hiding(u)
                      /\ \A c \in Leaving(u) \cup Hiding(u) : hand'[c].at = hand[c].at

LEMMA StillLeaving == ASSUME RoomTypes, UNCHANGED <<pc, hand>> PROVE SameLeaving
  BY DEF RoomTypes, SameLeaving, Leaving, Hiding

LEMMA Noticed ==
  ASSUME RoomsInv, SameLeaving, NEW i \in Instances, NEW n \in Notices,
         BroadcastMessage(i, Notice(n)), UNCHANGED <<home, channel, heard, muddled, hidden>>
  PROVE  RoomsInv'
<1>1. PICK e \in RoomEvent : e = Notice(n) /\ e.user = None
  BY DEF Notice, RoomEvent
<1>2. /\ outgoing' \in [Instances -> Seq(RoomEvent)]
      /\ \A j \in Instances : \A x : x # None =>
           /\ Mute(outgoing'[j], x) <=> Mute(outgoing[j], x)
           /\ \A v : LastWord(outgoing[j], x, v) => LastWord(outgoing'[j], x, v)
  BY <1>1, Spoken DEF RoomsInv
<1>3. members' = members /\ Connected' = Connected
  BY DEF members, Connected
<1>4. RoomTypes'
  BY <1>2, <1>3 DEF RoomsInv, RoomTypes, SameLeaving
<1>5. \A x \in Topics : \A v : Agreed(x, v) => Agreed(x, v)'
  BY <1>3, Joining DEF RoomsInv
<1>6. ASSUME NEW u \in Users \ muddled' PROVE RosterOK(u)'
  <2>1. RosterOK(u) /\ u # None
    BY RoomsAssumption DEF RoomsInv
  <2>2. Here(u)' = Here(u) /\ InRoom(u)' = InRoom(u)
    BY <1>3 DEF Here, InRoom
  <2>3. /\ Leaving(u)' = Leaving(u) /\ Hiding(u)' = Hiding(u)
        /\ \A c \in Leaving(u) \cup Hiding(u) : hand'[c].at = hand[c].at
    BY DEF SameLeaving
  <2>4. \A v : Agreed(u, v) => Agreed(u, v)'
    BY <1>5 DEF Topics
  <2> QED BY <1>2, <2>1, <2>2, <2>3, <2>4, RosterKept
<1> QED BY <1>4, <1>5, <1>6, RoomsKeep

LEMMA NoticesKeep ==
  ASSUME RoomsInv,
         \/ \E s \in Connected : HandleMessage(s)
         \/ \E s \in Connected, c \in Calls : HandleReadReceipt(c, s)
         \/ \E c \in Calls : TellRoom(c)
  PROVE  RoomsInv'
<1>1. ASSUME NEW s \in Connected, HandleMessage(s) PROVE RoomsInv'
  <2>1. SameLeaving
    BY <1>1, StillLeaving DEF RoomsInv, HandleMessage, serviceVars
  <2>2. PICK n \in Notices : BroadcastMessage(home[s], Notice(n))
    BY <1>1 DEF HandleMessage
  <2>3. home[s] \in Instances
    BY DEF Connected
  <2> QED BY <1>1, <2>1, <2>2, <2>3, Noticed DEF HandleMessage
<1>2. ASSUME NEW s \in Connected, NEW c \in Calls, HandleReadReceipt(c, s) PROVE RoomsInv'
  <2>1. PICK i \in Instances : i = home[s]
    BY DEF Connected
  <2>2. PICK n \in Notices : BroadcastMessage(i, Notice(n))
    BY <1>2, <2>1 DEF HandleReadReceipt
  <2>3. /\ pc[c] = "idle" /\ pc' = [pc EXCEPT ![c] = "recordReceipt"]
        /\ hand' = [hand EXCEPT ![c] = [user |-> User(s), at |-> i]]
    BY <1>2, <2>1 DEF HandleReadReceipt, Begin, Idle
  <2>4. User(s) \in Users
    BY DEF RoomsInv, RoomTypes, Connected, Connections, User
  <2>5. DOMAIN pc = Calls /\ DOMAIN hand = Calls
    BY DEF RoomsInv, RoomTypes
  <2>6. \A d \in Calls : pc'[d] \in {"setOffline", "setPresence", "recordReceipt"} =>
          hand'[d].user \in Users /\ hand'[d].at \in Instances
    BY <2>3, <2>4, <2>5 DEF RoomsInv, RoomTypes
  <2>7. \A u \in Users : /\ Leaving(u)' = Leaving(u) /\ Hiding(u)' = Hiding(u)
                         /\ \A d \in Leaving(u) \cup Hiding(u) : hand'[d].at = hand[d].at
    BY <2>3, <2>5 DEF Leaving, Hiding
  <2>8. SameLeaving
    BY <2>3, <2>5, <2>6, <2>7 DEF SameLeaving
  <2> QED BY <1>2, <2>2, <2>8, Noticed DEF HandleReadReceipt
<1>3. ASSUME NEW c \in Calls, TellRoom(c) PROVE RoomsInv'
  <2>1. PICK i \in Instances : i = hand[c].at
    BY <1>3 DEF TellRoom, RoomsInv, RoomTypes
  <2>2. PICK n \in Notices : BroadcastMessage(i, Notice(n))
    BY <1>3, <2>1 DEF TellRoom
  <2>3. /\ pc[c] = "recordReceipt" /\ pc' = [pc EXCEPT ![c] = "idle"]
        /\ hand' = [hand EXCEPT ![c] = None]
    BY <1>3 DEF TellRoom, End, Go
  <2>4. DOMAIN pc = Calls /\ DOMAIN hand = Calls
    BY DEF RoomsInv, RoomTypes
  <2>5. \A d \in Calls : pc'[d] \in {"setOffline", "setPresence", "recordReceipt"} =>
          hand'[d].user \in Users /\ hand'[d].at \in Instances
    BY <2>3, <2>4 DEF RoomsInv, RoomTypes
  <2>6. \A u \in Users : /\ Leaving(u)' = Leaving(u) /\ Hiding(u)' = Hiding(u)
                         /\ \A d \in Leaving(u) \cup Hiding(u) : hand'[d].at = hand[d].at
    BY <2>3, <2>4 DEF Leaving, Hiding
  <2>7. SameLeaving
    BY <2>3, <2>4, <2>5, <2>6 DEF SameLeaving
  <2> QED BY <1>3, <2>2, <2>7, Noticed DEF TellRoom
<1> QED BY <1>1, <1>2, <1>3


\* A member comes or goes, and is announced.
LEMMA Announced ==
  ASSUME RoomsInv, NEW s \in Connected, NEW u \in Users, u = User(s), NEW e \in RoomEvent,
         e.user = u,
         BroadcastMessage(home[s], e), UNCHANGED <<home, channel, muddled, pc, hand>>,
         hidden' = SaidMore(u),
         \A t \in members' : (t \in members /\ heard'[t] = heard[t]) \/ heard'[t] = Silence,
         members' \subseteq Connected,
         \A w \in Users \ {u} : InRoom(w)' = InRoom(w),
         Here(u) = {s} => InRoom(u)' = e.here
  PROVE  RoomsInv'
<1>1. PICK i \in Instances : i = home[s]
  BY DEF Connected
<1>2. u # None /\ Says(e) = e.here /\ None \notin Users
  BY RoomsAssumption DEF Says
<1>3. /\ outgoing' \in [Instances -> Seq(RoomEvent)]
      /\ ~Mute(outgoing'[i], u) /\ LastWord(outgoing'[i], u, e.here)
      /\ \A j \in Instances : \A x : j # i \/ x # u =>
              /\ Mute(outgoing'[j], x) <=> Mute(outgoing[j], x)
              /\ \A v : LastWord(outgoing[j], x, v) => LastWord(outgoing'[j], x, v)
  <2>1. RoomTypes /\ BroadcastMessage(i, e)
    BY <1>1 DEF RoomsInv
  <2>2. /\ outgoing' \in [Instances -> Seq(RoomEvent)]
        /\ ~Mute(outgoing'[i], e.user) /\ LastWord(outgoing'[i], e.user, Says(e))
        /\ \A j \in Instances : \A x : j # i \/ x # e.user =>
              /\ Mute(outgoing'[j], x) <=> Mute(outgoing[j], x)
              /\ \A v : LastWord(outgoing[j], x, v) => LastWord(outgoing'[j], x, v)
    BY <2>1, Spoken
  <2> QED BY <1>2, <2>2
<1>4. /\ Connected' = Connected
      /\ \A w : Here(w)' = Here(w) /\ Leaving(w)' = Leaving(w) /\ Hiding(w)' = Hiding(w)
  BY DEF Connected, Here, Leaving, Hiding
<1>5. RoomTypes'
  <2>1. Silence \in View
    BY DEF Silence, View
  <2>2. \A t \in members' : heard'[t] \in View
    BY <2>1 DEF RoomsInv, RoomTypes
  <2> QED BY <1>3, <1>4, <2>2 DEF RoomsInv, RoomTypes
<1>6. \A x \in Topics : \A v : Agreed(x, v) => Agreed(x, v)'
  BY Joining DEF RoomsInv
<1>7. ASSUME NEW w \in Users \ muddled', w # u PROVE RosterOK(w)'
  <2>1. RosterOK(w) /\ InRoom(w)' = InRoom(w) /\ w \in Topics /\ (w \in hidden' <=> w \in hidden)
    BY <1>7 DEF RoomsInv, Topics, SaidMore
  <2> QED BY <1>3, <1>4, <1>6, <1>7, <2>1, RosterKept
<1>8. ASSUME u \notin muddled' PROVE RosterOK(u)'
  <2>1. RosterOK(u)
    BY <1>8 DEF RoomsInv
  <2>2. s \in Here(u)
    BY DEF Here
  <2>3. Here(u) = {s} /\ Leaving(u) = {}
    BY <2>1, <2>2 DEF RosterOK
  <2>4. \A j \in Instances : ~Mute(outgoing'[j], u) => j = i
    BY <1>1, <1>3, <2>1, <2>2 DEF RosterOK
  <2>5. InRoom(u)' = e.here
    BY <2>3
  <2>6. Here(u)' = {s} /\ Leaving(u)' = {} /\ Hiding(u)' = Hiding(u) /\ home'[s] = i
    BY <1>1, <1>4, <2>3
  <2>7. /\ \A t, r \in Here(u)' : t = r
        /\ \A j \in Instances : ~Mute(outgoing'[j], u) => \A t \in Here(u)' : home'[t] = j
    BY <2>4, <2>6
  <2>8. \A j \in Instances : ~Mute(outgoing'[j], u) =>
          \E v \in Possible(u)' : LastWord(outgoing'[j], u, v)
    BY <1>3, <2>4, <2>5 DEF Possible
  <2>9. \A c \in Hiding(u) : /\ u \in hidden' /\ hand'[c].at = i
                             /\ \A d \in Hiding(u) : hand'[d].at = hand'[c].at
    BY <1>1, <2>1, <2>2 DEF RosterOK, SaidMore
  <2> QED BY <1>3, <2>4, <2>6, <2>7, <2>8, <2>9 DEF RosterOK
<1> QED BY <1>5, <1>6, <1>7, <1>8, RoomsKeep

LEMMA MembersKeep ==
  ASSUME RoomsInv, NEW s \in Connected, HandleJoinRoom(s) \/ HandleLeaveRoom(s)
  PROVE  RoomsInv'
<1>1. PICK u \in Users : u = User(s)
  BY DEF RoomsInv, RoomTypes, Connected, Connections, User
<1>2. members \subseteq Connected
  BY DEF RoomsInv, RoomTypes
<1>3. \A w : Here(w)' = Here(w)
  BY DEF HandleJoinRoom, HandleLeaveRoom, Here, Connected
<1>4. \A w \in Users \ {u} : s \notin Here(w)
  BY <1>1 DEF Here
<1>5. CASE HandleJoinRoom(s)
  <2>1. PICK e \in RoomEvent : e = Joined(u) /\ e.user = u /\ e.here = TRUE
    <3>1. Joined(u) \in RoomEvent /\ Joined(u).user = u /\ Joined(u).here = TRUE
      BY DEF Joined, RoomEvent
    <3> QED BY <3>1
  <2>2. /\ members' = members \cup {s}
        /\ \A t \in members' : heard'[t] = IF t \in members THEN heard[t] ELSE Silence
    BY <1>5 DEF HandleJoinRoom, With, members
  <2>3. \A w \in Users \ {u} : InRoom(w)' = InRoom(w)
    BY <1>3, <1>4, <2>2 DEF InRoom
  <2>4. Here(u) = {s} => InRoom(u)' = e.here
    BY <1>3, <2>1, <2>2 DEF InRoom
  <2>5. /\ BroadcastMessage(home[s], e) /\ UNCHANGED <<home, channel, muddled, pc, hand>>
        /\ hidden' = SaidMore(u)
    BY <1>1, <1>5, <2>1 DEF HandleJoinRoom, serviceVars
  <2> QED BY <1>1, <1>2, <2>1, <2>2, <2>3, <2>4, <2>5, Announced
<1>6. CASE HandleLeaveRoom(s)
  <2>1. PICK e \in RoomEvent : e = Left(u) /\ e.user = u /\ e.here = FALSE
    <3>1. Left(u) \in RoomEvent /\ Left(u).user = u /\ Left(u).here = FALSE
      BY DEF Left, RoomEvent
    <3> QED BY <3>1
  <2>2. members' = members \ {s} /\ \A t \in members' : heard'[t] = heard[t]
    BY <1>6 DEF HandleLeaveRoom, Without, members
  <2>3. \A w \in Users \ {u} : InRoom(w)' = InRoom(w)
    BY <1>3, <1>4, <2>2 DEF InRoom
  <2>4. Here(u) = {s} => InRoom(u)' = e.here
    BY <1>3, <2>1, <2>2 DEF InRoom
  <2>5. /\ BroadcastMessage(home[s], e) /\ UNCHANGED <<home, channel, muddled, pc, hand>>
        /\ hidden' = SaidMore(u)
    BY <1>1, <1>6, <2>1 DEF HandleLeaveRoom, serviceVars
  <2> QED BY <1>1, <1>2, <2>1, <2>2, <2>3, <2>4, <2>5, Announced
<1> QED BY <1>5, <1>6


LEMMA ConnectionKeeps ==
  ASSUME RoomsInv, NEW s \in Connections, NEW i \in Instances, HandleConnection(s, i)
  PROVE  RoomsInv'
<1>1. PICK u \in Users : u = User(s)
  BY DEF Connections, User
<1>2. /\ s \notin DOMAIN home /\ UNCHANGED <<outgoing, channel, heard, hidden, pc, hand>>
      /\ DOMAIN home' = {s} \cup DOMAIN home /\ home'[s] = i
      /\ \A t \in DOMAIN home : home'[t] = home[t]
  BY DEF HandleConnection, With, serviceVars
<1>3. Connected' = Connected \cup {s} /\ s \notin Connected
  BY <1>2 DEF Connected
<1>4. members' = members /\ members \subseteq Connected /\ members \subseteq DOMAIN home
  BY <1>2 DEF RoomsInv, RoomTypes, members, Connected
<1>5. RoomTypes'
  <2>1. DOMAIN home' \subseteq Connections
    BY <1>2 DEF RoomsInv, RoomTypes
  <2> QED BY <1>2, <1>3, <1>4, <2>1 DEF RoomsInv, RoomTypes
<1>6. \A x \in Topics : \A v : Agreed(x, v) => Agreed(x, v)'
  BY <1>2, <1>4, Joining DEF RoomsInv
<1>7. \A w : Leaving(w)' = Leaving(w) /\ Hiding(w)' = Hiding(w)
  BY <1>2 DEF Leaving, Hiding
<1>8. ASSUME NEW w \in Users \ muddled', w # u PROVE RosterOK(w)'
  <2>1. RosterOK(w) /\ w \in Topics
    BY <1>8 DEF RoomsInv, HandleConnection, Topics
  <2>2. Here(w)' = Here(w) /\ \A t \in Here(w) : home'[t] = home[t]
    BY <1>1, <1>2, <1>3, <1>8 DEF Here, Connected
  <2>3. InRoom(w)' = InRoom(w)
    BY <1>4, <2>2 DEF InRoom
  <2> QED BY <1>2, <1>6, <1>7, <2>1, <2>2, <2>3, RosterKept
<1>9. ASSUME u \notin muddled' PROVE RosterOK(u)'
  <2>1. RosterOK(u) /\ ~Unsettled(u)
    BY <1>1, <1>9 DEF RoomsInv, HandleConnection
  <2>2. /\ Here(u) = {} /\ Leaving(u) = {} /\ Hiding(u) = {}
        /\ \A j \in Instances : Mute(outgoing[j], u)
    BY <2>1 DEF Unsettled, Mute
  <2>3. Here(u)' = {s}
    BY <1>1, <1>3, <2>2 DEF Here
  <2>4. InRoom(u)' = FALSE /\ InRoom(u) = FALSE
    BY <1>3, <1>4, <2>2, <2>3 DEF InRoom
  <2>5. PICK v \in {None, FALSE} : Agreed(u, v)
    BY <2>1, <2>2, <2>4 DEF RosterOK, Possible
  <2>6. Agreed(u, v)'
    BY <1>6, <2>5 DEF Topics
  <2>7. Leaving(u)' = {} /\ Hiding(u)' = {} /\ \A j \in Instances : Mute(outgoing'[j], u)
    BY <1>2, <1>7, <2>2
  <2>8. v \in {None} \cup Possible(u)'
    BY <2>4 DEF Possible
  <2> QED BY <2>3, <2>6, <2>7, <2>8 DEF RosterOK
<1> QED BY <1>5, <1>6, <1>8, <1>9, RoomsKeep

LEMMA DisconnectKeeps ==
  ASSUME RoomsInv, NEW c \in Calls, NEW s \in Connected, HandleDisconnect(c, s)
  PROVE  RoomsInv'
<1>1. PICK u \in Users : u = User(s)
  BY DEF RoomsInv, RoomTypes, Connected, Connections, User
<1>2. PICK i \in Instances : i = home[s]
  BY DEF Connected
<1>3. /\ UNCHANGED <<outgoing, channel, muddled, hidden>> /\ home' = [home EXCEPT ![s] = "closed"]
      /\ members' = members \ {s} /\ \A t \in members' : heard'[t] = heard[t]
  BY DEF HandleDisconnect, Without, members
<1>4. /\ DOMAIN home' = DOMAIN home /\ home'[s] = "closed" /\ s \in DOMAIN home
      /\ \A t \in DOMAIN home \ {s} : home'[t] = home[t]
  BY <1>3 DEF Connected
<1>5. Connected' = Connected \ {s}
  BY <1>4, RoomsAssumption DEF Connected
<1>6. members \subseteq Connected /\ Connected \subseteq DOMAIN home
  BY DEF RoomsInv, RoomTypes, Connected
<1>7. \/ UNCHANGED <<pc, hand>> /\ \E t \in Here(u) \ {s} : home[t] = home[s]
      \/ /\ pc[c] = "idle" /\ pc' = [pc EXCEPT ![c] = "setOffline"]
         /\ hand' = [hand EXCEPT ![c] = [user |-> u, at |-> i]]
  BY <1>1, <1>2 DEF HandleDisconnect, Begin, Idle, serviceVars
<1>8. DOMAIN pc = Calls /\ DOMAIN hand = Calls
  BY DEF RoomsInv, RoomTypes
<1>9. RoomTypes'
  <2>1. /\ DOMAIN pc' = Calls /\ DOMAIN hand' = Calls
        /\ \A d \in Calls : pc'[d] \in {"setOffline", "setPresence", "recordReceipt"} =>
             hand'[d].user \in Users /\ hand'[d].at \in Instances
    <3>1. CASE UNCHANGED <<pc, hand>>
      BY <3>1 DEF RoomsInv, RoomTypes
    <3>2. CASE /\ pc' = [pc EXCEPT ![c] = "setOffline"]
               /\ hand' = [hand EXCEPT ![c] = [user |-> u, at |-> i]]
      <4>1. hand'[c].user = u /\ hand'[c].at = i /\ \A d \in Calls \ {c} : hand'[d] = hand[d]
        BY <1>8, <3>2
      <4>2. \A d \in Calls \ {c} : pc'[d] = pc[d]
        BY <1>8, <3>2
      <4> QED BY <1>8, <3>2, <4>1, <4>2 DEF RoomsInv, RoomTypes
    <3> QED BY <1>7, <3>1, <3>2
  <2>2. DOMAIN home' \subseteq Connections /\ members' \subseteq Connected'
    BY <1>3, <1>4, <1>5, <1>6 DEF RoomsInv, RoomTypes
  <2> QED BY <1>3, <2>1, <2>2 DEF RoomsInv, RoomTypes
<1>10. \A x \in Topics : \A v : Agreed(x, v) => Agreed(x, v)'
  BY <1>3, <1>4, <1>6, Joining DEF RoomsInv
<1>11. ASSUME NEW w \in Users \ muddled', w # u PROVE RosterOK(w)'
  <2>1. RosterOK(w) /\ w \in Topics
    BY <1>3, <1>11 DEF RoomsInv, Topics
  <2>2. Here(w)' = Here(w) /\ \A t \in Here(w) : home'[t] = home[t]
    BY <1>1, <1>4, <1>5, <1>6, <1>11 DEF Here
  <2>3. InRoom(w)' = InRoom(w)
    BY <1>1, <1>3, <1>11, <2>2 DEF InRoom, Here
  <2>4. /\ Leaving(w)' = Leaving(w) /\ Hiding(w)' = Hiding(w)
        /\ \A d \in Leaving(w) \cup Hiding(w) : hand'[d].at = hand[d].at
    BY <1>7, <1>8, <1>11 DEF Leaving, Hiding
  <2> QED BY <1>3, <1>10, <2>1, <2>2, <2>3, <2>4, RosterKept
<1>12. ASSUME u \notin muddled' PROVE RosterOK(u)'
  <2>1. RosterOK(u)
    BY <1>3, <1>12 DEF RoomsInv
  <2>2. s \in Here(u)
    BY <1>1 DEF Here
  <2>3. Here(u) = {s} /\ Leaving(u) = {}
    BY <2>1, <2>2 DEF RosterOK
  <2>4. Here(u)' = {}
    BY <1>1, <1>5, <2>3 DEF Here
  <2>5. /\ pc[c] = "idle" /\ pc' = [pc EXCEPT ![c] = "setOffline"]
        /\ hand' = [hand EXCEPT ![c] = [user |-> u, at |-> i]]
    BY <1>7, <2>3
  <2>6. /\ Leaving(u)' = {c} /\ hand'[c].at = i /\ Hiding(u)' = Hiding(u)
        /\ \A d \in Hiding(u) : hand'[d] = hand[d]
    BY <1>8, <2>3, <2>5 DEF Leaving, Hiding
  <2>7. \A j \in Instances : ~Mute(outgoing'[j], u) => j = i
    BY <1>2, <1>3, <2>1, <2>2 DEF RosterOK
  <2>8. \A d \in Hiding(u) : u \in hidden' /\ hand'[d].at = i
    BY <1>2, <1>3, <2>1, <2>2, <2>6 DEF RosterOK
  <2> QED BY <2>4, <2>6, <2>7, <2>8 DEF RosterOK
<1> QED BY <1>9, <1>10, <1>11, <1>12, RoomsKeep

LEMMA PresenceKeeps ==
  ASSUME RoomsInv, NEW c \in Calls, NEW s \in Connected, HandlePresenceUpdate(c, s)
  PROVE  RoomsInv'
<1>1. PICK u \in Users : u = User(s)
  BY DEF RoomsInv, RoomTypes, Connected, Connections, User
<1>2. PICK i \in Instances : i = home[s]
  BY DEF Connected
<1>3. /\ UNCHANGED <<home, outgoing, channel, heard, muddled>> /\ hidden' = hidden \cup {u}
      /\ pc[c] = "idle" /\ pc' = [pc EXCEPT ![c] = "setPresence"]
      /\ hand' = [hand EXCEPT ![c] = [user |-> u, at |-> i]]
  BY <1>1, <1>2 DEF HandlePresenceUpdate, Begin, Idle
<1>4. DOMAIN pc = Calls /\ DOMAIN hand = Calls
  BY DEF RoomsInv, RoomTypes
<1>5. members' = members /\ Connected' = Connected
      /\ \A w : Here(w)' = Here(w) /\ InRoom(w)' = InRoom(w)
  BY <1>3 DEF members, Connected, Here, InRoom
<1>6. RoomTypes'
  <2>1. /\ DOMAIN pc' = Calls /\ DOMAIN hand' = Calls
        /\ \A d \in Calls : pc'[d] \in {"setOffline", "setPresence", "recordReceipt"} =>
             hand'[d].user \in Users /\ hand'[d].at \in Instances
    BY <1>3, <1>4 DEF RoomsInv, RoomTypes
  <2> QED BY <1>3, <1>5, <2>1 DEF RoomsInv, RoomTypes
<1>7. \A x \in Topics : \A v : Agreed(x, v) => Agreed(x, v)'
  BY <1>3, <1>5, Joining DEF RoomsInv
<1>8. ASSUME NEW w \in Users \ muddled', w # u PROVE RosterOK(w)'
  <2>1. RosterOK(w) /\ w \in Topics /\ (w \in hidden' <=> w \in hidden)
    BY <1>3, <1>8 DEF RoomsInv, Topics
  <2>2. /\ Leaving(w)' = Leaving(w) /\ Hiding(w)' = Hiding(w)
        /\ \A d \in Leaving(w) \cup Hiding(w) : hand'[d].at = hand[d].at
    BY <1>3, <1>4, <1>8 DEF Leaving, Hiding
  <2>3. \A t \in Here(w) : home'[t] = home[t]
    BY <1>3
  <2> QED BY <1>3, <1>5, <1>7, <2>1, <2>2, <2>3, RosterKept
<1>9. ASSUME u \notin muddled' PROVE RosterOK(u)'
  <2>1. RosterOK(u) /\ u \in Topics
    BY <1>3, <1>9 DEF RoomsInv, Topics
  <2>2. s \in Here(u)
    BY <1>1 DEF Here
  <2>3. Here(u) = {s} /\ Leaving(u) = {}
    BY <2>1, <2>2 DEF RosterOK
  <2>4. /\ Leaving(u)' = {} /\ Hiding(u)' = Hiding(u) \cup {c} /\ hand'[c].at = i
        /\ \A d \in Hiding(u) : hand'[d] = hand[d]
    BY <1>3, <1>4, <2>3 DEF Leaving, Hiding
  <2>5. \A d \in Hiding(u)' : hand'[d].at = i
    BY <1>2, <2>1, <2>2, <2>4 DEF RosterOK
  <2>6. Here(u)' = {s} /\ home'[s] = i /\ u \in hidden'
    BY <1>2, <1>3, <1>5, <2>3
  <2>7. \A j \in Instances : ~Mute(outgoing'[j], u) => j = i
    BY <1>2, <1>3, <2>1, <2>2 DEF RosterOK
  <2>8. Possible(u) \subseteq Possible(u)'
    BY <1>3, <1>5 DEF Possible
  <2>9. /\ \A j \in Instances : ~Mute(outgoing'[j], u) =>
             \E v \in Possible(u)' : LastWord(outgoing'[j], u, v)
        /\ (\A j \in Instances : Mute(outgoing'[j], u)) =>
             \E v \in {None} \cup Possible(u)' : Agreed(u, v)'
    BY <1>3, <1>7, <2>1, <2>3, <2>8 DEF RosterOK
  <2> QED BY <2>4, <2>5, <2>6, <2>7, <2>9 DEF RosterOK
<1> QED BY <1>6, <1>7, <1>8, <1>9, RoomsKeep

LEMMA LateKeeps ==
  ASSUME RoomsInv, NEW s \in Connections, NEW i \in Instances, HandleLate(s, i)
  PROVE  RoomsInv'
<1>1. User(s) \in Users
  BY DEF Connections, User
<1>2. PICK e \in RoomEvent : /\ BroadcastMessage(i, e)
                            /\ muddled' = muddled \cup ({e.user} \cap Users)
  BY <1>1 DEF HandleLate, Joined, Left, Notice, RoomEvent
<1>3. UNCHANGED <<home, channel, heard, hidden, pc, hand>>
  BY DEF HandleLate, serviceVars
<1>4. /\ outgoing' \in [Instances -> Seq(RoomEvent)]
      /\ \A j \in Instances : \A x : x # e.user =>
           /\ Mute(outgoing'[j], x) <=> Mute(outgoing[j], x)
           /\ \A v : LastWord(outgoing[j], x, v) => LastWord(outgoing'[j], x, v)
  BY <1>2, Spoken DEF RoomsInv
<1>5. /\ members' = members /\ Connected' = Connected
      /\ \A w : /\ Here(w)' = Here(w) /\ InRoom(w)' = InRoom(w)
               /\ Leaving(w)' = Leaving(w) /\ Hiding(w)' = Hiding(w)
  BY <1>3 DEF members, Connected, Here, InRoom, Leaving, Hiding
<1>6. RoomTypes'
  BY <1>3, <1>4, <1>5 DEF RoomsInv, RoomTypes
<1>7. \A x \in Topics : \A v : Agreed(x, v) => Agreed(x, v)'
  BY <1>3, <1>5, Joining DEF RoomsInv
<1>8. ASSUME NEW w \in Users \ muddled' PROVE RosterOK(w)'
  <2>1. w # e.user /\ RosterOK(w) /\ w \in Topics
    BY <1>2, <1>8 DEF RoomsInv, Topics
  <2>2. /\ \A t \in Here(w) : home'[t] = home[t]
        /\ \A d \in Leaving(w) \cup Hiding(w) : hand'[d].at = hand[d].at
    BY <1>3
  <2> QED BY <1>3, <1>4, <1>5, <1>7, <2>1, <2>2, RosterKept
<1> QED BY <1>6, <1>7, <1>8, RoomsKeep

LEMMA OfflineKeeps ==
  ASSUME RoomsInv, NEW c \in Calls, BroadcastOffline(c)
  PROVE  RoomsInv'
<1>1. /\ pc[c] \in {"setOffline", "setPresence"}
      /\ UNCHANGED <<home, channel, heard, muddled, hidden>>
  BY DEF BroadcastOffline
<1>2. PICK u \in Users : u = hand[c].user
  BY <1>1 DEF RoomsInv, RoomTypes
<1>3. PICK i \in Instances : i = hand[c].at
  BY <1>1 DEF RoomsInv, RoomTypes
<1>4. pc' = [pc EXCEPT ![c] = "idle"] /\ hand' = [hand EXCEPT ![c] = None]
  BY DEF BroadcastOffline, End, Go
<1>5. DOMAIN pc = Calls /\ DOMAIN hand = Calls
  BY DEF RoomsInv, RoomTypes
<1>6. /\ DOMAIN pc' = Calls /\ DOMAIN hand' = Calls
      /\ \A d \in Calls : pc'[d] \in {"setOffline", "setPresence", "recordReceipt"} =>
           hand'[d].user \in Users /\ hand'[d].at \in Instances
  BY <1>4, <1>5 DEF RoomsInv, RoomTypes
<1>7. members' = members /\ Connected' = Connected
      /\ \A w : Here(w)' = Here(w) /\ InRoom(w)' = InRoom(w)
  BY <1>1 DEF members, Connected, Here, InRoom
<1>8. \A x \in Topics : \A v : Agreed(x, v) => Agreed(x, v)'
  BY <1>1, <1>7, Joining DEF RoomsInv
<1>9. /\ c \in Leaving(u) \cup Hiding(u)
      /\ Leaving(u)' = Leaving(u) \ {c} /\ Hiding(u)' = Hiding(u) \ {c}
      /\ \A d \in Calls \ {c} : hand'[d].at = hand[d].at
  BY <1>1, <1>2, <1>4, <1>5 DEF Leaving, Hiding
<1>10. \A w \in Users \ {u} : /\ Leaving(w)' = Leaving(w) /\ Hiding(w)' = Hiding(w)
                              /\ \A d \in Leaving(w) \cup Hiding(w) : hand'[d].at = hand[d].at
  BY <1>1, <1>2, <1>4, <1>5 DEF Leaving, Hiding
<1>11. PICK e \in RoomEvent : e = Left(u) /\ e.user = u /\ e.here = FALSE
  <2>1. Left(u) \in RoomEvent /\ Left(u).user = u /\ Left(u).here = FALSE
    BY DEF Left, RoomEvent
  <2> QED BY <2>1
<1>12. BroadcastMessage(i, e) /\ Says(e) = FALSE
  BY <1>2, <1>3, <1>11, RoomsAssumption DEF BroadcastOffline, Says
<1>13. /\ outgoing' \in [Instances -> Seq(RoomEvent)]
       /\ ~Mute(outgoing'[i], u) /\ LastWord(outgoing'[i], u, FALSE)
       /\ \A j \in Instances : \A x : j # i \/ x # u =>
             /\ Mute(outgoing'[j], x) <=> Mute(outgoing[j], x)
             /\ \A v : LastWord(outgoing[j], x, v) => LastWord(outgoing'[j], x, v)
  <2>1. RoomTypes
    BY DEF RoomsInv
  <2>2. /\ outgoing' \in [Instances -> Seq(RoomEvent)]
        /\ ~Mute(outgoing'[i], e.user) /\ LastWord(outgoing'[i], e.user, Says(e))
        /\ \A j \in Instances : \A x : j # i \/ x # e.user =>
              /\ Mute(outgoing'[j], x) <=> Mute(outgoing[j], x)
              /\ \A v : LastWord(outgoing[j], x, v) => LastWord(outgoing'[j], x, v)
    BY <1>12, <2>1, Spoken
  <2> QED BY <1>11, <1>12, <2>2
<1>14. RoomTypes'
  BY <1>1, <1>6, <1>7, <1>13 DEF RoomsInv, RoomTypes
<1>15. ASSUME NEW w \in Users \ muddled', w # u PROVE RosterOK(w)'
  <2>1. RosterOK(w) /\ w \in Topics
    BY <1>1, <1>15 DEF RoomsInv, Topics
  <2>2. \A t \in Here(w) : home'[t] = home[t]
    BY <1>1
  <2> QED BY <1>1, <1>7, <1>8, <1>10, <1>13, <1>15, <2>1, <2>2, RosterKept
<1>16. ASSUME u \notin muddled' PROVE RosterOK(u)'
  <2>1. RosterOK(u)
    BY <1>1, <1>16 DEF RoomsInv
  <2>2. /\ \A d \in Leaving(u) \cup Hiding(u) : hand[d].at = i
        /\ \A t \in Here(u) : home[t] = i
    <3>1. CASE c \in Hiding(u)
      BY <1>3, <2>1, <3>1 DEF RosterOK
    <3>2. CASE c \in Leaving(u)
      BY <1>3, <2>1, <3>2 DEF RosterOK
    <3> QED BY <1>9, <3>1, <3>2
  <2>3. \A j \in Instances : ~Mute(outgoing[j], u) => j = i
    BY <1>3, <1>9, <2>1 DEF RosterOK
  <2>4. \A j \in Instances : ~Mute(outgoing'[j], u) => j = i
    BY <1>13, <2>3
  <2>5. \A d \in (Leaving(u) \cup Hiding(u))' : hand'[d].at = i
    <3>1. \A d \in (Leaving(u) \cup Hiding(u))' : d \in Leaving(u) \cup Hiding(u) /\ d \in Calls \ {c}
      BY <1>9 DEF Leaving, Hiding
    <3> QED BY <1>9, <2>2, <3>1
  <2>6. ASSUME Leaving(u)' = {} PROVE FALSE \in Possible(u)'
    <3>1. CASE c \in Leaving(u)
      <4>1. Here(u) = {}
        BY <2>1, <3>1 DEF RosterOK
      <4> QED BY <1>7, <4>1 DEF Possible, InRoom
    <3>2. CASE c \in Hiding(u)
      <4>1. u \in hidden'
        BY <1>1, <2>1, <3>2 DEF RosterOK
      <4> QED BY <4>1 DEF Possible
    <3> QED BY <1>9, <3>1, <3>2
  <2>7. Leaving(u)' = {} => \A j \in Instances : ~Mute(outgoing'[j], u) =>
          \E v \in Possible(u)' : LastWord(outgoing'[j], u, v)
    BY <1>13, <2>4, <2>6
  <2>8. /\ \A s, t \in Here(u)' : s = t
        /\ \A d, g \in Leaving(u)' : d = g
        /\ Leaving(u)' # {} => Here(u)' = {}
    BY <1>7, <1>9, <2>1 DEF RosterOK
  <2>9. \A d \in Hiding(u)' : u \in hidden'
    BY <1>1, <1>9, <2>1 DEF RosterOK
  <2>10. \A t \in Here(u)' : home'[t] = i
    BY <1>1, <1>7, <2>2
  <2> QED BY <1>13, <2>4, <2>5, <2>7, <2>8, <2>9, <2>10 DEF RosterOK
<1> QED BY <1>8, <1>14, <1>15, <1>16, RoomsKeep


\* A queue loses its head.
LEMMA Shortened ==
  ASSUME RoomTypes, NEW i \in Instances, outgoing[i] # <<>>,
         outgoing' = [outgoing EXCEPT ![i] = Tail(outgoing[i])]
  PROVE  /\ outgoing' \in [Instances -> Seq(RoomEvent)] /\ Head(outgoing[i]) \in RoomEvent
         /\ \A x : ~Mute(outgoing[i], x) \/ Mute(outgoing'[i], x)
         /\ \A j \in Instances \ {i} : outgoing'[j] = outgoing[j]
         /\ \A x : Head(outgoing[i]).user # x =>
              /\ Mute(outgoing'[i], x) <=> Mute(outgoing[i], x)
              /\ \A v : LastWord(outgoing[i], x, v) => LastWord(outgoing'[i], x, v)
         /\ \A x, v : LastWord(outgoing[i], x, v) =>
              IF Mute(outgoing'[i], x)
              THEN Head(outgoing[i]).user = x /\ Says(Head(outgoing[i])) = v
              ELSE LastWord(outgoing'[i], x, v)
<1>1. PICK q \in Seq(RoomEvent) : q = outgoing[i] /\ q # <<>>
  BY DEF RoomTypes
<1>2. Tail(q) \in Seq(RoomEvent) /\ Head(q) \in RoomEvent
  BY <1>1
<1>3. /\ outgoing' \in [Instances -> Seq(RoomEvent)] /\ outgoing'[i] = Tail(q)
      /\ \A j \in Instances \ {i} : outgoing'[j] = outgoing[j]
  BY <1>1, <1>2 DEF RoomTypes
<1>4. ASSUME NEW x
      PROVE  /\ ~Mute(q, x) \/ Mute(Tail(q), x)
             /\ Head(q).user # x => /\ Mute(Tail(q), x) <=> Mute(q, x)
                                    /\ \A v : LastWord(q, x, v) => LastWord(Tail(q), x, v)
             /\ \A v : LastWord(q, x, v) =>
                  IF Mute(Tail(q), x) THEN Head(q).user = x /\ Says(Head(q)) = v
                                      ELSE LastWord(Tail(q), x, v)
  BY <1>1, Taken
<1> QED BY <1>1, <1>2, <1>3, <1>4

LEMMA PublishKeeps ==
  ASSUME RoomsInv, NEW i \in Instances, Publish(i)
  PROVE  RoomsInv'
<1>1. PICK e \in RoomEvent : e = Head(outgoing[i])
  BY Shortened DEF RoomsInv, Publish
<1>2. /\ outgoing' \in [Instances -> Seq(RoomEvent)]
      /\ \A x : ~Mute(outgoing[i], x) \/ Mute(outgoing'[i], x)
      /\ \A j \in Instances \ {i} : outgoing'[j] = outgoing[j]
      /\ \A x : e.user # x =>
           /\ Mute(outgoing'[i], x) <=> Mute(outgoing[i], x)
           /\ \A v : LastWord(outgoing[i], x, v) => LastWord(outgoing'[i], x, v)
      /\ \A x, v : LastWord(outgoing[i], x, v) =>
           IF Mute(outgoing'[i], x) THEN e.user = x /\ Says(e) = v ELSE LastWord(outgoing'[i], x, v)
  BY <1>1, Shortened DEF RoomsInv, Publish
<1>3. /\ channel' = [j \in Instances |-> Append(channel[j], e)]
      /\ UNCHANGED <<home, heard, muddled, hidden, pc, hand>>
  BY <1>1 DEF Publish, serviceVars
<1>4. members' = members /\ Connected' = Connected
      /\ \A w : Here(w)' = Here(w) /\ InRoom(w)' = InRoom(w) /\ Leaving(w)' = Leaving(w)
             /\ Hiding(w)' = Hiding(w)
  BY <1>3 DEF members, Connected, Here, InRoom, Leaving, Hiding
<1>5. RoomTypes'
  <2>1. \A j \in Instances : Append(channel[j], e) \in Seq(RoomEvent)
    BY DEF RoomsInv, RoomTypes
  <2>2. channel' \in [Instances -> Seq(RoomEvent)]
    BY <1>3, <2>1
  <2> QED BY <1>2, <1>3, <1>4, <2>2 DEF RoomsInv, RoomTypes
<1>6. \A x : /\ e.user = x => Agreed(x, Says(e))'
             /\ e.user # x => \A v : Agreed(x, v) => Agreed(x, v)'
  BY <1>3, Published DEF RoomsInv
<1>7. ASSUME NEW x \in Topics PROVE \E v \in BOOLEAN \cup Notices \cup {None} : Agreed(x, v)'
  <2>1. Says(e) \in BOOLEAN \cup Notices
    BY RoomsAssumption DEF Says, RoomEvent
  <2> QED BY <1>6, <2>1 DEF RoomsInv
<1>8. ASSUME NEW w \in Users \ muddled', w # e.user PROVE RosterOK(w)'
  <2>1. RosterOK(w)
    BY <1>3, <1>8 DEF RoomsInv
  <2>2. \A j \in Instances : /\ Mute(outgoing'[j], w) <=> Mute(outgoing[j], w)
                             /\ \A v : LastWord(outgoing[j], w, v) => LastWord(outgoing'[j], w, v)
    BY <1>2, <1>8
  <2>3. \A v : Agreed(w, v) => Agreed(w, v)'
    BY <1>6, <1>8
  <2>4. /\ \A t \in Here(w) : home'[t] = home[t]
        /\ \A d \in Leaving(w) \cup Hiding(w) : hand'[d].at = hand[d].at
    BY <1>3
  <2> QED BY <1>3, <1>4, <2>1, <2>2, <2>3, <2>4, RosterKept
<1>9. ASSUME NEW u \in Users \ muddled', u = e.user PROVE RosterOK(u)'
  <2>1. RosterOK(u)
    BY <1>3, <1>9 DEF RoomsInv
  <2>2. ~Mute(outgoing[i], u)
    <3>1. outgoing[i] \in Seq(RoomEvent) /\ outgoing[i] # <<>>
      BY DEF RoomsInv, RoomTypes, Publish
    <3>2. 1 \in 1..Len(outgoing[i]) /\ outgoing[i][1] = e
      BY <1>1, <3>1
    <3> QED BY <1>9, <3>2 DEF Mute
  <2>3. \A j \in Instances \ {i} : Mute(outgoing[j], u)
    BY <2>1, <2>2 DEF RosterOK
  <2>4. \A j \in Instances : ~Mute(outgoing'[j], u) => j = i
    BY <1>2, <2>3
  <2>5. /\ \A t \in Here(u) : home[t] = i
        /\ \A d \in Leaving(u) \cup Hiding(u) : hand[d].at = i
    BY <2>1, <2>2 DEF RosterOK
  <2>6. ASSUME Leaving(u) = {} PROVE \E v \in Possible(u) : LastWord(outgoing[i], u, v)
    BY <2>1, <2>2, <2>6 DEF RosterOK
  <2>7. ASSUME Leaving(u) = {}, ~Mute(outgoing'[i], u)
        PROVE  \E v \in Possible(u) : LastWord(outgoing'[i], u, v)
    BY <1>2, <2>6, <2>7
  <2>8. ASSUME Leaving(u) = {}, Mute(outgoing'[i], u)
        PROVE  \E v \in Possible(u) : Agreed(u, v)'
    <3>1. PICK v \in Possible(u) : v = Says(e)
      BY <1>2, <2>6, <2>8
    <3>2. Agreed(u, v)'
      BY <1>6, <1>9, <3>1
    <3> QED BY <3>1, <3>2
  <2>9. /\ Here(u)' = Here(u) /\ Leaving(u)' = Leaving(u) /\ Hiding(u)' = Hiding(u)
        /\ home' = home /\ hand' = hand /\ hidden' = hidden
    BY <1>3, <1>4
  <2>13. Possible(u)' = Possible(u)
    BY <1>3, <1>4 DEF Possible
  <2>10. /\ \A s, t \in Here(u)' : s = t
         /\ \A c, d \in Leaving(u)' : c = d
         /\ Leaving(u)' # {} => Here(u)' = {}
         /\ \A c \in Hiding(u)' :
              /\ u \in hidden'
              /\ \A s \in Here(u)' : home'[s] = hand'[c].at
              /\ \A d \in Leaving(u)' \cup Hiding(u)' : hand'[d].at = hand'[c].at
    BY <2>1, <2>9 DEF RosterOK
  <2>11. \A j \in Instances : ~Mute(outgoing'[j], u) =>
           /\ \A s \in Here(u)' : home'[s] = j
           /\ \A c \in Leaving(u)' \cup Hiding(u)' : hand'[c].at = j
           /\ \A k \in Instances : ~Mute(outgoing'[k], u) => j = k
    BY <2>4, <2>5, <2>9
  <2>12. Leaving(u)' = {} =>
           /\ \A j \in Instances : ~Mute(outgoing'[j], u) =>
                \E v \in Possible(u)' : LastWord(outgoing'[j], u, v)
           /\ (\A j \in Instances : Mute(outgoing'[j], u))
                => \E v \in {None} \cup Possible(u)' : Agreed(u, v)'
    BY <2>4, <2>7, <2>8, <2>9, <2>13
  <2> QED BY <2>10, <2>11, <2>12 DEF RosterOK
<1>10. \A u \in Users \ muddled' : RosterOK(u)'
  BY <1>8, <1>9
<1> QED BY <1>5, <1>7, <1>10 DEF RoomsInv


LEMMA LossKeeps ==
  ASSUME RoomsInv, NEW i \in Instances, PublishFails(i)
  PROVE  RoomsInv'
<1>1. PICK e \in RoomEvent : e = Head(outgoing[i])
  BY Shortened DEF RoomsInv, PublishFails
<1>2. /\ outgoing' \in [Instances -> Seq(RoomEvent)]
      /\ \A j \in Instances \ {i} : outgoing'[j] = outgoing[j]
      /\ \A x : e.user # x =>
           /\ Mute(outgoing'[i], x) <=> Mute(outgoing[i], x)
           /\ \A v : LastWord(outgoing[i], x, v) => LastWord(outgoing'[i], x, v)
  BY <1>1, Shortened DEF RoomsInv, PublishFails
<1>3. /\ UNCHANGED <<home, channel, heard, hidden, pc, hand>>
      /\ muddled' = muddled \cup ({e.user} \cap Users)
  BY <1>1 DEF PublishFails
<1>4. members' = members /\ Connected' = Connected
      /\ \A w : Here(w)' = Here(w) /\ InRoom(w)' = InRoom(w) /\ Leaving(w)' = Leaving(w)
             /\ Hiding(w)' = Hiding(w)
  BY <1>3 DEF members, Connected, Here, InRoom, Leaving, Hiding
<1>5. RoomTypes'
  BY <1>2, <1>3, <1>4 DEF RoomsInv, RoomTypes
<1>6. \A x \in Topics : \A v : Agreed(x, v) => Agreed(x, v)'
  BY <1>3, <1>4, Joining DEF RoomsInv
<1>7. ASSUME NEW w \in Users \ muddled' PROVE RosterOK(w)'
  <2>1. w # e.user /\ RosterOK(w) /\ w \in Topics
    BY <1>3, <1>7 DEF RoomsInv, Topics
  <2>2. \A j \in Instances : /\ Mute(outgoing'[j], w) <=> Mute(outgoing[j], w)
                             /\ \A v : LastWord(outgoing[j], w, v) => LastWord(outgoing'[j], w, v)
    BY <1>2, <2>1
  <2>3. /\ \A t \in Here(w) : home'[t] = home[t]
        /\ \A d \in Leaving(w) \cup Hiding(w) : hand'[d].at = hand[d].at
    BY <1>3
  <2> QED BY <1>3, <1>4, <1>6, <2>1, <2>2, <2>3, RosterKept
<1> QED BY <1>5, <1>6, <1>7, RoomsKeep

LEMMA EmissionKeeps ==
  ASSUME RoomsInv, NEW i \in Instances, HandleRedisMessage(i)
  PROVE  RoomsInv'
<1>1. PICK q \in Seq(RoomEvent) : q = channel[i] /\ q # <<>>
  BY DEF RoomsInv, RoomTypes, HandleRedisMessage
<1>2. PICK e \in RoomEvent : e = Head(q)
  BY <1>1
<1>3. /\ UNCHANGED <<home, outgoing, muddled, hidden, pc, hand>>
      /\ channel' = [channel EXCEPT ![i] = Tail(q)]
      /\ heard' = [s \in members |-> IF home[s] = i THEN Hears(heard[s], e) ELSE heard[s]]
  BY <1>1, <1>2 DEF HandleRedisMessage, serviceVars
<1>4. members' = members /\ Connected' = Connected
      /\ \A w : Here(w)' = Here(w) /\ InRoom(w)' = InRoom(w) /\ Leaving(w)' = Leaving(w)
             /\ Hiding(w)' = Hiding(w)
  BY <1>3 DEF members, Connected, Here, InRoom, Leaving, Hiding
<1>5. ASSUME NEW view \in View PROVE Hears(view, e) \in View
  <2>1. CASE e.user = None
    BY <2>1, RoomsAssumption DEF Hears, View, RoomEvent
  <2>2. CASE e.user # None
    <3>1. e.user \in Users /\ e.here \in BOOLEAN
      BY <2>2 DEF RoomEvent
    <3>2. [view.here EXCEPT ![e.user] = e.here] \in [Users -> BOOLEAN \cup {None}]
      BY <3>1 DEF View
    <3>3. Hears(view, e) = [view EXCEPT !.here = [view.here EXCEPT ![e.user] = e.here]]
      BY <2>2 DEF Hears
    <3> QED BY <3>2, <3>3 DEF View
  <2> QED BY <2>1, <2>2
<1>6. RoomTypes'
  <2>1. \A s \in members' : heard'[s] \in View
    BY <1>3, <1>4, <1>5 DEF RoomsInv, RoomTypes
  <2>2. channel' \in [Instances -> Seq(RoomEvent)]
    BY <1>1, <1>3 DEF RoomsInv, RoomTypes
  <2> QED BY <1>3, <1>4, <2>1, <2>2 DEF RoomsInv, RoomTypes
<1>7. \A x \in Topics : \A v : Agreed(x, v) => Agreed(x, v)'
  BY Emitted DEF RoomsInv
<1>8. ASSUME NEW w \in Users \ muddled' PROVE RosterOK(w)'
  <2>1. RosterOK(w) /\ w \in Topics
    BY <1>3, <1>8 DEF RoomsInv, Topics
  <2>2. /\ \A t \in Here(w) : home'[t] = home[t]
        /\ \A d \in Leaving(w) \cup Hiding(w) : hand'[d].at = hand[d].at
        /\ outgoing' = outgoing
    BY <1>3
  <2> QED BY <1>3, <1>4, <1>7, <2>1, <2>2, RosterKept
<1> QED BY <1>6, <1>7, <1>8, RoomsKeep

LEMMA NextRoomsKeep == ASSUME RoomsInv, [RoomsNext]_<<roomVars, serviceVars>> PROVE RoomsInv'
<1>1. CASE UNCHANGED <<roomVars, serviceVars>>
  <2>1. UNCHANGED <<home, outgoing, channel, heard, muddled, hidden, pc, hand>>
    BY <1>1 DEF roomVars, serviceVars
  <2>2. members' = members /\ Connected' = Connected
        /\ \A w : Here(w)' = Here(w) /\ InRoom(w)' = InRoom(w) /\ Leaving(w)' = Leaving(w)
             /\ Hiding(w)' = Hiding(w)
    BY <2>1 DEF members, Connected, Here, InRoom, Leaving, Hiding
  <2>3. RoomTypes'
    BY <2>1, <2>2 DEF RoomsInv, RoomTypes
  <2>4. \A x \in Topics : \A v : Agreed(x, v) => Agreed(x, v)'
    BY <2>1, <2>2, Joining DEF RoomsInv
  <2>5. ASSUME NEW w \in Users \ muddled' PROVE RosterOK(w)'
    <3>1. RosterOK(w) /\ w \in Topics
      BY <2>1, <2>5 DEF RoomsInv, Topics
    <3> QED BY <2>1, <2>2, <2>4, <3>1, RosterKept
  <2> QED BY <2>3, <2>4, <2>5, RoomsKeep
<1>2. ASSUME NEW s \in Connections,
             \/ HandleMessage(s) \/ HandleJoinRoom(s) \/ HandleLeaveRoom(s)
                  \/ HandleTypingIndicator(s)
      PROVE  RoomsInv'
  <2>1. s \in Connected
    BY <1>2 DEF HandleMessage, HandleJoinRoom, HandleLeaveRoom, HandleTypingIndicator
  <2> QED BY <1>2, <2>1, NoticesKeep, MembersKeep DEF HandleTypingIndicator
<1>3. ASSUME NEW s \in Connections, NEW c \in Calls, HandleReadReceipt(c, s)
             \/ HandlePresenceUpdate(c, s) \/ HandleDisconnect(c, s)
      PROVE  RoomsInv'
  <2>1. s \in Connected
    BY <1>3 DEF HandleReadReceipt, HandlePresenceUpdate, HandleDisconnect
  <2> QED BY <1>3, <2>1, NoticesKeep, PresenceKeeps, DisconnectKeeps
<1>4. ASSUME NEW c \in Calls, TellRoom(c) \/ BroadcastOffline(c) PROVE RoomsInv'
  BY <1>4, NoticesKeep, OfflineKeeps
<1>5. ASSUME NEW i \in Instances, Publish(i) \/ PublishFails(i)
             \/ HandleRedisMessage(i) PROVE RoomsInv'
  BY <1>5, PublishKeeps, LossKeeps, EmissionKeeps
<1> QED BY <1>1, <1>2, <1>3, <1>4, <1>5, ConnectionKeeps, LateKeeps DEF RoomsNext

LEMMA RoomsInductive == RoomsSpec => []RoomsInv
BY RoomsInitOK, NextRoomsKeep, PTL DEF RoomsSpec

\* Instances never emit in different orders: the members of a room, wherever
\* they are connected, agree once they have heard all there is.
THEOREM MembersAlwaysAgree == RoomsSpec => []MembersAgree
<1>1. RoomsInv => MembersAgree
  <2> SUFFICES ASSUME RoomsInv, NEW s \in members, NEW t \in members, HasHeardAll(s), HasHeardAll(t)
               PROVE  /\ None \in {heard[s].last, heard[t].last} \/ heard[s].last = heard[t].last
                      /\ \A u \in Users : \/ None \in {heard[s].here[u], heard[t].here[u]}
                                          \/ heard[s].here[u] = heard[t].here[u]
    BY DEF MembersAgree
  <2>1. /\ home[s] \in Instances /\ channel[home[s]] = <<>>
        /\ home[t] \in Instances /\ channel[home[t]] = <<>>
    BY DEF RoomsInv, RoomTypes, Connected, HasHeardAll
  <2>2. \A x : Mute(<<>>, x)
    BY DEF Mute
  <2>3. ASSUME NEW x \in Topics PROVE \E v : Known(s, x) \in {None, v} /\ Known(t, x) \in {None, v}
    BY <2>1, <2>2 DEF RoomsInv, Agreed
  <2>4. \A x \in Topics : None \in {Known(s, x), Known(t, x)} \/ Known(s, x) = Known(t, x)
    BY <2>3
  <2>5. None \in Topics /\ \A u \in Users : u \in Topics /\ u # None
    BY RoomsAssumption DEF Topics
  <2> QED BY <2>4, <2>5 DEF Known
<1> QED BY <1>1, RoomsInductive, PTL

\* What a member heard last of a user's coming and going is true or the user's own
\* word, unless the user came back while the coming or going before was still
\* unsettled.
THEOREM RosterAlwaysTrue == RoomsSpec => []RosterTrue
<1>1. RoomsInv => RosterTrue
  <2> SUFFICES ASSUME RoomsInv, NEW s \in members, NEW u \in Users \ muddled, HasHeardAll(s),
                      heard[s].here[u] # None
               PROVE  heard[s].here[u] = InRoom(u) \/ (u \in hidden /\ ~heard[s].here[u])
    BY DEF RosterTrue, InRoom
  <2>1. home[s] \in Instances /\ channel[home[s]] = <<>> /\ \A i \in Instances : outgoing[i] = <<>>
    BY DEF RoomsInv, RoomTypes, Connected, HasHeardAll
  <2>2. \A x : Mute(<<>>, x)
    BY DEF Mute
  <2>3. Leaving(u) = {}
    BY DEF HasHeardAll, Idle, Leaving
  <2>4. PICK v \in {None} \cup Possible(u) : Agreed(u, v)
    BY <2>1, <2>2, <2>3 DEF RoomsInv, RosterOK
  <2>5. Known(s, u) \in {None, v}
    BY <2>1, <2>2, <2>4 DEF Agreed
  <2>6. Known(s, u) = heard[s].here[u]
    BY RoomsAssumption DEF Known
  <2> QED BY <2>4, <2>5, <2>6 DEF Possible
<1> QED BY <1>1, RoomsInductive, PTL
================================================================================
