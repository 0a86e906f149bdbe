--------------------------------- MODULE Wallets ---------------------------------
(***************************************************************************)
(* The wallets of a user (wallet-management).  The first wallet of a user  *)
(* is primary; setPrimaryWallet demotes the primary wallet it has found    *)
(* and then promotes another, in two updates.  An update writes the        *)
(* columns it names, no others.                                            *)
(*                                                                         *)
(* A wallet is known by its address, a unique column.  Abstracted: labels, *)
(* tags, balances and the events.  Whether a signature recovers the        *)
(* address is left open: the action is taken or not.                       *)
(***************************************************************************)
EXTENDS Service

CONSTANT Addresses

WalletStatus == {"pending", "verified", "revoked"}
WalletType   == {"primary", "secondary"}
Wallet == [user: Users, status: WalletStatus, type: WalletType]

ASSUME WalletsAssumption == None \notin Wallet

VARIABLE wallets

walletsVars == <<wallets, serviceVars>>

WalletsInit ==
  /\ wallets = [a \in Addresses |-> None]
  /\ ServiceInit

\* findByUserId, findPrimaryWallet
WalletsOf(u)   == {a \in Used(wallets) : wallets[a].user = u}
PrimariesOf(u) == {a \in WalletsOf(u) : wallets[a].type = "primary"}

\* createWallet: the address is not taken; the caller may ask for either type.
CreateWallet(c, u, a, t) ==
  /\ wallets[a] = None
  /\ Begin(c, "countWallets", [address |-> a, row |-> [user |-> u, status |-> "pending", type |-> t]])
  /\ UNCHANGED wallets

CountWallets(c) ==
  /\ pc[c] = "countWallets"
  /\ LET row == hand[c].row IN
       Go(c, "insertWallet",
          [hand[c] EXCEPT !.row.type = IF WalletsOf(row.user) = {} THEN "primary" ELSE row.type])
  /\ UNCHANGED wallets

\* The unique index refuses an address that has been registered meanwhile.
InsertWallet(c) ==
  /\ pc[c] = "insertWallet"
  /\ LET a == hand[c].address IN
       wallets' = IF wallets[a] = None THEN [wallets EXCEPT ![a] = hand[c].row] ELSE wallets
  /\ End(c)

\* verifyWallet: whoever has the signature; a revoked wallet is not excluded.
VerifyWallet(c, a) ==
  /\ wallets[a] # None
  /\ wallets[a].status # "verified"
  /\ Begin(c, "saveVerified", [address |-> a])
  /\ UNCHANGED wallets

SaveVerified(c) ==
  /\ pc[c] = "saveVerified"
  /\ wallets' = [wallets EXCEPT ![hand[c].address].status = "verified"]
  /\ End(c)

\* Mutant of RevokeWallet: any wallet.
RevokeAnyWallet(c, a) ==
  /\ wallets[a] # None
  /\ Begin(c, "saveRevoked", [address |-> a])
  /\ UNCHANGED wallets

\* revokeWallet, by its own route or as a deletion.
RevokeWallet(c, a) ==
  /\ wallets[a] # None
  /\ wallets[a].type # "primary"
  /\ Begin(c, "saveRevoked", [address |-> a])
  /\ UNCHANGED wallets

SaveRevoked(c) ==
  /\ pc[c] = "saveRevoked"
  /\ wallets' = [wallets EXCEPT ![hand[c].address].status = "revoked"]
  /\ End(c)

\* setPrimaryWallet, of the owner's wallet.
SetPrimaryWallet(c, a) ==
  /\ wallets[a] # None
  /\ wallets[a].status = "verified"
  /\ Begin(c, "findPrimary", [address |-> a])
  /\ UNCHANGED wallets

FindPrimary(c) ==
  /\ pc[c] = "findPrimary"
  /\ LET a == hand[c].address
         found == PrimariesOf(wallets[a].user)
     IN \/ \E p \in found : Go(c, "demote", [address |-> a, primary |-> p])
        \/ found = {} /\ Go(c, "promote", [address |-> a])
  /\ UNCHANGED wallets

Demote(c) ==
  /\ pc[c] = "demote"
  /\ wallets' = [wallets EXCEPT ![hand[c].primary].type = "secondary"]
  /\ Go(c, "promote", [address |-> hand[c].address])

\* Mutant of Promote: the status is asked again after the demotion.
PromoteVerified(c) ==
  /\ pc[c] = "promote"
  /\ LET a == hand[c].address IN
       wallets' = IF wallets[a].status = "verified"
                  THEN [wallets EXCEPT ![a].type = "primary"] ELSE wallets
  /\ End(c)

Promote(c) ==
  /\ pc[c] = "promote"
  /\ wallets' = [wallets EXCEPT ![hand[c].address].type = "primary"]
  /\ End(c)

WalletsFail(c) == Fail(c) /\ UNCHANGED wallets

WalletsNext ==
  \E c \in Calls :
    \/ \E a \in Addresses :
         \/ \E u \in Users, t \in WalletType : CreateWallet(c, u, a, t)
         \/ VerifyWallet(c, a)
         \/ RevokeWallet(c, a)
         \/ SetPrimaryWallet(c, a)
    \/ CountWallets(c) \/ InsertWallet(c)
    \/ SaveVerified(c) \/ SaveRevoked(c)
    \/ FindPrimary(c) \/ Demote(c) \/ Promote(c)
    \/ WalletsFail(c)

WalletsSpec == WalletsInit /\ [][WalletsNext]_walletsVars

--------------------------------------------------------------------------------
Promoting(u) == \E c \in Calls : pc[c] = "promote" /\ wallets[hand[c].address].user = u

\* However the calls of a user overlap (two first wallets, two changes of the
\* primary wallet, a revocation), a user who has wallets has a primary one, or
\* a setPrimaryWallet is between its two updates; only a failure there loses it.
SomePrimary ==
  failures = 0 =>
    \A u \in Users : WalletsOf(u) # {} => PrimariesOf(u) # {} \/ Promoting(u)

\* revokeWallet refuses the primary wallet and setPrimaryWallet a revoked one:
\* a primary wallet is revoked only by two calls that overlap.
PrimaryNotRevoked ==
  apart => \A a \in Used(wallets) :
             wallets[a].type = "primary" => wallets[a].status # "revoked"
================================================================================
