----------------------------- MODULE BtcWallet -----------------------------
(***************************************************************************)
(* The coins of the BTC faucet (src/btc-faucet.ts): a payment scans the    *)
(* unspent outputs of the faucet's address, reads the mempool, chooses     *)
(* coins that are deep enough and that no mempool transaction spends, and  *)
(* broadcasts.  The bitcoin node, which is external, mines blocks in       *)
(* between, scans for one caller at a time and refuses a transaction whose *)
(* inputs are gone.  Payments run one at a time (the queue of Faucet);     *)
(* balance requests are not queued.                                        *)
(***************************************************************************)
EXTENDS Naturals, FiniteSets, FiniteSetsExt

CONSTANTS
  Coins,       \* the faucet's outputs at the start
  Worth,       \* Worth[c]: what the coin c is worth
  MinedAt,     \* MinedAt[c]: the height of its block
  Coinbase,    \* the coins that are rewards of miners
  Maturity,    \* how many blocks such a coin must be old (100 in bitcoin)
  Payments,    \* the payments asked for
  Balances,    \* the balance requests
  Amount,      \* what a payment sends
  InputFee,    \* the fee of each input
  StartHeight,
  MaxHeight    \* bound on the height

Change(p) == <<"change", p>>

ASSUME BtcWalletAssumption ==
  /\ IsFiniteSet(Coins) /\ IsFiniteSet(Payments)
  /\ Coins \cap {Change(p) : p \in Payments} = {}
  /\ Worth \in [Coins -> Nat] /\ MinedAt \in [Coins -> Nat]
  /\ Coinbase \subseteq Coins
  /\ {Maturity, Amount, InputFee, StartHeight, MaxHeight} \subseteq Nat
  /\ Payments \cap Balances = {}
  /\ StartHeight <= MaxHeight
  /\ \A c \in Coins : MinedAt[c] <= StartHeight

Jobs == Payments \cup Balances
AllCoins == Coins \cup {Change(p) : p \in Payments}

VARIABLES
  height,     \* the height of the bitcoin chain
  utxo,       \* the faucet's outputs in the chain that no mined transaction spends
  mined,      \* mined[c]: the height of the block of c
  worth,      \* worth[c]: what c is worth
  mempool,    \* the payments whose transactions are in the mempool
  spends,     \* spends[p]: the inputs of p's transaction
  scanner,    \* the job whose scan is running, Nobody if none is
  job,        \* job[j]: what the job j has done and knows
  spent       \* what accepted payments have paid, fees included (history)

chain == <<height, utxo, mined, worth>>
walletVars == <<height, utxo, mined, worth, mempool, spends, scanner, job, spent>>

Nobody == "nobody"
Steps == {"idle", "scan", "scanning", "poll", "mempool", "send", "done", "failed", "refused"}

MinTxConfirmations == 1

Sum(cs) == MapThenSumSet(LAMBDA c : worth[c], cs)

WalletInit ==
  /\ height = StartHeight
  /\ utxo = Coins
  /\ mined = [c \in AllCoins |-> IF c \in Coins THEN MinedAt[c] ELSE 0]
  /\ worth = [c \in AllCoins |-> IF c \in Coins THEN Worth[c] ELSE 0]
  /\ mempool = {}
  /\ spends = [p \in Payments |-> {}]
  /\ scanner = Nobody
  /\ job = [j \in Jobs |-> [pc |-> "idle", tip |-> 0, unspents |-> {}, chosen |-> {}]]
  /\ spent = 0

-----------------------------------------------------------------------------
(***************************************************************************)
(* The bitcoin node.                                                       *)
(***************************************************************************)

(* A block with some of the mempool. *)
Mine(ps) ==
  /\ height < MaxHeight
  /\ height' = height + 1
  /\ mempool' = mempool \ ps
  /\ utxo' = (utxo \ UNION {spends[p] : p \in ps}) \cup {Change(p) : p \in ps}
  /\ mined' = [c \in AllCoins |-> IF \E p \in ps : c = Change(p) THEN height + 1 ELSE mined[c]]
  /\ UNCHANGED <<worth, spends, scanner, job, spent>>

Immature(cs) == {c \in cs \cap Coinbase : height - mined[c] < Maturity}

Spendable(cs) == /\ cs \subseteq utxo
                 /\ Immature(cs) = {}
                 /\ \A p \in mempool : cs \cap spends[p] = {}

-----------------------------------------------------------------------------
(***************************************************************************)
(* The jobs.                                                               *)
(***************************************************************************)

Running == {p \in Payments : job[p].pc \notin {"idle", "done", "failed", "refused"}}

PaymentsAtOnce == 1

StartJob(j) ==
  /\ job[j].pc = "idle"
  /\ j \in Payments => Cardinality(Running) < PaymentsAtOnce
  /\ job' = [job EXCEPT ![j].pc = "scan"]
  /\ UNCHANGED <<chain, mempool, spends, scanner, spent>>

(* scantxoutset start: it scans the outputs of this moment, or answers that it
   has not completed because another scan is under way. *)
Scan(j) ==
  /\ job[j].pc = "scan"
  /\ IF scanner = Nobody
     THEN /\ scanner' = j
          /\ job' = [job EXCEPT ![j] = [@ EXCEPT !.pc = "scanning", !.tip = height,
                                                 !.unspents = utxo]]
     ELSE /\ job' = [job EXCEPT ![j].pc = "poll"]
          /\ UNCHANGED scanner
  /\ UNCHANGED <<chain, mempool, spends, spent>>

Poll_UntilScanning(j) ==
  /\ job[j].pc = "poll"
  /\ scanner # Nobody
  /\ job' = [job EXCEPT ![j].pc = "scan"]
  /\ UNCHANGED <<chain, mempool, spends, scanner, spent>>

(* scantxoutset status, until no scan is under way; then all over again. *)
Poll(j) ==
  /\ job[j].pc = "poll"
  /\ scanner = Nobody
  /\ job' = [job EXCEPT ![j].pc = "scan"]
  /\ UNCHANGED <<chain, mempool, spends, scanner, spent>>

(* The scan ends: getBtcBalance answers, a payment reads the mempool next, and
   a job that has given up in the meantime is not there to hear. *)
ScanDone(j) ==
  /\ scanner = j
  /\ scanner' = Nobody
  /\ job' = [job EXCEPT ![j].pc = CASE @ # "scanning" -> @
                                     [] j \in Balances -> "done"
                                     [] OTHER -> "mempool"]
  /\ UNCHANGED <<chain, mempool, spends, spent>>

SpendableUtxos_Unspent(p) ==
  {c \in job[p].unspents : job[p].tip - mined[c] > MinTxConfirmations}

(* getSpendableUtxos: getrawmempool, and getrawtransaction of each (a mined
   transaction is still found: the node runs with txindex). *)
SpendableUtxos(p) ==
  {c \in job[p].unspents : /\ \A q \in mempool : c \notin spends[q]
                           /\ job[p].tip - mined[c] > MinTxConfirmations}

Covers(cs) == Sum(cs) >= Amount + InputFee * Cardinality(cs)

(* The total is compared without fees; coinselect returns no inputs when the
   coins do not cover them, and the loop over the inputs throws. *)
Select(p) ==
  /\ job[p].pc = "mempool"
  /\ LET sufficient == {cs \in SUBSET SpendableUtxos(p) : cs # {} /\ Covers(cs)}
     IN  \/ \E cs \in sufficient : job' = [job EXCEPT ![p] = [@ EXCEPT !.pc = "send", !.chosen = cs]]
         \/ sufficient = {} /\ job' = [job EXCEPT ![p].pc = "failed"]
  /\ UNCHANGED <<chain, mempool, spends, scanner, spent>>

ChangeOf_Forgotten(p) == 0

(* What the inputs are worth beyond the amount and the fee is an output back to
   the faucet. *)
ChangeOf(p) == Sum(job[p].chosen) - Amount - InputFee * Cardinality(job[p].chosen)

Broadcast(p) ==
  /\ mempool' = mempool \cup {p}
  /\ spends' = [spends EXCEPT ![p] = job[p].chosen]
  /\ worth' = [worth EXCEPT ![Change(p)] = ChangeOf(p)]
  /\ spent' = spent + Amount + InputFee * Cardinality(job[p].chosen)

(* sendrawtransaction: accepted (and the answer may still be lost) or refused. *)
Send(p) ==
  /\ job[p].pc = "send"
  /\ IF Spendable(job[p].chosen)
     THEN /\ Broadcast(p)
          /\ \E pc \in {"done", "failed"} : job' = [job EXCEPT ![p].pc = pc]
     ELSE /\ job' = [job EXCEPT ![p].pc = "refused"]
          /\ UNCHANGED <<mempool, spends, worth, spent>>
  /\ UNCHANGED <<height, utxo, mined, scanner>>

(* A call to the node fails or times out: the job rejects.  The node's scan
   goes on without it. *)
CallFails(j) ==
  /\ job[j].pc \in {"scan", "scanning", "poll", "mempool", "send"}
  /\ job' = [job EXCEPT ![j].pc = "failed"]
  /\ UNCHANGED <<chain, mempool, spends, scanner, spent>>

JobStep(j) == Scan(j) \/ Poll(j) \/ ScanDone(j) \/ (j \in Payments /\ (Select(j) \/ Send(j)))

WalletNext ==
  \/ \E ps \in SUBSET mempool : Mine(ps)
  \/ \E j \in Jobs : StartJob(j) \/ JobStep(j) \/ CallFails(j)

WalletSpec == WalletInit /\ [][WalletNext]_walletVars

(* The queue and the event loop run what is ready and the node answers. *)
WalletFairSpec == WalletSpec /\ \A j \in Jobs : WF_walletVars(JobStep(j)) /\ WF_walletVars(StartJob(j))

-----------------------------------------------------------------------------
WalletTypeOK ==
  /\ height \in StartHeight..MaxHeight
  /\ utxo \subseteq AllCoins
  /\ mined \in [AllCoins -> 0..MaxHeight]
  /\ worth \in [AllCoins -> Nat]
  /\ mempool \subseteq Payments
  /\ spends \in [Payments -> SUBSET AllCoins]
  /\ scanner \in Jobs \cup {Nobody}
  /\ job \in [Jobs -> [pc : Steps, tip : 0..MaxHeight, unspents : SUBSET AllCoins,
                       chosen : SUBSET AllCoins]]
  /\ spent \in Nat
  /\ Cardinality(Running) <= 1

(* A payment that the faucet has built is refused by the node only when a
   block came between the scan and the broadcast, or when it spends a miner's
   reward that is too young, which the faucet does not look at: never because
   of the faucet's own earlier payments.  btc-faucet.ts:142-156. *)
RefusedOnlyAfterBlock ==
  \A p \in Payments : job[p].pc = "refused" =>
    height > job[p].tip \/ Immature(job[p].chosen) # {}

(* The faucet's coins and what it has paid are together what it had at the
   start: change returns to the faucet, also when it is mined in between, and no
   coin is spent twice.  btc-faucet.ts:205-211. *)
ChangeReturns ==
  LET pending == UNION {spends[p] : p \in mempool}
  IN  Sum(utxo \ pending) + Sum({Change(p) : p \in mempool}) + spent
        = MapThenSumSet(LAMBDA c : Worth[c], Coins)

(* Both, the invariant of the coins. *)
WalletInv == WalletTypeOK /\ ChangeReturns

(* Every payment and every balance request ends, though scans of others keep it
   waiting.  btc-faucet.ts:90-107. *)
EveryJobEnds == \A j \in Jobs : <>(job[j].pc \in {"done", "failed", "refused"})

=============================================================================
