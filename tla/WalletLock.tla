----------------------------- MODULE WalletLock -----------------------------
(***************************************************************************)
(* Who locks and unlocks an encrypted wallet: walletpassphrase, walletlock *)
(* and walletpassphrasechange of src/src/rpcwallet.cpp, the threads that   *)
(* walletpassphrase starts, and CWallet::ChangeWalletPassphrase, composed  *)
(* with the key pool.                                                      *)
(*                                                                         *)
(* RPC commands hold cs_wallet, as do the pool's operations (`Free').  The *)
(* relocking threads do not: they hold cs_nWalletUnlockTime, and           *)
(* CCryptoKeyStore::Lock takes cs_KeyStore.  Time is left out:             *)
(* nWalletUnlockTime is zero or not, and a sleeping thread may wake up at  *)
(* any moment after its time.                                              *)
(***************************************************************************)
EXTENDS KeyPool

CONSTANT Timers         \* the threads that run ThreadCleanWalletPassphrase

VARIABLES fArmed,       \* nWalletUnlockTime # 0
          timer,        \* [Timers -> where the thread is]
          topper,       \* ThreadTopUpKeyPool
          rpc,          \* the command that holds cs_wallet
          fWasLocked,
          escaped       \* history: the wallet was left unlocked by a passphrase change
                        \* that found it locked

threads == <<fArmed, timer, topper, rpc, fWasLocked, escaped>>
allVars == <<vars, threads>>

LockInit == /\ Init
            /\ fArmed = FALSE /\ timer = [t \in Timers |-> "off"]
            /\ topper = "off" /\ rpc = "idle" /\ fWasLocked = FALSE /\ escaped = FALSE

Up == topper # "threw"          \* an exception that leaves a thread ends the process
Free == Up /\ rpc = "idle"

-----------------------------------------------------------------------------
\* walletpassphrase unlocks the wallet, then starts two threads.
walletpassphrase == /\ Free /\ Unlock
                    /\ rpc' = "started" /\ escaped' = FALSE
                    /\ UNCHANGED <<fArmed, timer, topper, fWasLocked>>
StartThreads == /\ Up /\ rpc = "started" /\ rpc' = "idle"
                /\ topper' = "run"
                /\ \E t \in Timers : timer[t] = "off" /\ timer' = [timer EXCEPT ![t] = "start"]
                /\ UNCHANGED <<vars, fArmed, fWasLocked, escaped>>

\* ThreadCleanWalletPassphrase: only the first thread waits, a later one moves
\* the time on and ends.
CleanBegins(t) == /\ Up /\ timer[t] = "start"
                  /\ timer' = [timer EXCEPT ![t] = IF fArmed THEN "off" ELSE "sleep"]
                  /\ fArmed' = TRUE
                  /\ UNCHANGED <<vars, topper, rpc, fWasLocked, escaped>>
CleanEnds(t) == /\ Up /\ timer[t] = "sleep"
                /\ timer' = [timer EXCEPT ![t] = "off"]
                /\ fArmed' = FALSE
                /\ IF fArmed THEN Lock /\ escaped' = FALSE ELSE UNCHANGED <<vars, escaped>>
                /\ UNCHANGED <<topper, rpc, fWasLocked>>

walletlock == /\ Free /\ Lock /\ fArmed' = FALSE /\ escaped' = FALSE
              /\ UNCHANGED <<timer, topper, rpc, fWasLocked>>

\* ChangeWalletPassphrase asks whether the wallet is locked, locks it, unlocks it
\* with the old passphrase (or fails), and locks it again if it was locked.
ChangeBegins == /\ Free /\ fCrypted
                /\ rpc' = "change" /\ fWasLocked' = fLocked
                /\ UNCHANGED <<vars, fArmed, timer, topper, escaped>>
ChangeFails == /\ Up /\ rpc = "change" /\ rpc' = "idle" /\ Lock
               /\ fWasLocked' = FALSE /\ escaped' = FALSE
               /\ UNCHANGED <<fArmed, timer, topper>>
ChangeUnlocks == /\ Up /\ rpc = "change" /\ rpc' = "changed"
                 /\ fLocked' = FALSE /\ UNCHANGED <<records, reserved, fCrypted, history>>
                 /\ escaped' = (~fWasLocked /\ (fLocked \/ escaped))
                 /\ UNCHANGED <<fArmed, timer, topper, fWasLocked>>
ChangeEndsBug == /\ Up /\ rpc = "changed" /\ rpc' = "idle" /\ fWasLocked' = FALSE
                 /\ UNCHANGED <<vars, fArmed, timer, topper, escaped>>
ChangeEnds == /\ Up /\ rpc = "changed" /\ rpc' = "idle" /\ fWasLocked' = FALSE
              /\ IF fWasLocked THEN Lock ELSE UNCHANGED vars
              /\ UNCHANGED <<fArmed, timer, topper, escaped>>

\* ThreadTopUpKeyPool; nothing catches what TopUpKeyPool throws.
ThreadTopUpKeyPool == /\ Free /\ topper = "run" /\ topper' = "off"
                      /\ IF fLocked THEN UNCHANGED vars ELSE TopUpKeyPool
                      /\ UNCHANGED <<fArmed, timer, rpc, fWasLocked, escaped>>

\* A relocking thread locks the wallet under a top-up: of an RPC command or a miner,
\* which reports the error, or of ThreadTopUpKeyPool.
Interrupt(t) == /\ Free /\ timer[t] = "sleep" /\ fArmed
                /\ TopUpInterrupted
                /\ timer' = [timer EXCEPT ![t] = "off"] /\ fArmed' = FALSE
                /\ topper' \in {topper} \cup (IF topper = "run" THEN {"threw"} ELSE {})
                /\ escaped' = FALSE /\ UNCHANGED <<rpc, fWasLocked>>

PoolStep == /\ \/ Free /\ ( \/ TopUpKeyPool \/ GetKeyFromPool \/ GetOldestKeyPoolTime \/ EncryptWallet
                           \/ \E h \in Holders : GetReservedKey(h) \/ ReturnKey(h))
               \/ Up /\ \E h \in Holders : KeepKey(h)
            /\ UNCHANGED threads

ProcessEnds == /\ Restart \/ (Free /\ EncryptCut)
               /\ fArmed' = FALSE /\ timer' = [t \in Timers |-> "off"]
               /\ topper' = "off" /\ rpc' = "idle" /\ fWasLocked' = FALSE /\ escaped' = FALSE

LockNext == \/ walletpassphrase \/ StartThreads \/ walletlock
            \/ ChangeBegins \/ ChangeFails \/ ChangeUnlocks \/ ChangeEnds
            \/ \E t \in Timers : CleanBegins(t) \/ CleanEnds(t) \/ Interrupt(t)
            \/ ThreadTopUpKeyPool \/ PoolStep \/ ProcessEnds

\* A command that holds the lock goes on, threads start, and sleeps end.
Fairness == /\ WF_allVars(StartThreads) /\ WF_allVars(ChangeFails \/ ChangeUnlocks)
            /\ WF_allVars(ChangeEnds) /\ WF_allVars(ProcessEnds /\ ~Up)
            /\ \A t \in Timers : WF_allVars(CleanBegins(t)) /\ WF_allVars(CleanEnds(t))

LockSpec == LockInit /\ [][LockNext]_allVars /\ Fairness

-----------------------------------------------------------------------------
\* An unlocked wallet has a thread that will lock it, unless a passphrase change
\* unlocked it again after that thread was done.
RelockPending ==
  fCrypted /\ ~fLocked /\ rpc = "idle" /\ ~escaped
     => \E t \in Timers : timer[t] = "start" \/ (timer[t] = "sleep" /\ fArmed)

\* "Stores the wallet decryption key in memory for <timeout> seconds", says the help of
\* walletpassphrase: an unlocked wallet is locked again.
Relocks == (fCrypted /\ ~fLocked) ~> fLocked
=============================================================================
