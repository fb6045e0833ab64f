------------------------- MODULE TransactionShuffler -------------------------
(***************************************************************************)
(* What happens to the transactions of a block before they are executed    *)
(* (block_preparer.rs): some are filtered out (transaction_filter), then   *)
(* duplicates (txn_hash_and_authenticator_deduper.rs), then they are       *)
(* shuffled by one of two algorithms (transaction_shuffler): SenderAware,  *)
(* which spreads the transactions of a sender, and UseCaseAware, which     *)
(* also spreads those of a contract and keeps what it delays in nested     *)
(* priority queues.                                                        *)
(*                                                                         *)
(* Validators must agree on the result, so each step is a function of the  *)
(* block: the block and the configuration are chosen at first.             *)
(***************************************************************************)
EXTENDS Integers, Sequences, SequencesExt, FiniteSets, FiniteSetsExt

CONSTANTS
  Inputs,     \* [config, block]: a configuration [kind, dedup, sender, platform, user, limit], with the
              \* window or the spread factors and max_txns_from_block_to_execute, and a sequence of
              \* transactions [sender, seq, use_case, id]
  Refused,    \* what the filter does not allow
  Platform    \* the use case of the framework

VARIABLES
  config, block, pc,
  txns,                 \* what is to be shuffled
  input, output, result,
  start_index, senders_in_window, txns_by_senders, ordered_txns,   \* SenderAware
  input_idx, output_idx, accounts, use_cases,                      \* UseCaseAware
  use_cases_by_delay, account_placeholders, use_case_placeholders,
  failed                \* an assertion of DelayedQueue did not hold

chosen  == <<config, block>>
aware   == <<start_index, senders_in_window, txns_by_senders, ordered_txns>>
places  == <<use_cases, use_cases_by_delay, use_case_placeholders>>
delayed == <<input_idx, output_idx, accounts, account_placeholders, places, failed>>
vars == <<chosen, pc, txns, input, output, result, aware, delayed>>

With(f, k, v) == [x \in DOMAIN f \cup {k} |-> IF x = k THEN v ELSE f[x]]
Without(f, ks) == [x \in DOMAIN f \ ks |-> f[x]]

----------------------------------------------------------------------------
(* Filter and duplicates. *)

\* Transactions that share sender and sequence number are possible duplicates; of those the ones
\* whose hash and authenticator were seen are left out.
Dedup(s) ==
  LET possible == {i \in DOMAIN s : \E j \in DOMAIN s \ {i} : s[i].sender = s[j].sender /\ s[i].seq = s[j].seq}
      kept == {i \in DOMAIN s : i \notin possible \/ \A j \in possible : j < i => s[j] # s[i]}
  IN FoldLeftDomain(LAMBDA acc, i : IF i \in kept THEN Append(acc, s[i]) ELSE acc, <<>>, s)

\* prepare_block, up to the shuffle.
PrepareBlock ==
  /\ pc = "prepare"
  /\ LET filtered == SelectSeq(block, LAMBDA t : t \notin Refused)
     IN txns' = IF config.dedup THEN Dedup(filtered) ELSE filtered
  /\ IF txns' = <<>> \/ config.kind = "None" \/ (config.kind = "SenderAware" /\ config.sender = 0)
     THEN output' = txns' /\ input' = <<>> /\ pc' = "finalize"
     ELSE input' = txns' /\ UNCHANGED output
          /\ pc' = IF config.kind = "SenderAware" THEN "next_to_add" ELSE "bump"
  /\ UNCHANGED <<chosen, result, aware, delayed>>

Finalize ==
  /\ pc = "finalize"
  /\ result' = SubSeq(output, 1, Min({config.limit, Len(output)}))
  /\ pc' = "done"
  /\ UNCHANGED <<chosen, txns, input, output, aware, delayed>>

----------------------------------------------------------------------------
(* SenderAwareShuffler. *)

Count(s) == IF s \in DOMAIN senders_in_window THEN senders_in_window[s] ELSE 0
PendingOf(s) == IF s \in DOMAIN txns_by_senders THEN txns_by_senders[s] ELSE <<>>

\* last_dropped_sender, as a set.
LastDropped ==
  IF start_index > 0
  THEN {s \in {output[start_index].sender} : Count(s) = 0}
  ELSE {}

\* SlidingWindowState::add_transaction.
AddTransaction(t) ==
  LET left == IF start_index >= 0
              THEN LET s == output[start_index + 1].sender IN With(senders_in_window, s, Count(s) - 1)
              ELSE senders_in_window
      now == IF t.sender \in DOMAIN left THEN left[t.sender] + 1 ELSE 1
  IN /\ senders_in_window' = With(left, t.sender, now)
     /\ output' = Append(output, t)
     /\ start_index' = start_index + 1
     /\ pc' = IF Len(output') = Len(txns) THEN "finalize" ELSE "next_to_add"
     /\ UNCHANGED <<chosen, txns, result, delayed>>

\* A sender dropped off the window and has a pending transaction.
AddDropped ==
  /\ pc = "next_to_add"
  /\ \E s \in LastDropped :
       /\ PendingOf(s) # <<>>
       /\ txns_by_senders' = With(txns_by_senders, s, Tail(PendingOf(s)))
       /\ AddTransaction(Head(PendingOf(s)))
  /\ UNCHANGED <<input, ordered_txns>>

\* The next of the block, which is added or, when its sender is in the window, pends.
TakeNext ==
  /\ pc \in {"next_to_add", "seek"}
  /\ config.kind = "SenderAware"
  /\ pc = "next_to_add" => \A s \in LastDropped : PendingOf(s) = <<>>
  /\ input # <<>>
  /\ input' = Tail(input)
  /\ LET t == Head(input)
     IN IF Count(t.sender) = 0
        THEN AddTransaction(t) /\ UNCHANGED <<txns_by_senders, ordered_txns>>
        ELSE /\ txns_by_senders' = With(txns_by_senders, t.sender, Append(PendingOf(t.sender), t))
             /\ ordered_txns' = Append(ordered_txns, t)
             /\ pc' = "seek"
             /\ UNCHANGED <<chosen, txns, output, result, start_index, senders_in_window, delayed>>

\* remove_first_pending: the first that is still at the front for its sender.
AddFirstPending ==
  /\ pc \in {"next_to_add", "seek"}
  /\ config.kind = "SenderAware"
  /\ pc = "next_to_add" => \A s \in LastDropped : PendingOf(s) = <<>>
  /\ input = <<>>
  /\ LET live == {i \in DOMAIN ordered_txns :
                    LET q == PendingOf(ordered_txns[i].sender) IN q # <<>> /\ Head(q) = ordered_txns[i]}
         t == ordered_txns[Min(live)]
     IN IF live = {}
        THEN failed' = TRUE /\ pc' = "done"
             /\ UNCHANGED <<chosen, txns, output, result, aware, input_idx, output_idx, accounts,
                            account_placeholders, places>>
        ELSE /\ ordered_txns' = SubSeq(ordered_txns, Min(live) + 1, Len(ordered_txns))
             /\ txns_by_senders' = With(txns_by_senders, t.sender, Tail(PendingOf(t.sender)))
             /\ AddTransaction(t)
  /\ UNCHANGED input

----------------------------------------------------------------------------
(* UseCaseAwareShuffler: the queues hold <<try_delay_till, input_idx, what is delayed>>. *)

FirstOf(queue) ==
  CHOOSE e \in queue : \A f \in queue : e[1] < f[1] \/ (e[1] = f[1] /\ e[2] <= f[2])

SpreadFactor(u) == IF u = Platform THEN config.platform ELSE config.user

AccountEntry(s, a) == <<a.till, a.idx, s>>

\* UseCase::delay_key: the first account may be ready later than the use case itself.
DelayKey(u) ==
  <<IF u.accounts = {} THEN u.till ELSE Max({u.till, FirstOf(u.accounts)[1]}), u.idx>>

UseCaseEntry(k, u) == <<DelayKey(u)[1], DelayKey(u)[2], k>>

\* UseCase::add_account.
AddAccount(u, s, a) ==
  LET all == u.accounts \cup {AccountEntry(s, a)}
  IN [u EXCEPT !.accounts = all, !.idx = IF FirstOf(all)[3] = s THEN a.idx ELSE u.idx]

NewUseCase(till, s, a) == [till |-> till, idx |-> a.idx, accounts |-> {AccountEntry(s, a)}]

\* Use cases get new values: each leaves the queue it is in, found by the delay key of its old
\* value, and enters the queue of those with accounts or the one of placeholders.
SetUseCases(new) ==
  LET old == {UseCaseEntry(k, use_cases[k]) : k \in DOMAIN new \cap DOMAIN use_cases}
      entries(keys) == {UseCaseEntry(k, new[k]) : k \in keys}
      busy == {k \in DOMAIN new : new[k].accounts # {}}
  IN /\ use_cases' = [k \in DOMAIN use_cases \cup DOMAIN new |->
                        IF k \in DOMAIN new THEN new[k] ELSE use_cases[k]]
     /\ use_cases_by_delay' = (use_cases_by_delay \ old) \cup entries(busy)
     /\ use_case_placeholders' = (use_case_placeholders \ old) \cup entries(DOMAIN new \ busy)

\* bump_output_idx and drain_placeholders.
BumpOutputIdx ==
  /\ pc = "bump"
  /\ output_idx' = Len(output)
  /\ LET staleUseCases == {e \in use_case_placeholders : e[1] <= output_idx'}
         staleAccounts == {e \in account_placeholders : e[1] <= output_idx'}
     IN IF output_idx' > output_idx
        THEN /\ use_cases' = Without(use_cases, {e[3] : e \in staleUseCases})
             /\ accounts' = Without(accounts, {e[3] : e \in staleAccounts})
             /\ use_case_placeholders' = use_case_placeholders \ staleUseCases
             /\ account_placeholders' = account_placeholders \ staleAccounts
        ELSE UNCHANGED <<use_cases, accounts, use_case_placeholders, account_placeholders>>
  /\ pc' = "ready"
  /\ UNCHANGED <<chosen, txns, input, output, result, aware, input_idx, use_cases_by_delay, failed>>

\* pop_head: the first transaction of the first account of the first use case; the account may be
\* of another use case then.
PopHead ==
  LET entry == FirstOf(use_cases_by_delay)
      key == entry[3]
      head == FirstOf(use_cases[key].accounts)
      s == head[3]
      rest == use_cases[key].accounts \ {head}
      queue == accounts[s].txns
      account == [till |-> output_idx + 1 + config.sender, txns |-> Tail(queue),
                  idx |-> IF Len(queue) > 1 THEN queue[2][1] ELSE accounts[s].idx]
      use_case == [till |-> output_idx + 1 + SpreadFactor(key), accounts |-> rest,
                   idx |-> IF rest = {} THEN use_cases[key].idx ELSE FirstOf(rest)[2]]
      next == Head(account.txns)[2].use_case
  IN /\ accounts' = With(accounts, s, account)
     /\ output' = Append(output, Head(queue)[2])
     /\ failed' = (failed \/ head[1] > entry[1] \/ head[2] # entry[2])
     /\ \/ /\ account.txns = <<>>
           /\ account_placeholders' = account_placeholders \cup {AccountEntry(s, account)}
           /\ SetUseCases([k \in {key} |-> use_case])
        \/ /\ account.txns # <<>>
           /\ next = key
           /\ SetUseCases([k \in {key} |-> AddAccount(use_case, s, account)])
           /\ UNCHANGED account_placeholders
        \/ /\ account.txns # <<>>
           /\ next # key
           /\ SetUseCases([k \in {key, next} |->
                IF k = key THEN use_case
                ELSE IF k \in DOMAIN use_cases THEN AddAccount(use_cases[k], s, account)
                ELSE NewUseCase(output_idx + 1, s, account)])
           /\ UNCHANGED account_placeholders

\* Something that was delayed is ready.
SelectReady ==
  /\ pc = "ready"
  /\ IF use_cases_by_delay # {} /\ FirstOf(use_cases_by_delay)[1] <= output_idx
     THEN PopHead /\ pc' = "bump"
     ELSE pc' = "queue" /\ UNCHANGED <<output, accounts, account_placeholders, places, failed>>
  /\ UNCHANGED <<chosen, txns, input, result, aware, input_idx, output_idx>>

\* queue_txn.
QueueTxn(t) ==
  LET s == t.sender
      k == t.use_case
      item == <<input_idx, t>>
      known == s \in DOMAIN accounts
      account == IF ~ known THEN [till |-> output_idx + 1, idx |-> input_idx, txns |-> <<item>>]
                 ELSE [accounts[s] EXCEPT !.txns = Append(@, item),
                         !.idx = IF accounts[s].txns = <<>> THEN input_idx ELSE @]
  IN /\ accounts' = With(accounts, s, account)
     /\ account_placeholders' = IF known THEN account_placeholders \ {AccountEntry(s, accounts[s])}
                                ELSE account_placeholders
     /\ failed' = (failed \/ (~ known /\ k \notin DOMAIN use_cases))
     /\ IF known /\ accounts[s].txns # <<>>
        THEN UNCHANGED places
        ELSE SetUseCases([u \in {k} |->
               IF k \in DOMAIN use_cases THEN AddAccount(use_cases[k], s, account)
               ELSE NewUseCase(output_idx, s, account)])

\* update_delays_for_selected_txn.
UpdateDelays(t) ==
  LET s == t.sender
      k == t.use_case
      account == [till |-> output_idx + 1 + config.sender, idx |-> input_idx, txns |-> <<>>]
      till == output_idx + 1 + SpreadFactor(k)
  IN /\ SetUseCases([u \in {k} |-> IF k \in DOMAIN use_cases THEN [use_cases[k] EXCEPT !.till = till]
                                   ELSE [till |-> till, idx |-> input_idx, accounts |-> {}]])
     /\ accounts' = With(accounts, s, account)
     /\ account_placeholders' = account_placeholders \cup {AccountEntry(s, account)}
     /\ failed' = (failed \/ s \in DOMAIN accounts
                          \/ (k \in DOMAIN use_cases /\ use_cases[k].accounts = {}))

\* queue_or_return, for the next of the block.
QueueOrReturn ==
  /\ pc = "queue"
  /\ input # <<>>
  /\ input' = Tail(input)
  /\ input_idx' = input_idx + 1
  /\ LET t == Head(input)
         s == t.sender
         k == t.use_case
     IN IF \/ s \in DOMAIN accounts /\ (accounts[s].txns # <<>> \/ accounts[s].till > output_idx)
           \/ k \in DOMAIN use_cases /\ use_cases[k].till > output_idx
        THEN QueueTxn(t) /\ UNCHANGED <<output, pc>>
        ELSE UpdateDelays(t) /\ output' = Append(output, t) /\ pc' = "bump"
  /\ UNCHANGED <<chosen, txns, result, aware, output_idx>>

\* Nothing is ready: the next of what is delayed.
SelectDelayed ==
  /\ pc = "queue"
  /\ input = <<>>
  /\ IF use_cases_by_delay # {}
     THEN PopHead /\ pc' = "bump"
     ELSE pc' = "finalize" /\ UNCHANGED <<output, accounts, account_placeholders, places, failed>>
  /\ UNCHANGED <<chosen, txns, input, result, aware, input_idx, output_idx>>

----------------------------------------------------------------------------
Empty == [x \in {} |-> <<>>]

Init ==
  /\ \E in \in Inputs : config = in.config /\ block = in.block
  /\ pc = "prepare"
  /\ txns = <<>> /\ input = <<>> /\ output = <<>> /\ result = <<>>
  /\ start_index = - config.sender
  /\ senders_in_window = Empty /\ txns_by_senders = Empty /\ ordered_txns = <<>>
  /\ input_idx = 0 /\ output_idx = 0
  /\ accounts = Empty /\ use_cases = Empty
  /\ use_cases_by_delay = {} /\ account_placeholders = {} /\ use_case_placeholders = {}
  /\ failed = FALSE

Next ==
  \/ PrepareBlock \/ Finalize
  \/ AddDropped \/ TakeNext \/ AddFirstPending
  \/ BumpOutputIdx \/ SelectReady \/ QueueOrReturn \/ SelectDelayed

Spec == Init /\ [][Next]_vars

----------------------------------------------------------------------------
Of(s, seq) == SelectSeq(seq, LAMBDA t : t.sender = s)
SendersOf(seq) == {seq[i].sender : i \in DOMAIN seq}
Delayed(s) ==
  IF config.kind = "SenderAware" THEN PendingOf(s)
  ELSE IF s \in DOMAIN accounts
  THEN [i \in DOMAIN accounts[s].txns |-> accounts[s].txns[i][2]]
  ELSE <<>>

\* What is shuffled is the block without what the filter refuses and without the second and later
\* copies of a transaction, however many share its sender and sequence number.
DedupIsExact ==
  pc # "prepare" /\ config.dedup =>
    LET allowed == SelectSeq(block, LAMBDA t : t \notin Refused)
    IN /\ IsInjective(txns)
       /\ ToSet(txns) = ToSet(allowed)
       /\ \A i, j \in DOMAIN txns :
            i < j => \E p, q \in DOMAIN allowed : /\ p < q /\ allowed[p] = txns[i] /\ allowed[q] = txns[j]
                                                  /\ \A r \in 1 .. q - 1 : allowed[r] # txns[j]

\* No transaction is lost or repeated, and those of a sender keep their order, at each moment of the
\* shuffle: what is in the output, then what is delayed, then what is still in the input.
SenderOrderKept ==
  pc # "prepare" => \A s \in SendersOf(txns) : Of(s, txns) = Of(s, output) \o Delayed(s) \o Of(s, input)

\* Whether t, put after the transactions of `before`, is too close to one of its sender or use case.
Conflicts(t, before) ==
  \E i \in DOMAIN before :
    LET distance == Len(before) + 1 - i
    IN IF config.kind = "SenderAware"
       THEN before[i].sender = t.sender /\ distance <= config.sender
       ELSE \/ before[i].sender = t.sender /\ distance <= config.sender
            \/ before[i].use_case = t.use_case /\ distance <= SpreadFactor(t.use_case)

\* A transaction is put too close to another of its sender or use case only when there is nothing
\* else to put there: each sender's next transaction would be too close as well.
SpreadUnlessStuck ==
  output # <<>> /\ txns # output =>
    LET before == Front(output)
    IN Conflicts(Last(output), before) =>
         \A s \in SendersOf(txns) :
           LET k == Len(Of(s, before)) + 1
           IN k \in DOMAIN Of(s, txns) => Conflicts(Of(s, txns)[k], before)

\* The queues of the use case aware shuffler hold each account and use case once, under the key that
\* is now its own: so no strict_insert or strict_remove fails, nor another assertion.
QueuesMatch ==
  /\ ~ failed
  /\ config.kind = "UseCaseAware" =>
       /\ use_cases_by_delay =
            {UseCaseEntry(k, use_cases[k]) : k \in {u \in DOMAIN use_cases : use_cases[u].accounts # {}}}
       /\ use_case_placeholders =
            {UseCaseEntry(k, use_cases[k]) : k \in {u \in DOMAIN use_cases : use_cases[u].accounts = {}}}
       /\ account_placeholders =
            {AccountEntry(s, accounts[s]) : s \in {a \in DOMAIN accounts : accounts[a].txns = <<>>}}
       /\ \A s \in DOMAIN accounts : accounts[s].txns # <<>> =>
            LET k == Head(accounts[s].txns)[2].use_case
            IN \A u \in DOMAIN use_cases :
                 AccountEntry(s, accounts[s]) \in use_cases[u].accounts <=> u = k
       /\ \A queue \in {use_cases_by_delay, use_case_placeholders, account_placeholders} :
            \A e, f \in queue : e[1] = f[1] /\ e[2] = f[2] => e = f

\* When all is done everything is in the output.
AllShuffled == pc \in {"finalize", "done"} => Len(output) = Len(txns)
=============================================================================
