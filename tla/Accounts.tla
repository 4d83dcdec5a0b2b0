------------------------------ MODULE Accounts ------------------------------
(***************************************************************************)
(* What the accounting of a window promises, without how it is done: every *)
(* remote endpoint has an account that holds the set of flows seen with it *)
(* and their bytes; closing a window publishes one record per account that *)
(* holds a flow, with the NUMBER of its flows, and empties all accounts.   *)
(* At most MaxFlows flows are held at a time.  A packet may go uncredited. *)
(*                                                                         *)
(* Aggregator.tla shows that the counters of src/flow.rs (a shared set of  *)
(* flows and a count and a byte sum per endpoint) implement this.          *)
(***************************************************************************)
EXTENDS Flow

CONSTANT Ends      \* labels a closed window may carry

VARIABLES
  accounts,        \* per endpoint: its flows and their bytes
  published        \* the records the last step published

accountVars == <<accounts, published>>

EmptyAccounts == [k \in AggregateKey |-> [flows |-> {}, bytes |-> 0]]

HeldFlows == UNION {accounts[k].flows : k \in AggregateKey}

AccountsInit ==
  /\ accounts = EmptyAccounts
  /\ published = {}

CreditAccount(flow, length) ==
  /\ published' = {}
  /\ accounts' = [accounts EXCEPT ![KeyOf(flow)] =
                    [flows |-> @.flows \cup {flow}, bytes |-> @.bytes + length]]
  /\ Cardinality(HeldFlows \cup {flow}) <= MaxFlows

\* Any other step: it publishes nothing and credits nobody.
PassOver ==
  /\ published' = {}
  /\ UNCHANGED accounts

CloseWindow(end) ==
  /\ published' =
       {[timestamp |-> end,
         external_ip |-> k.external_ip, external_port |-> k.external_port,
         protocol |-> k.protocol,
         flow_count |-> Cardinality(accounts[k].flows),
         flow_byte_sum |-> accounts[k].bytes] :
            k \in {x \in AggregateKey : accounts[x].flows # {}}}
  /\ accounts' = EmptyAccounts

AccountsNext ==
  \/ \E flow \in FlowKey, length \in Length : CreditAccount(flow, length)
  \/ PassOver
  \/ \E end \in Ends : CloseWindow(end)

AccountsSpec == AccountsInit /\ [][AccountsNext]_accountVars
=============================================================================
