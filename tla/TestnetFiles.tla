---------------------------- MODULE TestnetFiles ----------------------------
(***************************************************************************)
(* "vectord testnet init-files": cmd/vectord/testnet.go writes the files of *)
(* a network of validators into one output directory.  The command may fail *)
(* at every file, or be killed, and be called again on what it has left     *)
(* behind; some failures remove the directory, or what they can of it.      *)
(*                                                                          *)
(* Keys are named after the call that generated them, accounts after the    *)
(* call and the node.  node_key.json is dealt with like the validator's key *)
(* and is left out; the keyring files of an account are one file here.      *)
(***************************************************************************)
EXTENDS Naturals, FiniteSets

CONSTANTS MaxNodes,     \* bound on --v
          StartIP,      \* the last byte of --starting-ip-address
          MaxCalls,     \* bound on the calls of the command
          MaxFailures   \* bound on the file errors and kills

ASSUME NodesAssumption == MaxNodes \in 1 .. 256 /\ StartIP \in 0 .. 255
ASSUME CallsAssumption == MaxCalls \in Nat \ {0} /\ MaxFailures \in Nat

Node == 0 .. MaxNodes - 1
Call == 1 .. MaxCalls

VARIABLES
    pc,        \* what the command does next, "idle" between two calls
    call,      \* the number of the call
    args,      \* its numValidators, singleMachine, and whether its
               \* startingIPAddress is empty
    i,         \* the loop variable of the loop that it is in
    outcome,   \* of the last call
    failures,  \* file errors and kills so far
    halved,    \* history: the last removal of the directory left some of it
    consKey,   \* priv_validator_key.json of each node
    account,   \* the account key in the keyring of each node
    gentx,     \* gentxs/<node>.json
    genesis,   \* genesis.json of each node
    config,    \* config.toml of each node
    appState   \* collectGenFiles: the canonical application state

files == <<consKey, account, gentx, genesis, config>>
vars == <<pc, call, args, i, outcome, failures, halved, files, appState>>

NoTx    == [node |-> 0, account |-> 0, key |-> 0, ip |-> 0, port |-> 0]
NoState == [accounts |-> {}, txs |-> {}]
NoGenesis == [state |-> NoState, time |-> "none"]
NoConfig  == [port |-> 0, peers |-> {}]

(* The keys of the nodes that the call creates: the genesis accounts.       *)
GenAccounts == {[node |-> n, call |-> call] : n \in 0 .. args.v - 1}

(* portOffset and p2pPortStart, which depend on singleMachine.              *)
P2PPort(n) == IF args.single THEN 16656 + n ELSE 26656

(* ExternalIP: an address of the host, which is not in the range.           *)
HostIP == 1000

(* Mutant: the address is a number and does not wrap.                       *)
IPUnwrapped(n) == IF args.noip THEN HostIP ELSE StartIP + n

(* getIP: of the host when no address is given, and otherwise that address  *)
(* with its last byte, which wraps around, incremented n times.             *)
IP(n) == IF args.noip THEN HostIP ELSE (StartIP + n) % 256

GenTx == [node : Node, account : Call, key : Call, ip : 0 .. 255 \cup {HostIP},
          port : {26656} \cup {16656 + n : n \in Node}]
AppState == [accounts : SUBSET [node : Node, call : Call], txs : SUBSET GenTx]

Stages == {"dir", "validator", "key", "seed", "gentx", "save", "collect", "time"}

TypeOK ==
    /\ pc \in Stages \cup {"idle"}
    /\ call \in 0 .. MaxCalls /\ i \in 0 .. MaxNodes
    /\ args \in [v : 0 .. MaxNodes, single : BOOLEAN, noip : BOOLEAN]
    /\ outcome \in {"none", "ok", "failed", "refused"}
    /\ failures \in 0 .. MaxFailures /\ halved \in BOOLEAN
    /\ consKey \in [Node -> {0} \cup Call] /\ account \in [Node -> {0} \cup Call]
    /\ gentx \in [Node -> GenTx \cup {NoTx}]
    /\ \A n \in Node : /\ genesis[n].time \in {"none", "own", "canonical"}
                       /\ genesis[n].state.txs \subseteq GenTx
                       /\ config[n].peers \subseteq GenTx
    /\ appState.txs \subseteq GenTx

(* What there is in the output directory.                                   *)
Present ==
    {f \in {"consKey", "account", "gentx", "genesis", "config"} \X Node :
        CASE f[1] = "consKey" -> consKey[f[2]] # 0
          [] f[1] = "account" -> account[f[2]] # 0
          [] f[1] = "gentx"   -> gentx[f[2]] # NoTx
          [] f[1] = "genesis" -> genesis[f[2]] # NoGenesis
          [] f[1] = "config"  -> config[f[2]] # NoConfig}

(* RemoveAll goes on after an entry that it cannot remove and returns an    *)
(* error, which is ignored; a kill can stop it anywhere: some files stay.   *)
RemoveAllBut(kept) ==
    /\ consKey' = [n \in Node |-> IF <<"consKey", n>> \in kept THEN consKey[n] ELSE 0]
    /\ account' = [n \in Node |-> IF <<"account", n>> \in kept THEN account[n] ELSE 0]
    /\ gentx' = [n \in Node |-> IF <<"gentx", n>> \in kept THEN gentx[n] ELSE NoTx]
    /\ genesis' = [n \in Node |-> IF <<"genesis", n>> \in kept THEN genesis[n] ELSE NoGenesis]
    /\ config' = [n \in Node |-> IF <<"config", n>> \in kept THEN config[n] ELSE NoConfig]
    /\ halved' = (kept # {})

Init ==
    /\ pc = "idle" /\ call = 0 /\ i = 0 /\ outcome = "none" /\ failures = 0
    /\ halved = FALSE
    /\ args = [v |-> 0, single |-> FALSE, noip |-> FALSE]
    /\ consKey = [n \in Node |-> 0] /\ account = [n \in Node |-> 0]
    /\ gentx = [n \in Node |-> NoTx]
    /\ genesis = [n \in Node |-> NoGenesis]
    /\ config = [n \in Node |-> NoConfig]
    /\ appState = NoState

(* A loop goes on with the next node at the stage again, or with the loop   *)
(* of stage next.                                                           *)
NextNode(again, next) ==
    IF i + 1 < args.v THEN pc' = again /\ i' = i + 1 ELSE pc' = next /\ i' = 0

(* The command is called, with room for the keys of another call.  With     *)
(* no validators, all loops are empty.                                      *)
Begin(v, single, noip) ==
    /\ pc = "idle" /\ call < MaxCalls
    /\ call' = call + 1
    /\ args' = [v |-> v, single |-> single, noip |-> noip]
    /\ pc' = IF v = 0 THEN "idle" ELSE "dir"
    /\ outcome' = IF v = 0 THEN "ok" ELSE "none"
    /\ i' = 0 /\ appState' = NoState
    /\ UNCHANGED <<failures, halved, files>>

(* The node's directory and its address.                                    *)
MakeDir ==
    /\ pc = "dir" /\ pc' = "validator"
    /\ UNCHANGED <<call, args, i, outcome, failures, halved, files, appState>>

(* Mutant: keys that are there are generated again.                         *)
RegenerateNodeValidatorFiles ==
    /\ pc = "validator" /\ pc' = "key"
    /\ consKey' = [consKey EXCEPT ![i] = call]
    /\ UNCHANGED <<call, args, i, outcome, failures, halved, account, gentx, genesis, config, appState>>

(* InitializeNodeValidatorFiles generates the keys that are not there.      *)
InitializeNodeValidatorFiles ==
    /\ pc = "validator" /\ pc' = "key"
    /\ consKey' = [consKey EXCEPT ![i] = IF @ = 0 THEN call ELSE @]
    /\ UNCHANGED <<call, args, i, outcome, failures, halved, account, gentx, genesis, config, appState>>

(* Mutant: an account key that is there is used again.                      *)
GenerateSaveCoinKeyOnce ==
    /\ pc = "key" /\ pc' = "seed"
    /\ account' = [account EXCEPT ![i] = IF @ = 0 THEN call ELSE @]
    /\ UNCHANGED <<call, args, i, outcome, failures, halved, consKey, gentx, genesis, config, appState>>

(* GenerateSaveCoinKey overwrites the account key.                          *)
GenerateSaveCoinKey ==
    /\ pc = "key" /\ pc' = "seed"
    /\ account' = [account EXCEPT ![i] = call]
    /\ UNCHANGED <<call, args, i, outcome, failures, halved, consKey, gentx, genesis, config, appState>>

WriteSeed ==
    /\ pc = "seed" /\ pc' = "gentx"
    /\ UNCHANGED <<call, args, i, outcome, failures, halved, files, appState>>

(* Mutant: the memo lacks the port offset of a single machine.              *)
WriteGenTxNoOffset ==
    /\ pc = "gentx"
    /\ gentx' = [gentx EXCEPT ![i] =
          [node |-> i, account |-> account[i], key |-> consKey[i], ip |-> IP(i),
           port |-> P2PPort(0)]]
    /\ NextNode("dir", "save")
    /\ UNCHANGED <<call, args, outcome, failures, halved, consKey, account, genesis, config, appState>>

(* Sign a MsgCreateValidator by the account, with the address of the node   *)
(* as its memo, and write it.                                               *)
WriteGenTx ==
    /\ pc = "gentx"
    /\ gentx' = [gentx EXCEPT ![i] =
          [node |-> i, account |-> account[i], key |-> consKey[i], ip |-> IP(i),
           port |-> P2PPort(i)]]
    /\ NextNode("dir", "save")
    /\ UNCHANGED <<call, args, outcome, failures, halved, consKey, account, genesis, config, appState>>


(* initGenFiles: a genesis with the accounts and without gentxs.            *)
SaveGenesis ==
    /\ pc = "save"
    /\ genesis' = [genesis EXCEPT ![i] = [NoGenesis EXCEPT !.state.accounts = GenAccounts]]
    /\ NextNode("save", "collect")
    /\ UNCHANGED <<call, args, outcome, failures, halved, consKey, account, gentx, config, appState>>

(* CollectTxs reads every file of gentxs/, not only those of this call, and *)
(* returns an error when the account of one is not in the genesis.          *)
GenTxs == {gentx[n] : n \in Node} \ {NoTx}
Funded(t) == [node |-> t.node, call |-> t.account] \in genesis[i].state.accounts

CollectTxsFails ==
    /\ pc = "collect"
    /\ \E t \in GenTxs : ~Funded(t)
    /\ pc' = "idle" /\ outcome' = "refused"
    /\ UNCHANGED <<call, args, i, failures, halved, files, appState>>

(* Mutant: the gentxs are not checked against the accounts.                 *)
CollectTxsUnchecked ==
    /\ pc = "collect" /\ pc' = "time"
    /\ genesis' = [genesis EXCEPT ![i].state.txs = GenTxs, ![i].time = "own"]
    /\ config' = [config EXCEPT ![i] =
          [port |-> P2PPort(i), peers |-> {t \in GenTxs : t.node # i}]]
    /\ appState' = IF appState = NoState THEN genesis'[i].state ELSE appState
    /\ UNCHANGED <<call, args, i, outcome, failures, halved, consKey, account, gentx>>

(* GenAppStateFromConfig of node i: its genesis with the gentxs, and a      *)
(* config.toml with the memos of the other monikers as persistent peers.    *)
CollectTxs ==
    /\ pc = "collect" /\ pc' = "time"
    /\ \A t \in GenTxs : Funded(t)
    /\ genesis' = [genesis EXCEPT ![i].state.txs = GenTxs, ![i].time = "own"]
    /\ config' = [config EXCEPT ![i] =
          [port |-> P2PPort(i), peers |-> {t \in GenTxs : t.node # i}]]
    /\ appState' = IF appState = NoState THEN genesis'[i].state ELSE appState
    /\ UNCHANGED <<call, args, i, outcome, failures, halved, consKey, account, gentx>>

(* ExportGenesisFileWithTime: the canonical state and time.                 *)
ExportGenesisFileWithTime ==
    /\ pc = "time"
    /\ genesis' = [genesis EXCEPT ![i] = [state |-> appState, time |-> "canonical"]]
    /\ NextNode("collect", "idle")
    /\ outcome' = IF i + 1 < args.v THEN outcome ELSE "ok"
    /\ UNCHANGED <<call, args, failures, halved, consKey, account, gentx, config, appState>>

Failing ==
    /\ pc # "idle" /\ pc' = "idle"
    /\ outcome' = "failed"
    /\ failures < MaxFailures /\ failures' = failures + 1
    /\ UNCHANGED <<call, args, i, appState>>

(* An error of the directory, the address, the validator files or the       *)
(* account key removes the output directory, whatever else is in it, or as  *)
(* much of it as can be removed.                                            *)
FailAndRemoveAll ==
    /\ pc \in {"dir", "validator", "key"}
    /\ Failing
    /\ \E kept \in SUBSET Present : RemoveAllBut(kept)

(* All other errors, one of the keyring among them, leave what there is,    *)
(* and so does a kill.                                                      *)
Fail == Failing /\ UNCHANGED <<halved, files>>

(* The bound on calls ends the story.                                       *)
Stopped == pc = "idle" /\ call = MaxCalls /\ UNCHANGED vars

Step ==
    \/ MakeDir \/ InitializeNodeValidatorFiles \/ GenerateSaveCoinKey \/ WriteSeed
    \/ WriteGenTx \/ SaveGenesis \/ CollectTxs \/ CollectTxsFails
    \/ ExportGenesisFileWithTime

Next ==
    \/ \E v \in 0 .. MaxNodes, single, noip \in BOOLEAN : Begin(v, single, noip)
    \/ Step
    \/ FailAndRemoveAll \/ Fail
    \/ Stopped

Spec == Init /\ [][Next]_vars

(* The command runs until it returns.                                       *)
FairSpec == Spec /\ WF_vars(Step)

-----------------------------------------------------------------------------
(* Properties. *)

Mine == {n \in Node : n < args.v}

(* When the command reports success, the files are those of one network:    *)
(* every node has the same genesis (testnet.go:486 "they should not         *)
(* differ"), with one gentx for each node, by the account that the node has *)
(* the key of and for its consensus key; and it knows every other node at   *)
(* the port which that node listens on.  The nodes are told apart by their  *)
(* addresses when an address is given, and by their ports on a single       *)
(* machine; with neither, all have the host's address and the same port.    *)
SuccessIsOneNetwork ==
    outcome = "ok" /\ call > 0 => \A n \in Mine :
        /\ genesis[n] = [state |-> [accounts |-> GenAccounts,
                                    txs |-> {gentx[m] : m \in Mine}],
                         time |-> "canonical"]
        /\ gentx[n].node = n /\ gentx[n].account = account[n] /\ account[n] = call
        /\ gentx[n].key = consKey[n] /\ consKey[n] # 0
        /\ {p.node : p \in config[n].peers} = Mine \ {n}
        /\ \A p \in config[n].peers : /\ p = gentx[p.node]
                                      /\ p.port = config[p.node].port
        /\ ~args.noip => \A m \in Mine : gentx[m].ip = gentx[n].ip => m = n
        /\ args.single => \A m \in Mine : gentx[m].port = gentx[n].port => m = n

(* Whatever files earlier calls left, no genesis has the gentxs of two      *)
(* calls in it, or a gentx whose account has no funds, which would be a     *)
(* chain that cannot start.                                                 *)
NoMixedGenesis ==
    \A n \in Node : LET s == genesis[n].state
                    IN  /\ \A t \in s.txs :
                               [node |-> t.node, call |-> t.account] \in s.accounts
                        /\ \A a, b \in s.accounts : a.call = b.call

(* A failure that leaves the files leaves them for a next call to repair:   *)
(* without another error, only a gentx of a node beyond --v makes it fail.  *)
OnlyStaleGenTxsRefused ==
    outcome = "refused" => \E n \in Node \ Mine : gentx[n] # NoTx

(* A consensus key that some genesis relies on is in the node's directory   *)
(* for as long as that genesis is: a validator can sign, whatever calls,    *)
(* failures and complete removals there have been since.  Only a removal    *)
(* that was itself cut short, of which the command says nothing, can take a *)
(* key and leave the genesis.                                               *)
KeysOfGenesisKept ==
    ~halved => \A n \in Node : \A t \in genesis[n].state.txs : consKey[t.node] = t.key

=============================================================================
