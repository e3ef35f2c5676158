------------------------ MODULE TestnetFiles_proofs -------------------------
(***************************************************************************)
(* Proofs about TestnetFiles: what the files of "testnet init-files" are,   *)
(* for any number of nodes up to 256, any address, any calls and failures.  *)
(***************************************************************************)
EXTENDS TestnetFiles, TLAPS

(* TypeOK, and the types of what it says nothing of.                        *)
Genesis == [state : AppState, time : {"none", "own", "canonical"}]
Config  == [port : Nat, peers : SUBSET GenTx]

Types ==
    /\ TypeOK
    /\ args.v \in 0 .. MaxNodes
    /\ genesis \in [Node -> Genesis] /\ config \in [Node -> Config]
    /\ appState \in AppState

(* A gentx is for the consensus key that its node has, unless a removal was  *)
(* cut short.                                                               *)
KeysOfGenTxsKept ==
    \A n \in Node : gentx[n] # NoTx =>
        /\ gentx[n].node = n
        /\ ~halved => gentx[n].key = consKey[n]

(* A chain that can start: the funds of one call, and gentxs paid by them.  *)
Unmixed(s) ==
    /\ \A t \in s.txs : [node |-> t.node, call |-> t.account] \in s.accounts
    /\ \A a, b \in s.accounts : a.call = b.call

KeysKept(s) == \A t \in s.txs : consKey[t.node] = t.key

Canonical == pc \in {"collect", "time"} => Unmixed(appState) /\ KeysKept(appState)

(* What this call has written.                                              *)
Signed(n) ==
    /\ gentx[n] = [node |-> n, account |-> call, key |-> consKey[n], ip |-> IP(n),
                   port |-> P2PPort(n)]
    /\ account[n] = call /\ consKey[n] # 0

Peers(n) == {gentx[m] : m \in Mine \ {n}}

TheState == [accounts |-> GenAccounts, txs |-> {gentx[m] : m \in Mine}]

Configured(n) == config[n] = [port |-> P2PPort(n), peers |-> Peers(n)]

Finished(n) == genesis[n] = [state |-> TheState, time |-> "canonical"] /\ Configured(n)

Only == \A n \in Node : gentx[n] # NoTx => n \in Mine

(* How far a call has got, loop by loop.                                    *)
FirstLoop ==
    pc \in {"dir", "validator", "key", "seed", "gentx"} =>
        /\ \A n \in Node : n < i => Signed(n)
        /\ pc \in {"key", "seed", "gentx"} => consKey[i] # 0
        /\ pc \in {"seed", "gentx"} => account[i] = call

SecondLoop ==
    pc = "save" =>
        /\ \A n \in Mine : Signed(n)
        /\ \A n \in Node : n < i => genesis[n].state.accounts = GenAccounts

ThirdLoop ==
    pc \in {"collect", "time"} =>
        /\ \A n \in Mine : Signed(n)
        /\ \A n \in Mine : n >= i => genesis[n].state.accounts = GenAccounts
        /\ IF i = 0 /\ pc = "collect" THEN appState = NoState ELSE appState = TheState /\ Only
        /\ \A n \in Node : n < i => Finished(n)
        /\ pc = "time" => Configured(i)

Stage ==
    /\ pc # "idle" => i < args.v /\ outcome = "none" /\ call \in Call
    /\ pc \notin {"idle", "collect", "time"} => appState = NoState
    /\ FirstLoop /\ SecondLoop /\ ThirdLoop
    /\ outcome = "ok" => \A n \in Mine : Signed(n) /\ Finished(n)

IInv ==
    /\ Types /\ KeysOfGenTxsKept /\ KeysOfGenesisKept /\ NoMixedGenesis /\ Canonical
    /\ Stage /\ OnlyStaleGenTxsRefused

-----------------------------------------------------------------------------
(* Constants and types. *)

LEMMA Bounds ==
    /\ MaxNodes \in Nat /\ MaxCalls \in Nat /\ MaxFailures \in Nat /\ StartIP \in 0 .. 255
    /\ Node \subseteq Nat /\ Call \subseteq Nat /\ 0 \notin Call
    /\ 0 .. MaxNodes \subseteq Nat
BY NodesAssumption, CallsAssumption DEF Node, Call

(* NoTx is no gentx: its key is none.                                       *)
LEMMA NoTxIsNone == NoTx \notin GenTx
BY Bounds DEF NoTx, GenTx

(* Nodes of this call are nodes.                                            *)
LEMMA MineAreNodes ==
    ASSUME args.v \in 0 .. MaxNodes
    PROVE  Mine = 0 .. args.v - 1 /\ Mine \subseteq Node
BY Bounds DEF Mine, Node

LEMMA GenAccountsType ==
    ASSUME args.v \in 0 .. MaxNodes, call \in Call
    PROVE  /\ GenAccounts \in SUBSET [node : Node, call : Call]
           /\ \A a \in GenAccounts : a.call = call
BY Bounds DEF GenAccounts, Node

(* The command's own node and call are in range while it runs.              *)
LEMMA Running ==
    ASSUME Types, Stage, pc # "idle"
    PROVE  /\ i \in Node /\ i \in Nat /\ args.v \in Nat /\ i < args.v /\ args.v <= MaxNodes
           /\ call \in Call /\ outcome = "none" /\ i \in Mine
BY Bounds DEF Types, TypeOK, Stage, Node, Mine

LEMMA GenTxType ==
    ASSUME NEW n \in Node, args \in [v : 0 .. MaxNodes, single : BOOLEAN, noip : BOOLEAN],
           NEW a \in Call, NEW k \in Call
    PROVE  [node |-> n, account |-> a, key |-> k, ip |-> IP(n), port |-> P2PPort(n)]
               \in GenTx
<1>1. IP(n) \in 0 .. 255 \cup {HostIP}
  BY Bounds DEF IP
<1>2. P2PPort(n) \in {26656} \cup {16656 + m : m \in Node}
  BY DEF P2PPort, IP
<1> QED
  BY <1>1, <1>2 DEF GenTx

LEMMA SignedGenTx ==
    ASSUME NEW n, Signed(n)
    PROVE  /\ gentx[n].node = n /\ gentx[n].account = call /\ gentx[n].key = consKey[n]
           /\ gentx[n] # NoTx
BY DEF Signed, NoTx

LEMMA InitInv == Init => IInv
<1> SUFFICES ASSUME Init PROVE IInv
  OBVIOUS
<1> USE Bounds
<1>1. NoState \in AppState /\ NoGenesis \in Genesis /\ NoConfig \in Config
  BY DEF NoState, AppState, NoGenesis, Genesis, NoConfig, Config
<1>2. Types
  <2>1. args \in [v : 0 .. MaxNodes, single : BOOLEAN, noip : BOOLEAN] /\ args.v = 0
    <3>1. args = [v |-> 0, single |-> FALSE, noip |-> FALSE] /\ 0 \in 0 .. MaxNodes
      BY DEF Init
    <3> HIDE Bounds
    <3> QED  BY <3>1
  <2>2. halved \in BOOLEAN /\ failures \in 0 .. MaxFailures
    <3>1. halved = FALSE /\ failures = 0
      BY DEF Init
    <3>2. 0 \in 0 .. MaxFailures
      OBVIOUS
    <3> HIDE Bounds
    <3> QED  BY <3>1, <3>2
  <2>3. pc \in Stages \cup {"idle"} /\ outcome \in {"none", "ok", "failed", "refused"}
    BY DEF Init
  <2>4. call \in 0 .. MaxCalls /\ i \in 0 .. MaxNodes /\ args.v \in 0 .. MaxNodes
    BY <2>1, NodesAssumption, CallsAssumption DEF Init
  <2>5. /\ consKey \in [Node -> {0} \cup Call] /\ account \in [Node -> {0} \cup Call]
        /\ gentx \in [Node -> GenTx \cup {NoTx}]
    BY DEF Init
  <2>6. genesis \in [Node -> Genesis] /\ config \in [Node -> Config] /\ appState \in AppState
    BY <1>1 DEF Init
  <2>7. \A n \in Node : /\ genesis[n].time \in {"none", "own", "canonical"}
                        /\ genesis[n].state.txs \subseteq GenTx
                        /\ config[n].peers \subseteq GenTx
    BY DEF Init, NoGenesis, NoConfig, NoState
  <2>8. appState.txs \subseteq GenTx
    BY DEF Init, NoState
  <2> QED
    BY <2>1, <2>2, <2>3, <2>4, <2>5, <2>6, <2>7, <2>8 DEF Types, TypeOK
<1>3. KeysOfGenTxsKept /\ KeysOfGenesisKept /\ NoMixedGenesis
  BY DEF Init, KeysOfGenTxsKept, KeysOfGenesisKept, NoMixedGenesis, NoGenesis, NoState
<1>4. Canonical /\ Stage /\ OnlyStaleGenTxsRefused
  BY DEF Init, Canonical, Stage, FirstLoop, SecondLoop, ThirdLoop, OnlyStaleGenTxsRefused
<1> QED
  BY <1>2, <1>3, <1>4 DEF IInv

-----------------------------------------------------------------------------
(* Every action keeps the invariant. *)

LEMMA BeginKeeps ==
    ASSUME IInv, NEW v \in 0 .. MaxNodes, NEW single \in BOOLEAN, NEW noip \in BOOLEAN,
           Begin(v, single, noip)
    PROVE  IInv'
<1> USE Bounds DEF Begin, files
<1>1. NoState \in AppState
  BY DEF NoState, AppState
<1>2. Types'
  BY <1>1 DEF IInv, Types, TypeOK, NoState, Stages
<1>3. KeysOfGenTxsKept' /\ KeysOfGenesisKept' /\ NoMixedGenesis'
  BY DEF IInv, KeysOfGenTxsKept, KeysOfGenesisKept, NoMixedGenesis
<1>4. call' \in Call
  BY DEF IInv, Types, TypeOK, Call
<1>5. Canonical' /\ OnlyStaleGenTxsRefused'
  BY DEF IInv, Canonical, OnlyStaleGenTxsRefused
<1>6. v = 0 => Mine' = {}
  BY DEF Mine, Node
<1>7. Stage'
  BY <1>4, <1>6 DEF Stage, FirstLoop, SecondLoop, ThirdLoop, Node
<1> QED
  BY <1>2, <1>3, <1>5, <1>7 DEF IInv

LEMMA MakeDirKeeps == IInv /\ MakeDir => IInv'
<1> SUFFICES ASSUME IInv, MakeDir PROVE IInv'
  OBVIOUS
<1> USE Bounds DEF MakeDir, files
<1>2. Types'
  BY DEF IInv, Types, TypeOK, Stages
<1>3. KeysOfGenTxsKept' /\ KeysOfGenesisKept' /\ NoMixedGenesis'
  BY DEF IInv, KeysOfGenTxsKept, KeysOfGenesisKept, NoMixedGenesis
<1>4. Canonical' /\ OnlyStaleGenTxsRefused'
  BY DEF IInv, Canonical, OnlyStaleGenTxsRefused, Mine
<1>5. Stage'
  BY DEF IInv, Stage, FirstLoop, SecondLoop, ThirdLoop, Signed, P2PPort, IP
<1> QED
  BY <1>2, <1>3, <1>4, <1>5 DEF IInv

LEMMA WriteSeedKeeps == IInv /\ WriteSeed => IInv'
<1> SUFFICES ASSUME IInv, WriteSeed PROVE IInv'
  OBVIOUS
<1> USE Bounds DEF WriteSeed, files
<1>2. Types'
  BY DEF IInv, Types, TypeOK, Stages
<1>3. KeysOfGenTxsKept' /\ KeysOfGenesisKept' /\ NoMixedGenesis'
  BY DEF IInv, KeysOfGenTxsKept, KeysOfGenesisKept, NoMixedGenesis
<1>4. Canonical' /\ OnlyStaleGenTxsRefused'
  BY DEF IInv, Canonical, OnlyStaleGenTxsRefused, Mine
<1>5. Stage'
  BY DEF IInv, Stage, FirstLoop, SecondLoop, ThirdLoop, Signed, P2PPort, IP
<1> QED
  BY <1>2, <1>3, <1>4, <1>5 DEF IInv

(* Nothing that a gentx or a genesis relies on is generated again, because  *)
(* the key in it is a key.                                                  *)
LEMMA InitializeKeeps == IInv /\ InitializeNodeValidatorFiles => IInv'
<1> SUFFICES ASSUME IInv, InitializeNodeValidatorFiles PROVE IInv'
  OBVIOUS
<1> USE Bounds DEF InitializeNodeValidatorFiles
<1>1. i \in Node /\ call \in Call /\ outcome = "none"
  BY Running DEF IInv
<1>2. consKey \in [Node -> {0} \cup Call]
  BY DEF IInv, Types, TypeOK
<1>3. /\ consKey' \in [Node -> {0} \cup Call] /\ consKey'[i] # 0
      /\ \A n \in Node : consKey[n] # 0 => consKey'[n] = consKey[n]
  BY <1>1, <1>2
<1>4. Types'
  BY <1>3 DEF IInv, Types, TypeOK, Stages
<1>5. \A t \in GenTx : t.node \in Node /\ t.key # 0
  BY DEF GenTx
<1>6. KeysOfGenTxsKept'
  <2> SUFFICES ASSUME NEW n \in Node, gentx[n] # NoTx
               PROVE  gentx[n].node = n /\ (~halved => gentx[n].key = consKey'[n])
    BY DEF KeysOfGenTxsKept
  <2>1. gentx[n] \in GenTx
    BY DEF IInv, Types, TypeOK
  <2>2. gentx[n].node = n /\ (~halved => gentx[n].key = consKey[n])
    BY DEF IInv, KeysOfGenTxsKept
  <2>3. ~halved => consKey[n] # 0
    BY <1>5, <2>1, <2>2
  <2> QED
    BY <1>3, <2>2, <2>3
<1>7. KeysOfGenesisKept' /\ NoMixedGenesis'
  <2>1. \A n \in Node : \A t \in genesis[n].state.txs : t \in GenTx
    BY DEF IInv, Types, TypeOK
  <2> QED
    BY <1>3, <1>5, <2>1 DEF IInv, KeysOfGenesisKept, NoMixedGenesis
<1>8. Canonical' /\ OnlyStaleGenTxsRefused'
  BY <1>1 DEF Canonical, OnlyStaleGenTxsRefused
<1>9. \A n \in Node : Signed(n) => Signed(n)'
  BY <1>3 DEF Signed, P2PPort, IP
<1>10. Stage'
  BY <1>1, <1>3, <1>9 DEF IInv, Stage, FirstLoop, SecondLoop, ThirdLoop
<1> QED
  BY <1>4, <1>6, <1>7, <1>8, <1>10 DEF IInv

LEMMA GenerateKeeps == IInv /\ GenerateSaveCoinKey => IInv'
<1> SUFFICES ASSUME IInv, GenerateSaveCoinKey PROVE IInv'
  OBVIOUS
<1> USE Bounds DEF GenerateSaveCoinKey
<1>1. i \in Node /\ call \in Call /\ outcome = "none"
  BY Running DEF IInv
<1>2. /\ account \in [Node -> {0} \cup Call]
      /\ account' \in [Node -> {0} \cup Call] /\ account'[i] = call
      /\ \A n \in Node : n # i => account'[n] = account[n]
  BY <1>1 DEF IInv, Types, TypeOK
<1>3. Types'
  BY <1>2 DEF IInv, Types, TypeOK, Stages
<1>4. KeysOfGenTxsKept' /\ KeysOfGenesisKept' /\ NoMixedGenesis'
  BY DEF IInv, KeysOfGenTxsKept, KeysOfGenesisKept, NoMixedGenesis
<1>5. Canonical' /\ OnlyStaleGenTxsRefused'
  BY <1>1 DEF Canonical, OnlyStaleGenTxsRefused
<1>6. \A n \in Node : n # i /\ Signed(n) => Signed(n)'
  BY <1>2 DEF Signed, P2PPort, IP
<1>7. Stage'
  BY <1>1, <1>2, <1>6 DEF IInv, Stage, FirstLoop, SecondLoop, ThirdLoop
<1> QED
  BY <1>3, <1>4, <1>5, <1>7 DEF IInv

LEMMA WriteGenTxKeeps == IInv /\ WriteGenTx => IInv'
<1> SUFFICES ASSUME IInv, WriteGenTx PROVE IInv'
  OBVIOUS
<1> DEFINE tx == [node |-> i, account |-> account[i], key |-> consKey[i],
                  ip |-> IP(i), port |-> P2PPort(i)]
<1> USE Bounds DEF WriteGenTx, NextNode
<1>1. /\ i \in Node /\ i \in Nat /\ args.v \in Nat /\ i < args.v /\ args.v <= MaxNodes
      /\ call \in Call /\ outcome = "none"
  BY Running DEF IInv
<1>2. consKey[i] # 0 /\ consKey[i] \in Call /\ account[i] = call
  BY <1>1 DEF IInv, Types, TypeOK, Stage, FirstLoop
<1>3. tx \in GenTx
  BY <1>1, <1>2, GenTxType DEF IInv, Types, TypeOK
<1>4. /\ gentx \in [Node -> GenTx \cup {NoTx}] /\ gentx' \in [Node -> GenTx \cup {NoTx}]
      /\ gentx'[i] = tx /\ \A n \in Node : n # i => gentx'[n] = gentx[n]
  BY <1>1, <1>3 DEF IInv, Types, TypeOK
<1>5. tx.node = i /\ tx.key = consKey[i]
  OBVIOUS
<1>6. i' \in 0 .. MaxNodes
  BY <1>1
<1>7. Types'
  BY <1>4, <1>6 DEF IInv, Types, TypeOK, Stages
<1>8. KeysOfGenTxsKept'
  <2> HIDE DEF tx
  <2> QED
    BY <1>4, <1>5 DEF IInv, KeysOfGenTxsKept
<1>9. KeysOfGenesisKept' /\ NoMixedGenesis'
  BY DEF IInv, KeysOfGenesisKept, NoMixedGenesis
<1>10. Canonical' /\ OnlyStaleGenTxsRefused'
  BY <1>1 DEF Canonical, OnlyStaleGenTxsRefused
<1>11. \A n \in Node : n # i /\ Signed(n) => Signed(n)'
  BY <1>4 DEF Signed, P2PPort, IP
<1>12. \A n \in Node : n = i => Signed(n)'
  <2>1. gentx'[i] = [node |-> i, account |-> call, key |-> consKey[i],
                     ip |-> IP(i), port |-> P2PPort(i)]
    BY <1>2, <1>4
  <2> QED
    BY <1>1, <1>2, <2>1 DEF Signed, P2PPort, IP
<1>13. Stage'
  <2> HIDE DEF tx
  <2>1. \A n \in Node : n <= i => Signed(n)'
    BY <1>1, <1>11, <1>12 DEF IInv, Stage, FirstLoop
  <2>2. CASE i + 1 < args.v
    BY <1>1, <2>1, <2>2 DEF IInv, Stage, FirstLoop, SecondLoop, ThirdLoop
  <2>3. CASE ~(i + 1 < args.v)
    <3>1. \A n \in Mine : n <= i
      BY <1>1, <2>3 DEF Mine
    <3> QED
      BY <1>1, <2>1, <2>3, <3>1 DEF IInv, Stage, FirstLoop, SecondLoop, ThirdLoop, Mine
  <2> QED
    BY <2>2, <2>3
<1> QED
  BY <1>7, <1>8, <1>9, <1>10, <1>13 DEF IInv

LEMMA SaveGenesisKeeps == IInv /\ SaveGenesis => IInv'
<1> SUFFICES ASSUME IInv, SaveGenesis PROVE IInv'
  OBVIOUS
<1> DEFINE new == [NoGenesis EXCEPT !.state.accounts = GenAccounts]
<1> USE Bounds DEF SaveGenesis, NextNode
<1>1. /\ i \in Node /\ i \in Nat /\ args.v \in Nat /\ i < args.v /\ args.v <= MaxNodes
      /\ args.v \in 0 .. MaxNodes /\ call \in Call /\ outcome = "none"
  BY Running DEF IInv
<1>2. new = [state |-> [accounts |-> GenAccounts, txs |-> {}], time |-> "none"]
  <2> HIDE DEF SaveGenesis
  <2> QED
    BY DEF NoGenesis, NoState
<1>3. new \in Genesis /\ new.state.txs = {} /\ new.state.accounts = GenAccounts
  BY <1>1, <1>2, GenAccountsType DEF Genesis, AppState
<1>4. /\ genesis \in [Node -> Genesis] /\ genesis' \in [Node -> Genesis]
      /\ genesis'[i] = new /\ \A n \in Node : n # i => genesis'[n] = genesis[n]
  BY <1>1, <1>3 DEF IInv, Types
<1>5. i' \in 0 .. MaxNodes
  BY <1>1
<1> HIDE DEF new
<1>6. Types'
  BY <1>3, <1>4, <1>5 DEF IInv, Types, TypeOK, Stages, Genesis, AppState
<1>7. KeysOfGenTxsKept' /\ KeysOfGenesisKept' /\ NoMixedGenesis'
  <2>1. KeysOfGenTxsKept'
    BY DEF IInv, KeysOfGenTxsKept
  <2>2. KeysOfGenesisKept'
    BY <1>3, <1>4 DEF IInv, KeysOfGenesisKept
  <2>3. \A a, b \in GenAccounts : a.call = b.call
    BY <1>1, GenAccountsType
  <2>4. ASSUME NEW n \in Node
        PROVE  Unmixed(genesis'[n].state)
    <3>1. CASE n = i
      BY <1>3, <1>4, <2>3, <3>1 DEF Unmixed
    <3>2. CASE n # i
      BY <1>4, <3>2 DEF IInv, NoMixedGenesis, Unmixed
    <3> QED
      BY <3>1, <3>2
  <2>5. NoMixedGenesis'
    BY <2>4 DEF NoMixedGenesis, Unmixed
  <2> QED
    BY <2>1, <2>2, <2>5
<1>8. appState = NoState
  BY DEF IInv, Stage
<1>9. Canonical' /\ OnlyStaleGenTxsRefused'
  BY <1>1, <1>8 DEF Canonical, OnlyStaleGenTxsRefused, Unmixed, KeysKept, NoState
<1>10. /\ \A n \in Node : Signed(n)' = Signed(n)
       /\ Mine' = Mine /\ GenAccounts' = GenAccounts
  BY DEF Signed, P2PPort, IP, Mine, GenAccounts
<1>11. Stage'
  <2>1. \A n \in Node : n <= i => genesis'[n].state.accounts = GenAccounts
    BY <1>1, <1>3, <1>4 DEF IInv, Stage, SecondLoop
  <2>2. \A n \in Mine : n \in Node /\ n \in Nat /\ Signed(n)
    BY DEF IInv, Stage, SecondLoop, Mine
  <2>3. CASE i + 1 < args.v
    BY <1>1, <1>8, <1>10, <2>1, <2>2, <2>3 DEF IInv, Stage, FirstLoop, SecondLoop, ThirdLoop
  <2>4. CASE ~(i + 1 < args.v)
    <3>1. \A n \in Mine : n <= i
      BY <1>1, <2>4 DEF Mine
    <3> QED
      BY <1>1, <1>8, <1>10, <2>1, <2>2, <2>4, <3>1
      DEF IInv, Stage, FirstLoop, SecondLoop, ThirdLoop
  <2> QED
    BY <2>3, <2>4
<1> QED
  BY <1>6, <1>7, <1>9, <1>11 DEF IInv

(* Only the gentx of a node beyond this call's can be refused: those of its *)
(* own nodes are by the accounts that it has funded.                        *)
LEMMA CollectTxsFailsKeeps == IInv /\ CollectTxsFails => IInv'
<1> SUFFICES ASSUME IInv, CollectTxsFails PROVE IInv'
  OBVIOUS
<1> USE Bounds DEF CollectTxsFails, files
<1>1. /\ i \in Node /\ i \in Mine /\ i \in Nat /\ call \in Call /\ args.v \in 0 .. MaxNodes
  BY Running DEF IInv
<1>2. Types'
  BY DEF IInv, Types, TypeOK, Stages
<1>3. KeysOfGenTxsKept' /\ KeysOfGenesisKept' /\ NoMixedGenesis' /\ Canonical'
  BY DEF IInv, KeysOfGenTxsKept, KeysOfGenesisKept, NoMixedGenesis, Canonical
<1>4. PICK n \in Node : gentx[n] # NoTx /\ ~Funded(gentx[n])
  BY DEF GenTxs
<1>5. n \notin Mine
  <2> SUFFICES ASSUME n \in Mine PROVE FALSE
    OBVIOUS
  <2>1. Signed(n) /\ genesis[i].state.accounts = GenAccounts
    BY <1>1 DEF IInv, Stage, ThirdLoop
  <2>2. gentx[n].node = n /\ gentx[n].account = call
    BY <2>1 DEF Signed
  <2>3. n \in 0 .. args.v - 1
    BY <1>1, MineAreNodes
  <2> QED
    BY <1>4, <2>1, <2>2, <2>3 DEF Funded, GenAccounts
<1>6. OnlyStaleGenTxsRefused'
  BY <1>4, <1>5 DEF OnlyStaleGenTxsRefused, Mine
<1>7. Stage'
  BY DEF Stage, FirstLoop, SecondLoop, ThirdLoop
<1> QED
  BY <1>2, <1>3, <1>6, <1>7 DEF IInv

(* All gentxs are paid by the accounts of this call, and so they are those  *)
(* of its nodes: the state of this genesis is that of every other.          *)
LEMMA CollectTxsKeeps == IInv /\ CollectTxs => IInv'
<1> SUFFICES ASSUME IInv, CollectTxs PROVE IInv'
  OBVIOUS
<1> DEFINE cfg == [port |-> P2PPort(i), peers |-> {t \in GenTxs : t.node # i}]
           new == [genesis[i] EXCEPT !.state.txs = GenTxs, !.time = "own"]
<1> USE Bounds
<1>1. /\ i \in Node /\ i \in Mine /\ i \in Nat /\ call \in Call /\ args.v \in 0 .. MaxNodes
      /\ outcome = "none" /\ i < args.v
  BY Running DEF IInv, CollectTxs
<1>2. /\ pc = "collect" /\ pc' = "time" /\ \A t \in GenTxs : Funded(t)
      /\ genesis' = [genesis EXCEPT ![i] = new] /\ config' = [config EXCEPT ![i] = cfg]
      /\ UNCHANGED <<call, args, i, outcome, failures, halved, consKey, account, gentx>>
  BY DEF CollectTxs
<1>3. GenTxs \subseteq GenTx
  BY DEF GenTxs, IInv, Types, TypeOK
<1>4. P2PPort(i) \in Nat
  BY <1>1 DEF P2PPort, IP
<1>5. /\ genesis \in [Node -> Genesis] /\ config \in [Node -> Config]
      /\ appState \in AppState /\ genesis[i] \in Genesis
  BY <1>1 DEF IInv, Types
<1>6. new = [state |-> [accounts |-> GenAccounts, txs |-> GenTxs], time |-> "own"]
  <2>1. genesis[i].state.accounts = GenAccounts
    BY <1>1, <1>2 DEF IInv, Stage, ThirdLoop
  <2>2. genesis[i] = [state |-> [accounts |-> GenAccounts, txs |-> genesis[i].state.txs],
                      time |-> genesis[i].time]
    BY <1>5, <2>1 DEF Genesis, AppState
  <2> DEFINE h == [genesis[i] EXCEPT !.state.txs = GenTxs]
  <2>3. new = [h EXCEPT !.time = "own"]
    OBVIOUS
  <2>4. h = [state |-> [accounts |-> GenAccounts, txs |-> GenTxs], time |-> genesis[i].time]
    BY <2>2
  <2> HIDE DEF h, new
  <2> QED
    BY <2>3, <2>4
<1>7. /\ GenAccounts \in SUBSET [node : Node, call : Call]
      /\ \A a \in GenAccounts : a.call = call
      /\ GenAccounts # {}
  <2>1. 0 \in 0 .. args.v - 1
    BY <1>1
  <2> QED
    BY <1>1, <2>1, GenAccountsType DEF GenAccounts
<1>8. new \in Genesis /\ cfg \in Config /\ new.state \in AppState
  <2>1. cfg \in Config
    BY <1>3, <1>4 DEF Config
  <2>2. [accounts |-> GenAccounts, txs |-> GenTxs] \in AppState
    BY <1>3, <1>7 DEF AppState
  <2> HIDE DEF new
  <2> QED
    BY <1>6, <2>1, <2>2 DEF Genesis
<1>9. /\ genesis' \in [Node -> Genesis] /\ config' \in [Node -> Config]
      /\ genesis'[i] = new /\ config'[i] = cfg
      /\ \A n \in Node : n # i => genesis'[n] = genesis[n] /\ config'[n] = config[n]
  BY <1>1, <1>2, <1>5, <1>8
<1>10. \A m \in Mine : m \in Node /\ Signed(m)
  BY <1>1, <1>2, MineAreNodes DEF IInv, Stage, ThirdLoop
<1>11. Only
  <2> SUFFICES ASSUME NEW n \in Node, gentx[n] # NoTx PROVE n \in Mine
    BY DEF Only
  <2>1. Funded(gentx[n]) /\ gentx[n].node = n
    BY <1>2 DEF GenTxs, IInv, KeysOfGenTxsKept
  <2>2. [node |-> n, call |-> gentx[n].account] \in GenAccounts
    BY <1>1, <1>2, <2>1 DEF Funded, IInv, Stage, ThirdLoop
  <2>3. n \in 0 .. args.v - 1
    BY <2>2 DEF GenAccounts
  <2> QED
    BY <1>1, <2>3, MineAreNodes
<1>12. GenTxs = {gentx[m] : m \in Mine}
  <2>1. ASSUME NEW m \in Mine PROVE gentx[m] # NoTx
    BY <1>10, SignedGenTx
  <2> QED
    BY <1>10, <1>11, <2>1 DEF GenTxs, Only
<1>13. new.state = TheState
  BY <1>6, <1>12 DEF TheState
<1>14. cfg.peers = Peers(i)
  <2>1. ASSUME NEW m \in Mine PROVE gentx[m].node = m
    BY <1>10, SignedGenTx
  <2>2. {t \in GenTxs : t.node # i} = {gentx[m] : m \in Mine \ {i}}
    BY <1>12, <2>1
  <2> QED
    BY <2>2 DEF Peers
<1>15. appState' = TheState /\ TheState # NoState
  <2>1. TheState # NoState
    BY <1>7 DEF TheState, NoState
  <2>2. appState = NoState => appState' = genesis'[i].state
    BY DEF CollectTxs
  <2>3. appState # NoState => appState' = appState /\ appState = TheState
    BY <1>2 DEF CollectTxs, IInv, Stage, ThirdLoop
  <2> QED
    BY <1>9, <1>13, <2>1, <2>2, <2>3
<1>16. Unmixed(TheState)
  <2>1. genesis[i].state.accounts = GenAccounts
    BY <1>1, <1>2 DEF IInv, Stage, ThirdLoop
  <2>2. \A t \in GenTxs : [node |-> t.node, call |-> t.account] \in GenAccounts
    BY <1>2, <2>1 DEF Funded
  <2> QED
    BY <1>7, <1>12, <2>2 DEF Unmixed, TheState
<1>17. KeysKept(TheState)
  <2> SUFFICES ASSUME NEW m \in Mine PROVE consKey[gentx[m].node] = gentx[m].key
    BY DEF KeysKept, TheState
  <2> QED
    BY <1>10, SignedGenTx
<1> HIDE DEF new, cfg
<1>18. Types'
  <2>1. TypeOK'
    <3>1. \A n \in Node : /\ genesis'[n].time \in {"none", "own", "canonical"}
                          /\ genesis'[n].state.txs \subseteq GenTx
                          /\ config'[n].peers \subseteq GenTx
      BY <1>9 DEF Genesis, AppState, Config
    <3>2. appState'.txs \subseteq GenTx
      BY <1>8, <1>13, <1>15 DEF AppState
    <3> QED
      BY <1>2, <3>1, <3>2 DEF IInv, Types, TypeOK, Stages
  <2> QED
    BY <1>1, <1>2, <1>8, <1>9, <1>13, <1>15, <2>1 DEF Types
<1>19. KeysOfGenTxsKept' /\ OnlyStaleGenTxsRefused'
  BY <1>1, <1>2 DEF IInv, KeysOfGenTxsKept, OnlyStaleGenTxsRefused
<1>20. KeysOfGenesisKept'
  <2> SUFFICES ASSUME NEW n \in Node, ~halved PROVE KeysKept(genesis'[n].state)
    BY <1>2 DEF KeysOfGenesisKept, KeysKept
  <2>1. CASE n = i
    BY <1>9, <1>13, <1>17, <2>1
  <2>2. CASE n # i
    BY <1>9, <2>2 DEF IInv, KeysOfGenesisKept, KeysKept
  <2> QED
    BY <2>1, <2>2
<1>21. NoMixedGenesis'
  <2> SUFFICES ASSUME NEW n \in Node PROVE Unmixed(genesis'[n].state)
    BY DEF NoMixedGenesis, Unmixed
  <2>1. CASE n = i
    BY <1>9, <1>13, <1>16, <2>1
  <2>2. CASE n # i
    BY <1>9, <2>2 DEF IInv, NoMixedGenesis, Unmixed
  <2> QED
    BY <2>1, <2>2
<1>22. Canonical'
  BY <1>2, <1>15, <1>16, <1>17 DEF Canonical, KeysKept, Unmixed
<1>23. Stage'
  <2>1. /\ \A n \in Node : (n < i)' => Finished(n)'
        /\ \A n \in Node : n = i => Configured(n)'
    <3>1. ASSUME NEW n \in Node, n < i PROVE Finished(n)'
      <4>1. Finished(n) /\ n # i
        BY <1>1, <1>2, <3>1 DEF IInv, Stage, ThirdLoop
      <4> QED
        BY <1>2, <1>9, <4>1
        DEF Finished, Configured, Peers, P2PPort, IP, Mine, TheState, GenAccounts
    <3>2. ASSUME NEW n \in Node, n = i PROVE Configured(n)'
      <4>1. config'[i] = [port |-> P2PPort(i), peers |-> Peers(i)]
        BY <1>9, <1>14 DEF cfg
      <4> QED
        BY <1>2, <3>2, <4>1 DEF Configured, Peers, P2PPort, IP, Mine
    <3> QED
      BY <1>2, <3>1, <3>2
  <2>2. /\ \A n \in Mine : Signed(n)'
        /\ Mine' = Mine /\ GenAccounts' = GenAccounts /\ TheState' = TheState /\ Only'
    BY <1>2, <1>10, <1>11 DEF Signed, P2PPort, IP, Mine, GenAccounts, TheState, Only
  <2>3. \A n \in Mine : n >= i => genesis'[n].state.accounts = GenAccounts
    <3>1. \A n \in Mine : n >= i => genesis[n].state.accounts = GenAccounts
      BY <1>2 DEF IInv, Stage, ThirdLoop
    <3>2. genesis'[i].state.accounts = GenAccounts
      BY <1>9, <1>13 DEF TheState
    <3> QED
      BY <1>9, <1>10, <3>1, <3>2
  <2>4. ThirdLoop'
    BY <1>1, <1>2, <1>15, <2>1, <2>2, <2>3 DEF ThirdLoop
  <2> QED
    BY <1>1, <1>2, <2>4 DEF Stage, FirstLoop, SecondLoop
<1> QED
  BY <1>18, <1>19, <1>20, <1>21, <1>22, <1>23 DEF IInv

LEMMA ExportKeeps == IInv /\ ExportGenesisFileWithTime => IInv'
<1> SUFFICES ASSUME IInv, ExportGenesisFileWithTime PROVE IInv'
  OBVIOUS
<1> DEFINE new == [state |-> appState, time |-> "canonical"]
<1> USE Bounds
<1>1. /\ i \in Node /\ i \in Mine /\ i \in Nat /\ call \in Call /\ args.v \in 0 .. MaxNodes
      /\ outcome = "none" /\ i < args.v
  BY Running DEF IInv, ExportGenesisFileWithTime
<1>2. /\ pc = "time" /\ genesis' = [genesis EXCEPT ![i] = new]
      /\ NextNode("collect", "idle")
      /\ outcome' = IF i + 1 < args.v THEN outcome ELSE "ok"
      /\ UNCHANGED <<call, args, failures, halved, consKey, account, gentx, config, appState>>
  BY DEF ExportGenesisFileWithTime
<1>3. appState = TheState /\ Only /\ appState \in AppState
  BY <1>2 DEF IInv, Types, Stage, ThirdLoop
<1>4. new \in Genesis /\ new.state = appState
  BY <1>3 DEF Genesis
<1>5. /\ genesis' \in [Node -> Genesis] /\ genesis'[i] = new
      /\ \A n \in Node : n # i => genesis'[n] = genesis[n]
  BY <1>1, <1>2, <1>4 DEF IInv, Types
<1>6. i' \in 0 .. MaxNodes
  BY <1>1, <1>2 DEF NextNode
<1>7. Types'
  <2>1. \A n \in Node : /\ genesis'[n].time \in {"none", "own", "canonical"}
                        /\ genesis'[n].state.txs \subseteq GenTx
    BY <1>5 DEF Genesis, AppState
  <2> HIDE DEF new
  <2> QED
    BY <1>1, <1>2, <1>5, <1>6, <2>1 DEF IInv, Types, TypeOK, Stages, NextNode
<1>8. KeysOfGenTxsKept' /\ OnlyStaleGenTxsRefused'
  BY <1>1, <1>2 DEF IInv, KeysOfGenTxsKept, OnlyStaleGenTxsRefused
<1>9. Unmixed(appState) /\ KeysKept(appState)
  BY <1>2 DEF IInv, Canonical
<1>10. KeysOfGenesisKept'
  <2> SUFFICES ASSUME NEW n \in Node, ~halved PROVE KeysKept(genesis'[n].state)
    BY <1>2 DEF KeysOfGenesisKept, KeysKept
  <2>1. CASE n = i
    BY <1>4, <1>5, <1>9, <2>1
  <2>2. CASE n # i
    BY <1>5, <2>2 DEF IInv, KeysOfGenesisKept, KeysKept
  <2> QED
    BY <2>1, <2>2
<1>11. NoMixedGenesis'
  <2> SUFFICES ASSUME NEW n \in Node PROVE Unmixed(genesis'[n].state)
    BY DEF NoMixedGenesis, Unmixed
  <2>1. CASE n = i
    BY <1>4, <1>5, <1>9, <2>1
  <2>2. CASE n # i
    BY <1>5, <2>2 DEF IInv, NoMixedGenesis, Unmixed
  <2> QED
    BY <2>1, <2>2
<1>12. Canonical'
  BY <1>2, <1>9 DEF Canonical, KeysKept, Unmixed
<1>13. Stage'
  <2>1. /\ \A n \in Mine : n \in Node /\ Signed(n)'
        /\ Mine' = Mine /\ GenAccounts' = GenAccounts /\ TheState' = TheState /\ Only'
    BY <1>2, <1>3
    DEF Signed, P2PPort, IP, Mine, GenAccounts, TheState, Only, IInv, Stage, ThirdLoop
  <2>2. ASSUME NEW n \in Node, n <= i PROVE Finished(n)'
    <3>1. CASE n < i
      <4>1. Finished(n) /\ n # i
        BY <1>1, <1>2, <3>1 DEF IInv, Stage, ThirdLoop
      <4> QED
        BY <1>2, <1>5, <2>1, <4>1 DEF Finished, Configured, Peers, P2PPort, IP
    <3>2. CASE ~(n < i)
      <4>1. n = i /\ Configured(n)
        BY <1>1, <1>2, <2>2, <3>2 DEF IInv, Stage, ThirdLoop
      <4>2. genesis'[n] = [state |-> TheState, time |-> "canonical"]
        BY <1>3, <1>5, <4>1
      <4> QED
        BY <1>2, <4>1, <4>2
        DEF Finished, Configured, Peers, P2PPort, IP, Mine, TheState, GenAccounts
    <3> QED
      BY <3>1, <3>2
  <2>3. CASE i + 1 < args.v
    <3>1. pc' = "collect" /\ i' = i + 1 /\ outcome' = "none" /\ i' # 0
      BY <1>1, <1>2, <2>3 DEF NextNode
    <3>2. \A n \in Mine : n >= i + 1 => genesis'[n].state.accounts = GenAccounts
      <4>1. \A n \in Mine : n >= i => genesis[n].state.accounts = GenAccounts
        BY <1>2 DEF IInv, Stage, ThirdLoop
      <4>2. \A n \in Mine : n \in Nat /\ (n >= i + 1 => n # i /\ n >= i)
        BY <1>1, <2>1
      <4> QED
        BY <1>5, <2>1, <4>1, <4>2
    <3>3. \A n \in Node : n < i + 1 => Finished(n)'
      BY <1>1, <2>2
    <3>4. ThirdLoop'
      BY <1>2, <1>3, <2>1, <3>1, <3>2, <3>3 DEF ThirdLoop
    <3> QED
      BY <1>1, <1>2, <2>3, <3>1, <3>4 DEF Stage, FirstLoop, SecondLoop
  <2>4. CASE ~(i + 1 < args.v)
    <3>1. pc' = "idle" /\ \A n \in Mine : n <= i
      BY <1>1, <1>2, <2>4 DEF NextNode, Mine
    <3>2. \A n \in Mine : Signed(n)' /\ Finished(n)'
      BY <2>2, <2>1, <3>1
    <3> QED
      BY <2>1, <3>1, <3>2 DEF Stage, FirstLoop, SecondLoop, ThirdLoop
  <2> QED
    BY <2>3, <2>4
<1> QED
  BY <1>7, <1>8, <1>10, <1>11, <1>12, <1>13 DEF IInv

(* What is left of a directory is files that were there.  The command is    *)
(* not as far yet as to have a canonical state.                             *)
LEMMA LeftFiles ==
    ASSUME IInv, NEW kept \in SUBSET Present, RemoveAllBut(kept)
    PROVE  /\ consKey' \in [Node -> {0} \cup Call] /\ account' \in [Node -> {0} \cup Call]
           /\ gentx' \in [Node -> GenTx \cup {NoTx}]
           /\ genesis' \in [Node -> Genesis] /\ config' \in [Node -> Config]
           /\ halved' \in BOOLEAN
           /\ \A n \in Node : genesis'[n] \in {genesis[n], NoGenesis}
<1>1. NoGenesis \in Genesis /\ NoConfig \in Config
  BY DEF AppState, NoState, NoGenesis, Genesis, NoConfig, Config
<1>2. /\ consKey \in [Node -> {0} \cup Call] /\ account \in [Node -> {0} \cup Call]
      /\ gentx \in [Node -> GenTx \cup {NoTx}]
      /\ genesis \in [Node -> Genesis] /\ config \in [Node -> Config]
  BY DEF IInv, Types, TypeOK
<1> QED
  BY <1>1, <1>2 DEF RemoveAllBut

(* Of a complete removal nothing is left that names a key.                  *)
LEMMA NothingLeft ==
    ASSUME NEW kept \in SUBSET Present, RemoveAllBut(kept), ~halved'
    PROVE  KeysOfGenesisKept'
<1>1. kept = {}
  BY DEF RemoveAllBut
<1>2. \A n \in Node : genesis'[n] = NoGenesis
  BY <1>1 DEF RemoveAllBut
<1> QED
  BY <1>2 DEF KeysOfGenesisKept, NoGenesis, NoState

LEMMA FailAndRemoveAllKeeps == IInv /\ FailAndRemoveAll => IInv'
<1> SUFFICES ASSUME IInv, FailAndRemoveAll PROVE IInv'
  OBVIOUS
<1>1. PICK kept \in SUBSET Present : RemoveAllBut(kept)
  BY DEF FailAndRemoveAll
<1>2. /\ consKey' \in [Node -> {0} \cup Call] /\ account' \in [Node -> {0} \cup Call]
      /\ gentx' \in [Node -> GenTx \cup {NoTx}]
      /\ genesis' \in [Node -> Genesis] /\ config' \in [Node -> Config]
      /\ halved' \in BOOLEAN
      /\ \A n \in Node : genesis'[n] \in {genesis[n], NoGenesis}
  BY <1>1, LeftFiles
<1>3. /\ pc' = "idle" /\ outcome' = "failed" /\ failures' \in 0 .. MaxFailures
      /\ UNCHANGED <<call, args, i, appState>>
  BY Bounds DEF FailAndRemoveAll, Failing, IInv, Types, TypeOK
<1>4. Types'
  BY <1>2, <1>3 DEF IInv, Types, TypeOK, Genesis, AppState, Config
<1>5. KeysOfGenTxsKept' /\ KeysOfGenesisKept'
  <2>1. KeysOfGenTxsKept'
    <3>1. \A n \in Node : gentx'[n] # NoTx => gentx'[n] = gentx[n] /\ halved'
      BY <1>1 DEF RemoveAllBut
    <3> QED
      BY <3>1 DEF IInv, KeysOfGenTxsKept
  <2>2. KeysOfGenesisKept'
    <3>1. CASE halved'
      BY <3>1 DEF KeysOfGenesisKept
    <3>2. CASE ~halved'
      BY <1>1, <3>2, NothingLeft
    <3> QED
      BY <3>1, <3>2
  <2> QED
    BY <2>1, <2>2
<1>6. NoMixedGenesis'
  BY <1>2 DEF IInv, NoMixedGenesis, NoGenesis, NoState
<1>7. Canonical' /\ Stage' /\ OnlyStaleGenTxsRefused'
  BY <1>3 DEF Canonical, Stage, FirstLoop, SecondLoop, ThirdLoop, OnlyStaleGenTxsRefused
<1> QED
  BY <1>4, <1>5, <1>6, <1>7 DEF IInv

LEMMA FailKeeps == IInv /\ Fail => IInv'
<1> SUFFICES ASSUME IInv, Fail PROVE IInv'
  OBVIOUS
<1> USE Bounds DEF Fail, Failing, files
<1>1. Types'
  <2>1. failures' \in 0 .. MaxFailures
    BY DEF IInv, Types, TypeOK
  <2> QED
    BY <2>1 DEF IInv, Types, TypeOK
<1>2. KeysOfGenTxsKept' /\ KeysOfGenesisKept' /\ NoMixedGenesis'
  BY DEF IInv, KeysOfGenTxsKept, KeysOfGenesisKept, NoMixedGenesis
<1>3. Canonical' /\ Stage' /\ OnlyStaleGenTxsRefused'
  BY DEF Canonical, Stage, FirstLoop, SecondLoop, ThirdLoop, OnlyStaleGenTxsRefused
<1> QED
  BY <1>1, <1>2, <1>3 DEF IInv

LEMMA StutterKeeps == IInv /\ UNCHANGED vars => IInv'
BY DEF IInv, vars, files, Types, TypeOK, KeysOfGenTxsKept, KeysOfGenesisKept, NoMixedGenesis,
       Canonical, Unmixed, KeysKept, Stage, FirstLoop, SecondLoop, ThirdLoop, Signed, Finished,
       Configured, Peers, TheState, GenAccounts, Only, Mine, P2PPort, IP, OnlyStaleGenTxsRefused

LEMMA NextKeeps == IInv /\ [Next]_vars => IInv'
<1> SUFFICES ASSUME IInv, [Next]_vars PROVE IInv'
  OBVIOUS
<1>1. ASSUME NEW v \in 0 .. MaxNodes, NEW single \in BOOLEAN, NEW noip \in BOOLEAN,
           Begin(v, single, noip) PROVE IInv'
  BY <1>1, BeginKeeps
<1>2. CASE Step
  BY <1>2, MakeDirKeeps, InitializeKeeps, GenerateKeeps, WriteSeedKeeps, WriteGenTxKeeps,
     SaveGenesisKeeps, CollectTxsKeeps, CollectTxsFailsKeeps, ExportKeeps DEF Step
<1>3. CASE FailAndRemoveAll \/ Fail
  BY <1>3, FailAndRemoveAllKeeps, FailKeeps
<1>4. CASE Stopped \/ UNCHANGED vars
  BY <1>4, StutterKeeps DEF Stopped
<1> QED
  BY <1>1, <1>2, <1>3, <1>4 DEF Next

-----------------------------------------------------------------------------
(* Theorems: for any number of nodes, address, calls and failures. *)

(* Whatever calls and failures came before, the files are what the running  *)
(* call needs, stage by stage.                                              *)
THEOREM Invariant == Spec => []IInv
<1>1. Init => IInv
  BY InitInv
<1>2. IInv /\ [Next]_vars => IInv'
  BY NextKeeps
<1> QED
  BY <1>1, <1>2, PTL DEF Spec

(* The variables keep their types.                                          *)
THEOREM TypeCorrect == Spec => []TypeOK
<1>1. IInv => TypeOK
  BY DEF IInv, Types
<1> QED
  BY <1>1, Invariant, PTL

(* No genesis file ever has the gentxs or the funds of two calls in it.     *)
THEOREM GenesisNotMixed == Spec => []NoMixedGenesis
<1>1. IInv => NoMixedGenesis
  BY DEF IInv
<1> QED
  BY <1>1, Invariant, PTL

(* The consensus keys that a genesis file relies on are never lost but by a *)
(* removal that is cut short.                                               *)
THEOREM KeysNotLost == Spec => []KeysOfGenesisKept
<1>1. IInv => KeysOfGenesisKept
  BY DEF IInv
<1> QED
  BY <1>1, Invariant, PTL

(* A call is refused only for the gentx of a node that it does not create.  *)
THEOREM StaleGenTxsRefused == Spec => []OnlyStaleGenTxsRefused
<1>1. IInv => OnlyStaleGenTxsRefused
  BY DEF IInv
<1> QED
  BY <1>1, Invariant, PTL

(* Up to 256 nodes have addresses of their own, although the last byte      *)
(* wraps.                                                                   *)
LEMMA AddressesDiffer ==
    ASSUME NEW m \in Node, NEW n \in Node, ~args.noip, IP(m) = IP(n)
    PROVE  m = n
<1>1. m \in 0 .. 255 /\ n \in 0 .. 255 /\ StartIP \in 0 .. 255
  BY NodesAssumption DEF Node
<1>2. \A j, k \in Nat : j % 256 = k % 256 /\ j < k + 256 /\ k < j + 256 => j = k
  OBVIOUS
<1> DEFINE j == StartIP + m
           k == StartIP + n
<1>3. j \in Nat /\ k \in Nat /\ j < k + 256 /\ k < j + 256
  BY <1>1
<1>4. j % 256 = k % 256
  BY DEF IP
<1> HIDE DEF j, k
<1>5. j = k
  BY <1>2, <1>3, <1>4
<1> QED
  BY <1>1, <1>5 DEF j, k

LEMMA FinishedIsOneNetwork == IInv => SuccessIsOneNetwork
<1> SUFFICES ASSUME IInv, outcome = "ok", call > 0, NEW n \in Mine
             PROVE  /\ genesis[n] = [state |-> TheState, time |-> "canonical"]
                    /\ gentx[n].node = n /\ gentx[n].account = account[n] /\ account[n] = call
                    /\ gentx[n].key = consKey[n] /\ consKey[n] # 0
                    /\ {p.node : p \in config[n].peers} = Mine \ {n}
                    /\ \A p \in config[n].peers : /\ p = gentx[p.node]
                                                  /\ p.port = config[p.node].port
                    /\ ~args.noip => \A m \in Mine : gentx[m].ip = gentx[n].ip => m = n
                    /\ args.single => \A m \in Mine : gentx[m].port = gentx[n].port => m = n
  BY DEF SuccessIsOneNetwork, TheState
<1>1. \A m \in Mine : m \in Node /\ Signed(m) /\ Configured(m)
  BY DEF IInv, Stage, Finished, Mine
<1>2. ASSUME NEW m \in Mine
      PROVE  /\ gentx[m].node = m /\ gentx[m].ip = IP(m) /\ gentx[m].port = P2PPort(m)
             /\ config[m].port = P2PPort(m)
  <2>1. Signed(m) /\ Configured(m)
    BY <1>1
  <2> QED
    BY <2>1 DEF Signed, Configured
<1>3. config[n].peers = {gentx[m] : m \in Mine \ {n}}
  <2>1. Configured(n)
    BY <1>1
  <2> QED
    BY <2>1 DEF Configured, Peers
<1>4. genesis[n] = [state |-> TheState, time |-> "canonical"]
  BY DEF IInv, Stage, Finished
<1>5. /\ gentx[n].node = n /\ gentx[n].account = account[n] /\ account[n] = call
      /\ gentx[n].key = consKey[n] /\ consKey[n] # 0
  BY <1>1, SignedGenTx DEF Signed
<1>6. {p.node : p \in config[n].peers} = Mine \ {n}
  BY <1>2, <1>3
<1>7. ASSUME NEW p \in config[n].peers
      PROVE  p = gentx[p.node] /\ p.port = config[p.node].port
  BY <1>2, <1>3
<1>8. ASSUME NEW m \in Mine
      PROVE  /\ ~args.noip /\ gentx[m].ip = gentx[n].ip => m = n
             /\ args.single /\ gentx[m].port = gentx[n].port => m = n
  <2>1. m \in Node /\ n \in Node /\ m \in Nat /\ n \in Nat
    BY <1>1, Bounds
  <2>2. gentx[m].ip = IP(m) /\ gentx[n].ip = IP(n) /\ gentx[m].port = P2PPort(m)
        /\ gentx[n].port = P2PPort(n)
    BY <1>2
  <2>3. args.single /\ P2PPort(m) = P2PPort(n) => m = n
    BY <2>1 DEF P2PPort
  <2> QED
    BY <2>1, <2>2, <2>3, AddressesDiffer
<1> QED
  BY <1>4, <1>5, <1>6, <1>7, <1>8

(* What a successful call leaves is one network, whatever was there before. *)
THEOREM OneNetwork == Spec => []SuccessIsOneNetwork
<1> QED
  BY FinishedIsOneNetwork, Invariant, PTL
=============================================================================
