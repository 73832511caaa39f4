----------------------------- MODULE Certificate -----------------------------
(***************************************************************************)
(* Verification of a certificate for an effective canister id: a boundary  *)
(* node assembles one from what the subnets and the root subnet have       *)
(* signed, prunes it, and the agent checks it (assert_certificate_valid,   *)
(* verify_cert, check_delegation) and reads it (lookup).  Signatures and   *)
(* hashes are ideal.  Canister ids are numbers in the order of their bytes. *)
(***************************************************************************)
EXTENDS HashTree, SequencesExt

CONSTANTS
  Subnets,    \* the subnets other than the root subnet
  Canisters,  \* their canisters, an interval of integers
  Tables,     \* the routing tables to start from, [Canisters -> Subnets]
  ShardSize,  \* how many ranges the root subnet puts into a shard
  Nestings,   \* how the forks of a tree nest, a subset of {"left", "right"}
  MaxMoves,   \* bound: how often a canister moves to another subnet
  MaxPruned   \* bound: how many parts of a certificate are pruned

ASSUME CertificateAssumption ==
  /\ IsFiniteSet(Subnets)
  /\ IsFiniteSet(Canisters)
  /\ Canisters \subseteq Int
  /\ \A c, d \in Canisters : c .. d \subseteq Canisters
  /\ Tables \subseteq [Canisters -> Subnets]
  /\ ShardSize \in Nat \ {0}

Root == "root"  \* the root subnet; its key is IC_ROOT_KEY

ASSUME RootAssumption == Root \notin Subnets

VARIABLES
  tables,   \* the routing tables the root subnet has certified, oldest first
  cert,     \* the certificate on its way: << >> or <<certificate>>
  pruned,   \* how many parts of it were pruned
  verdict   \* NoVerdict, or [kind : {"valid", "refused"}, eff, skip]

vars == <<tables, cert, pruned, verdict>>

NoVerdict == [kind |-> "none"]
-----------------------------------------------------------------------------
(* EXTERNAL: what the subnets sign.                                         *)

(* A label is a subnet, a canister's id or a name; a leaf holds a text, a   *)
(* key or a set of ranges.                                                  *)
Name(n)     == [name |-> n]
Id(c)       == [id |-> c]
Text(x)     == [text |-> x]
KeyOf(s)    == [key |-> s]
RangeSet(R) == [ranges |-> R]

(* The key of subnet s is named after it. *)
Signed(tree, key, delegation) ==
  [tree |-> tree, sig |-> [key |-> key, message |-> Digest(tree)], delegation |-> delegation]

(* A subnet's state, with two requests in it *)
StateTree(nesting) ==
  Directory(<< <<Name("request_status"), Directory(<<
                   <<Name("one"), Directory(<< <<Name("reply"), Leaf(Text("yes"))>>,
                                               <<Name("status"), Leaf(Text("replied"))>> >>,
                                            nesting)>>,
                   <<Name("two"), Labeled(Name("status"), Leaf(Text("received")))>> >>,
                 nesting)>>,
               <<Name("time"), Leaf(Text("now"))>> >>, nesting)

StatePaths ==
  { <<Name("request_status"), Name(id), Name(field)>> :
      id \in {"one", "two"}, field \in {"reply", "status"} }
  \cup {<<Name("time")>>}

(* The ranges of a subnet's canisters, as long as they can be *)
Ranges(table, s) ==
  { r \in Canisters \X Canisters :
      /\ r[1] <= r[2]
      /\ \A c \in r[1] .. r[2] : table[c] = s
      /\ r[1] - 1 \in Canisters => table[r[1] - 1] # s
      /\ r[2] + 1 \in Canisters => table[r[2] + 1] # s }

(* Every ShardSize-th range starts a shard, which is labelled with its       *)
(* lowest id and goes on to the next shard's.                               *)
Starts(table, s) ==
  {r[1] : r \in {q \in Ranges(table, s) :
                  Cardinality({p \in Ranges(table, s) : p[1] < q[1]}) % ShardSize = 0}}

Shard(table, s, start) ==
  {r \in Ranges(table, s) :
     start <= r[1] /\ \A other \in Starts(table, s) : other <= r[1] => other <= start}

Shards(table, s, nesting) ==
  LET starts == SetToSeq(Starts(table, s))
  IN  Directory([i \in DOMAIN starts |->
                   <<Id(starts[i]), Leaf(RangeSet(Shard(table, s, starts[i])))>>], nesting)

RootTree(table, nesting) ==
  LET names == SetToSeq(Subnets)
  IN  Directory(<<
        <<Name("canister_ranges"),
          Directory([i \in DOMAIN names |->
                       <<names[i], Shards(table, names[i], nesting)>>], nesting)>>,
        <<Name("subnet"),
          Directory([i \in DOMAIN names |->
                       <<names[i], Labeled(Name("public_key"), Leaf(KeyOf(names[i])))>>], nesting)>>,
        <<Name("time"), Leaf(Text("now"))>> >>, nesting)

(* The labels are among Labels, and the trees nest no deeper than MaxHeight. *)
ASSUME LayoutAssumption ==
  /\ Subnets \subseteq Labels
  /\ {Name("canister_ranges"), Name("subnet"), Name("public_key")} \subseteq Labels
  /\ StatePaths \subseteq Path
  /\ \A table \in [Canisters -> Subnets], nesting \in Nestings :
       {StateTree(nesting), RootTree(table, nesting)} \subseteq FullTrees(MaxHeight)

Delegated(s, parent) == <<[subnet |-> s, cert |-> parent]>>

Delegation(table, s, nesting) ==
  Delegated(s, Signed(RootTree(table, nesting), Root, << >>))

(* A certificate signed by a subnet in the place of the root subnet's *)
Chained(table, s, nesting) ==
  Delegated(s, Signed(RootTree(table, nesting), s, Delegation(table, s, nesting)))
-----------------------------------------------------------------------------
(* What the agent does.                                                     *)

(* verify_bls_signature_blst over the tree's own root hash *)
SignatureHolds(c, key) == c.sig = [key |-> key, message |-> Digest(c.tree)]

(* Mutant: a canister that gives its name to a shard belongs to the one before. *)
ShardsBelow(labels, eff) == {l \in labels : l < eff}

(* The labels that sort up to the canister id; the last is the shard's. *)
ShardsUpTo(labels, eff) == {l \in labels : l <= eff}

(* check_delegation's part on canister_ranges *)
InCanisterRanges(tree, subnet, eff) ==
  LET shards   == LookupTree(<<Name("canister_ranges"), subnet>>, tree)
      labels   == {p[Len(p)].id : p \in ListPaths(shards, << >>) \ {<< >>}}
      upTo     == ShardsUpTo(labels, eff)
      ranges   == LookupPath(<<Id(Max(upTo))>>, shards)
  IN  /\ shards # NotFound
      /\ upTo # {}
      /\ ranges # NotFound
      /\ \E r \in ranges[2].ranges : r[1] <= eff /\ eff <= r[2]

(* Mutant: the parent's signature is verified, its ranges are not read. *)
DelegationUnranged(c, eff, skip) ==
  IF c.delegation = << >> THEN Leaf(KeyOf(Root))
  ELSE LET parent == c.delegation[1].cert IN
       IF parent.delegation = << >> /\ SignatureHolds(parent, Root)
       THEN LookupPath(<<Name("subnet"), c.delegation[1].subnet, Name("public_key")>>, parent.tree)
       ELSE NotFound

(* check_delegation: the key the certificate must be signed with, or an *)
(* exception (NotFound)                                                 *)
CheckDelegation(c, eff, skip) ==
  IF c.delegation = << >> THEN Leaf(KeyOf(Root))
  ELSE LET parent == c.delegation[1].cert
           subnet == c.delegation[1].subnet
       IN  IF /\ parent.delegation = << >>
              /\ SignatureHolds(parent, Root)
              /\ skip \/ InCanisterRanges(parent.tree, subnet, eff)
           THEN LookupPath(<<Name("subnet"), subnet, Name("public_key")>>, parent.tree)
           ELSE NotFound

(* verify_cert *)
Valid(c, eff, skip) ==
  LET key == CheckDelegation(c, eff, skip)
  IN  key # NotFound /\ SignatureHolds(c, key[2].key)
-----------------------------------------------------------------------------
Init ==
  /\ tables \in {<<t>> : t \in Tables}
  /\ cert = << >>
  /\ pruned = 0
  /\ verdict = NoVerdict

(* EXTERNAL: a canister moves; certificates of older tables stay around. *)
Move(c, s) ==
  /\ cert = << >>
  /\ Len(tables) <= MaxMoves
  /\ tables[Len(tables)][c] # s
  /\ tables' = Append(tables, [tables[Len(tables)] EXCEPT ![c] = s])
  /\ UNCHANGED <<cert, pruned, verdict>>

(* EXTERNAL: a boundary node answers, with whatever delegation it has. *)
Serve(signer, nesting) ==
  /\ cert = << >>
  /\ \E i \in DOMAIN tables :
     \E d \in {<< >>} \cup {Delegation(tables[i], s, nesting) : s \in Subnets}
                      \cup {Chained(tables[i], s, nesting) : s \in Subnets} :
       cert' = <<Signed(StateTree(nesting), signer, d)>>
  /\ UNCHANGED <<tables, pruned, verdict>>

(* EXTERNAL: parts of either tree are left out. *)
Prune ==
  /\ cert # << >>
  /\ verdict = NoVerdict
  /\ pruned < MaxPruned
  /\ \/ \E t \in Cutbacks(cert[1].tree) : cert' = [cert EXCEPT ![1].tree = t]
     \/ /\ cert[1].delegation # << >>
        /\ \E t \in Cutbacks(cert[1].delegation[1].cert.tree) :
             cert' = [cert EXCEPT ![1].delegation[1].cert.tree = t]
  /\ pruned' = pruned + 1
  /\ UNCHANGED <<tables, verdict>>

(* assert_certificate_valid *)
Check(eff, skip) ==
  /\ cert # << >>
  /\ verdict = NoVerdict
  /\ verdict' = [kind |-> IF Valid(cert[1], eff, skip) THEN "valid" ELSE "refused",
                 eff |-> eff, skip |-> skip]
  /\ UNCHANGED <<tables, cert, pruned>>

(* One certificate is checked once. *)
Checked == verdict # NoVerdict /\ UNCHANGED vars

Next ==
  \/ \E c \in Canisters, s \in Subnets : Move(c, s)
  \/ \E s \in Subnets \cup {Root}, nesting \in Nestings : Serve(s, nesting)
  \/ Prune
  \/ \E eff \in Canisters, skip \in BOOLEAN : Check(eff, skip)
  \/ Checked

Spec == Init /\ [][Next]_vars
-----------------------------------------------------------------------------
Signer == cert[1].sig.key

(* A certificate passes for a canister only if the subnet that signed it    *)
(* has hosted the canister according to a table the root subnet certified,  *)
(* whatever is combined and pruned; without delegation, only if the root    *)
(* subnet signed it.                                                        *)
ValidIsHosted ==
  verdict.kind = "valid" =>
    IF cert[1].delegation = << >> THEN Signer = Root
    ELSE /\ Signer \in Subnets
         /\ verdict.skip \/ \E i \in DOMAIN tables : tables[i][verdict.eff] = Signer

(* The other way round: the hosting subnet's certificate passes with a      *)
(* delegation of its own that shows the canister's shard and the subnet's   *)
(* key, at the boundaries of ranges and shards too, whatever else of the    *)
(* trees is pruned.                                                         *)
HostedIsValid ==
  verdict.kind = "refused" /\ cert[1].delegation # << >> =>
    LET parent == cert[1].delegation[1].cert
        full   == Digest(parent.tree)
        shown(path) == LookupPath(path, parent.tree) # NotFound
        shards == {p \in ListPaths(full, << >>) :
                     /\ p[1] = Name("canister_ranges") /\ p[2] = Signer
                     /\ \E r \in LookupPath(p, full)[2].ranges :
                          r[1] <= verdict.eff /\ verdict.eff <= r[2]}
    IN  ~ /\ parent.delegation = << >> /\ parent.sig.key = Root
          /\ cert[1].delegation[1].subnet = Signer
          /\ shown(<<Name("subnet"), Signer, Name("public_key")>>)
          /\ \E p \in shards : shown(p)

(* Pruning hides and never changes: what a pruned tree still shows at a     *)
(* path is what the signed tree shows there, and its root hash is the same. *)
PruningOnlyHides ==
  cert # << >> =>
    LET full == Digest(cert[1].tree) IN
    /\ full = cert[1].sig.message
    /\ \A p \in StatePaths :
         LookupPath(p, cert[1].tree) \in {NotFound, LookupPath(p, full)}
=============================================================================
