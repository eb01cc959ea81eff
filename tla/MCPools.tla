------------------------------ MODULE MCPools ------------------------------
(***************************************************************************)
(* The pools. A behaviour is of one kind, and the variables of the others  *)
(* stay empty: one of the three allocators against the pool it implements  *)
(* (ipv4, ipv6, prefix), their address arithmetic against plain numbers    *)
(* (calc), and the prefix delegation plugin (delegation).                  *)
(***************************************************************************)
EXTENDS Prefix, IPCalc

VARIABLES
  kind,
  start, end, len,             \* the range allocators
  base, plen, page, held,      \* the prefix allocator
  bits, last                   \* all of them

V4 == INSTANCE BitmapIPv4 WITH
        Space <- 8, Ranges <- ((0 .. 7) \X (0 .. 7)) \ {<<0, 7>>}

(* Around a word boundary, and at both ends of the address space. *)
V6 == INSTANCE BitmapIPv6 WITH
        MaxSize <- 4, Starts <- {0, 6, 7, 8, 61, 63}

(* Pools whose pages lie in the high word and in the low word, at both ends  *)
(* of the address space, and hints shorter than, as long as and longer than  *)
(* a page.                                                                   *)
PD == INSTANCE BitmapPrefix WITH
        Bases <- {0, 56}, PoolLens <- {1, 3}, HintLens <- {3, 6}

ranged == <<start, end, len>>
prefixed == <<base, plen, page, held>>
ofAllocators == <<ranged, prefixed, bits, last>>

NoRange == start = 0 /\ end = 0 /\ len = 0
NoPrefix == base = 0 /\ plen = 0 /\ page = 0 /\ held = {}

(* For the arithmetic: two addresses, start and end, and a prefix length. *)
Scan == end < 2 ^ Bits - 1 /\ end' = end + 1 /\ UNCHANGED <<start, len, bits, last>>

(* Nothing is asked of the plugin, or of an allocator. *)
NoDelegation == records = <<>> /\ taken = {} /\ tasks = <<>> /\ now = 0 /\ told = <<>>
NoAllocator == NoRange /\ NoPrefix /\ bits = {} /\ last = V4!Result("new", V4!Nowhere)

PoolsInit ==
  \/ /\ NoDelegation
     /\ \/ kind = "ipv4" /\ V4!Init /\ NoPrefix
        \/ kind = "ipv6" /\ V6!Init /\ NoPrefix
        \/ kind = "prefix" /\ PD!Init /\ NoRange
        \/ /\ kind = "calc" /\ NoPrefix
           /\ start \in Addr /\ end = 0 /\ len \in 0 .. Bits
           /\ bits = {} /\ last = V4!Result("new", V4!Nowhere)
  \/ kind = "delegation" /\ Init /\ NoAllocator

PoolsNext ==
  /\ \/ kind = "ipv4" /\ V4!Next /\ UNCHANGED <<prefixed, vars>>
     \/ kind = "ipv6" /\ V6!Next /\ UNCHANGED <<prefixed, vars>>
     \/ kind = "prefix" /\ PD!Next /\ UNCHANGED <<ranged, vars>>
     \/ kind = "calc" /\ Scan /\ UNCHANGED <<prefixed, vars>>
     \/ kind = "delegation" /\ Next /\ UNCHANGED ofAllocators
  /\ UNCHANGED kind

PoolsSpec == PoolsInit /\ [][PoolsNext]_<<kind, ofAllocators, vars>>

-----------------------------------------------------------------------------
(* delegation *)

Hint(at, length) == [page |-> at, len |-> length]

(* Nothing named, and three IA_PDs, one with a short ::; a page and ::, with  *)
(* no length, which may want the same lapsed page; and a prefix of another    *)
(* network, a page at a longer length and one hint too many.                  *)
Rich ==
  {<< <<>> >>, << <<>>, <<Hint(ZeroAddr, 1)>>, <<>> >>,
   << <<Hint(0, PageLen), Hint(ZeroAddr, Unsaid)>> >>,
   << <<Hint(Elsewhere, PageLen), Hint(1, 3), Hint(2, PageLen)>> >>}

Plain == {<< <<>>, <<Hint(0, PageLen)>> >>}

CONSTANTS h1, h2

MCMessages(h) == IF h = h1 THEN Rich ELSE Plain

MCReleases ==
  {<< {Hint(0, PageLen)}, {Hint(1, 3)} >>, << {Hint(p, PageLen) : p \in Pages} >>}

ClientSymmetry == Permutations(Clients)

-----------------------------------------------------------------------------
P == INSTANCE Pool WITH
       blocks <- CASE kind = "ipv4" -> V4!Blocks [] kind = "ipv6" -> V6!Blocks
                   [] kind = "prefix" -> PD!Blocks [] OTHER -> {},
       taken <- CASE kind = "ipv4" -> V4!Taken [] kind = "ipv6" -> V6!Taken
                  [] kind = "prefix" -> PD!Taken [] OTHER -> {}

(* Each allocator is a pool of its addresses or pages: at the ends of the     *)
(* address space, across the carry between two words, with any hint. The      *)
(* prefixes in clients' hands never overlap, whatever lengths they asked the  *)
(* prefix allocator for.                                                      *)
ImplementsPool == P!Spec /\ [](kind = "prefix" => PD!PrefixesDisjoint)

(* The arithmetic on two words is that on numbers. Measured from an aligned   *)
(* base, as the prefix allocator does, Offset is the distance in subnets, and *)
(* fails exactly when that does not fit a word. An index below the number of  *)
(* /p subnets leads AddPrefixes to its subnet, or is reported when that lies  *)
(* past the top of the address space. NewIPv6Allocator refuses a range        *)
(* exactly when it is empty or too wide.                                      *)
ArithmeticExact ==
  /\ kind = "calc" /\ Aligned(end, len) /\ end <= start =>
       Offset(start, end, len) = OrFailure(Distance(start, end, len), 2 ^ W)
  /\ kind = "calc" /\ end \in Word /\ end < 2 ^ len =>
       AddPrefixes(start, end, len) = OrFailure(start + end * 2 ^ (Bits - len), 2 ^ Bits)
  /\ kind = "ipv6" => V6!ConstructorExact

(* The plugin's pool and its leases agree, and no client has more than        *)
(* max-prefixes (reconcile, handleRelease and sweepOnce).                     *)
DelegationsAccounted == kind = "delegation" => PoolAccounted

(* A delegation stays the client's for as long as the client was told, unless *)
(* the client releases it (respondToIAPD).                                    *)
DelegationsKept == kind = "delegation" => PromiseKept

(* A client back late that names nothing gets a prefix it had, if the sweeper *)
(* has not been there first (giveOutRemaining and allocationHint).            *)
ReturningKeepsPrefix == [][kind = "delegation" => ReturningStep]_vars
=============================================================================
