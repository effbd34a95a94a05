------------------------------ MODULE Chnroute ------------------------------
(***************************************************************************)
(* The set of China addresses (chnroute.go): LoadChnrouteFiles reads prefixes, *)
(* sorts their ranges by start and merges them into disjoint ones, and         *)
(* Contains searches those by halving.  Addresses are uint32: Space is 2^32.    *)
(***************************************************************************)
EXTENDS Integers, Sequences

CONSTANTS
  Space,   \* how many addresses there are
  Sizes,   \* how many addresses a prefix of each length has
  Lists    \* the IPv4 prefixes of the files, line by line; other lines are skipped

Addresses == 0..(Space - 1)
Prefix == [ip : Addresses, size : Sizes]
IpRange == [start : Addresses, end : Addresses]

ASSUME ChnrouteAssumption ==
  /\ Space \in Nat \ {0}
  /\ Sizes \subseteq 1..Space
  /\ \A s \in Sizes : Space % s = 0
  /\ Lists \subseteq Seq(Prefix)

VARIABLES
  crPC,
  lines,    \* the prefixes of the files
  sorted,   \* raw, after sort.Slice
  taken,    \* how many of them are merged
  ranges,   \* merged, then Chnroute.ranges
  asked,    \* the address of a Contains
  low, high,\* where sort.Search still looks
  found

crVars == <<crPC, lines, sorted, taken, ranges, asked, low, high, found>>

CrTypeOK ==
  /\ crPC \in {"sort", "merge", "ready", "search", "told"}
  /\ lines \in Lists
  /\ sorted \in Seq(IpRange) /\ ranges \in Seq(IpRange)
  /\ taken \in Nat /\ low \in Nat /\ high \in Nat
  /\ asked \in Addresses
  /\ found \in BOOLEAN

-----------------------------------------------------------------------------
(* LoadChnrouteFiles                                                         *)

\* net.ParseCIDR clears the host bits; `end' is the start with them all set.
Network(p) == p.ip - (p.ip % p.size)
RangeOf(p) ==
  [start |-> Network(p),
   end |-> IF p.size = Space THEN Space - 1 ELSE Network(p) + (p.size - 1)]

Within(n, r) == r.start <= n /\ n <= r.end
Last(s) == s[Len(s)]

CrInit ==
  /\ crPC = "sort"
  /\ lines \in Lists
  /\ sorted = <<>> /\ ranges = <<>>
  /\ taken = 0 /\ asked = 0 /\ low = 0 /\ high = 0
  /\ found = FALSE

\* The ways to put n things in order.
Orders(n) == {p \in [1..n -> 1..n] : \A k \in 1..n : \E i \in 1..n : p[i] = k}

InOrder(s) == \A i, j \in DOMAIN s : i <= j => s[i].start <= s[j].start

\* sort.Slice by start; ranges with one start come in any order.
SortRanges ==
  /\ crPC = "sort"
  /\ lines # <<>>
  /\ \E p \in Orders(Len(lines)) :
       LET s == [i \in 1..Len(lines) |-> RangeOf(lines[p[i]])]
       IN InOrder(s) /\ sorted' = s /\ ranges' = <<s[1]>>
  /\ taken' = 1
  /\ crPC' = "merge"
  /\ UNCHANGED <<lines, asked, low, high, found>>

\* ErrEmptyChnroute: the daemon starts with an empty set.
NothingToLoad ==
  /\ crPC = "sort"
  /\ lines = <<>>
  /\ crPC' = "ready"
  /\ UNCHANGED <<lines, sorted, taken, ranges, asked, low, high, found>>

\* Defect: r.start-1 wraps around at address 0.
JoinsUnguarded(last, r) == last.end >= (r.start - 1) % Space

\* r overlaps the last range or follows it with no gap.
Joins(last, r) == r.start = 0 \/ last.end >= (r.start - 1) % Space

Extended(last, r) ==
  [start |-> last.start, end |-> IF r.end > last.end THEN r.end ELSE last.end]

MergeRange ==
  /\ crPC = "merge"
  /\ taken < Len(sorted)
  /\ LET r == sorted[taken + 1]
     IN ranges' = IF Joins(Last(ranges), r)
                    THEN [ranges EXCEPT ![Len(ranges)] = Extended(Last(ranges), r)]
                    ELSE Append(ranges, r)
  /\ taken' = taken + 1
  /\ UNCHANGED <<crPC, lines, sorted, asked, low, high, found>>

LoadedRanges ==
  /\ crPC = "merge"
  /\ taken = Len(sorted)
  /\ crPC' = "ready"
  /\ UNCHANGED <<lines, sorted, taken, ranges, asked, low, high, found>>

-----------------------------------------------------------------------------
(* Contains                                                                  *)

Contains(n) ==
  /\ crPC = "ready"
  /\ crPC' = "search"
  /\ asked' = n
  /\ low' = 0 /\ high' = Len(ranges)
  /\ UNCHANGED <<lines, sorted, taken, ranges, found>>

\* sort.Search halves [low, high) until low is the first range that starts after
\* the address, counting from 0.
Halve ==
  /\ crPC = "search"
  /\ low < high
  /\ LET h == (low + high) \div 2
     IN IF ranges[h + 1].start > asked
          THEN high' = h /\ UNCHANGED low
          ELSE low' = h + 1 /\ UNCHANGED high
  /\ UNCHANGED <<crPC, lines, sorted, taken, ranges, asked, found>>

\* The range before that one, if there is one, is the only candidate.
Tell ==
  /\ crPC = "search"
  /\ low = high
  /\ crPC' = "told"
  /\ found' = (low > 0 /\ asked <= ranges[low].end)
  /\ UNCHANGED <<lines, sorted, taken, ranges, asked, low, high>>

ContainsReturns ==
  /\ crPC = "told"
  /\ crPC' = "ready"
  /\ asked' = 0 /\ low' = 0 /\ high' = 0
  /\ found' = FALSE
  /\ UNCHANGED <<lines, sorted, taken, ranges>>

CrNext ==
  \/ SortRanges \/ NothingToLoad \/ MergeRange \/ LoadedRanges
  \/ \E n \in Addresses : Contains(n)
  \/ Halve \/ Tell \/ ContainsReturns

CrSpec == CrInit /\ [][CrNext]_crVars

-----------------------------------------------------------------------------
Listed(n) == \E i \in DOMAIN lines : Within(n, RangeOf(lines[i]))

\* Whatever the prefixes, their nesting, their repetitions and their order in the
\* files, and at both ends of the address space, Contains finds exactly the
\* addresses of the prefixes (chnroute.go:120-129, 146-153).
LookupExact == crPC = "told" => (found <=> Listed(asked))
=============================================================================
