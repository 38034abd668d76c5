----------------------------- MODULE AddressMap -----------------------------
(***************************************************************************)
(* How Memory::send (src/src/Memory.h) turns an address into the channel,  *)
(* rank, bank, row and column of the DRAM organisation: by one of the two  *)
(* orders built in, or by a mapping file that names, for every bit of a    *)
(* level, the bits of the address it is the exclusive or of.               *)
(*                                                                         *)
(* An address is the number of a line of one transaction: send clears the  *)
(* bits below.  The levels of an organisation are numbered from 0, the     *)
(* channel, to the column, and the row is the last but one.                *)
(***************************************************************************)
EXTENDS SequencesExt, Integers

CONSTANTS
  Setups,      \* [org, type, file]: the counts of a standard, the order in use, and the
               \* lines of the mapping file to use instead, if any
  Prefetch,    \* prefetch_size: columns of a transaction
  RowBits,     \* row bits of a mapping file: 32 in the code
  Lines        \* the addresses sent, in this order

BuiltIn == {"ChRaBaRoCo", "RoBaRaCoCh"}

\* A line of a mapping file, "level bits = bits": single bits, or a range each.
IsRange(line) == Len(line.to) = 2

AddressMapAssumption ==
  /\ Prefetch \in Nat \ {0} /\ RowBits \in Nat
  /\ \A n \in DOMAIN Lines : Lines[n] \in Nat
  /\ \A s \in Setups :
       /\ Len(s.org) >= 3 /\ \A l \in DOMAIN s.org : s.org[l] \in Nat \ {0}
       /\ s.type \in BuiltIn
       /\ \A n \in DOMAIN s.file :
            IsRange(s.file[n]) =>
              s.file[n].from[2] - s.file[n].from[1] = s.file[n].to[2] - s.file[n].to[1]

VARIABLES
  org, type, use_mapping_file,
  mapping_scheme,   \* level -> bit -> the address bits it depends on
  placed            \* ghost: the addr_vec of each line sent so far

vars == <<org, type, use_mapping_file, mapping_scheme, placed>>

-----------------------------------------------------------------------------
\* Rounded down, as the shifts in the code do.
calc_log2(n) == CHOOSE k \in 0 .. n : 2 ^ k <= n /\ n < 2 ^ (k + 1)

Level  == 0 .. Len(org) - 1
Column == Len(org) - 1
Row    == Len(org) - 2

\* A transaction moves prefetch_size columns.
addr_bits(l) == calc_log2(org[l + 1]) - (IF l = Column THEN calc_log2(Prefetch) ELSE 0)

\* In a file all bits of a column's number count, and rows have as many as an int.
bits_of(l) == IF l = Row THEN RowBits ELSE calc_log2(org[l + 1])

\* Mutant of Assigned: a range is assigned from its upper end.
AssignedBackwards(line, b) ==
  IF IsRange(line)
    THEN IF b \in Min(ToSet(line.to)) .. Max(ToSet(line.to))
           THEN <<Min(ToSet(line.from))>> ELSE <<>>
    ELSE IF b = line.to[1] THEN line.from ELSE <<>>

\* What a line of the file gives bit b of its level.
Assigned(line, b) ==
  IF IsRange(line)
    THEN IF b \in Min(ToSet(line.to)) .. Max(ToSet(line.to))
           THEN <<Min(ToSet(line.from)) + b - Min(ToSet(line.to))>> ELSE <<>>
    ELSE IF b = line.to[1] THEN line.from ELSE <<>>

\* init_mapping_with_file: lines for the same bit add up.
SchemeOf(file, levels) ==
  [l \in levels |-> [b \in 0 .. bits_of(l) - 1 |->
     FoldLeft(LAMBDA bits, line : IF line.level = l THEN bits \o Assigned(line, b) ELSE bits,
              <<>>, file)]]

Init ==
  /\ \E s \in Setups :
       /\ org = s.org /\ type = s.type /\ use_mapping_file = (s.file # <<>>)
       /\ mapping_scheme = IF use_mapping_file THEN SchemeOf(s.file, Level) ELSE <<>>
  /\ placed = <<>>

\* The levels in the order in which a built-in mapping takes bits off the address.
Order ==
  IF type = "ChRaBaRoCo" THEN Reverse([i \in 1 .. Len(org) |-> i - 1])
                         ELSE <<0, Column>> \o [i \in 1 .. Row |-> i]

\* slice_lower_bits, level by level; what is left of the address is dropped.
Sliced(addr) ==
  FoldLeft(LAMBDA x, l : [addr |-> x.addr \div 2 ^ addr_bits(l),
                          vec  |-> [x.vec EXCEPT ![l] = x.addr % 2 ^ addr_bits(l)]],
           [addr |-> addr, vec |-> [l \in Level |-> 0]], Order).vec

get_bit_at(addr, b) == (addr \div 2 ^ b) % 2

apply_mapping(addr) ==
  [l \in Level |->
     FoldLeft(+, 0, [n \in 1 .. bits_of(l) |->
       2 ^ (n - 1) * (FoldLeft(LAMBDA x, b : x + get_bit_at(addr, b), 0,
                               mapping_scheme[l][n - 1]) % 2)])]

addr_vec(addr) == IF use_mapping_file THEN apply_mapping(addr) ELSE Sliced(addr)

\* send.
Send ==
  /\ Len(placed) < Len(Lines)
  /\ placed' = Append(placed, addr_vec(Lines[Len(placed) + 1]))
  /\ UNCHANGED <<org, type, use_mapping_file, mapping_scheme>>

Next == Send

Spec == Init /\ [][Next]_vars

-----------------------------------------------------------------------------
(***************************************************************************)
(* Properties.                                                             *)
(***************************************************************************)
\* Every level's number is one that the organisation has; a mapping file's rows are
\* as many as the address has bits for.
TypeOK ==
  \A n \in DOMAIN placed : \A l \in Level :
    placed[n][l] \in 0 .. (IF l = Row /\ use_mapping_file THEN 2 ^ RowBits ELSE org[l + 1]) - 1

\* No two lines share a place in the DRAM: a mapping loses no bit of the address.
\* (With a mapping file, this is about its lines and init_mapping_with_file.)
PlacesDiffer ==
  placed # <<>> => \A n \in 1 .. Len(placed) - 1 :
    placed[n] = Last(placed) => Lines[n] = Lines[Len(placed)]

\* The order's name says which levels change slowest: read in that order, the numbers
\* of a vector are the digits of the line's address.
DigitsInOrder ==
  ~use_mapping_file /\ placed # <<>> =>
    Lines[Len(placed)] =
      FoldRight(LAMBDA l, sum : sum * 2 ^ addr_bits(l) + Last(placed)[l], Order, 0)

=============================================================================
