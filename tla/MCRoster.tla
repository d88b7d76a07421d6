------------------------------ MODULE MCRoster ------------------------------
(* Rosters of up to four beds on small hosts. *)
EXTENDS Roster

CONSTANTS gpu, port, disk   \* resource tokens

NoTokens == [b \in Beds |-> {}]

\* Two lanes, four beds, no claims, nothing mirrored.
Base ==
    [select |-> Beds, exclude |-> {}, iterate |-> {}, hostLocal |-> {}, expectedFail |-> {},
     refuseHostLocal |-> TRUE, tokens |-> NoTokens, lanes |-> 0, cpus |-> 2,
     readable |-> FALSE, memory |-> 0, budget |-> 6, mirrored |-> {},
     talks |-> {}, kinds |-> {"pass"}]

\* Unions of two and three chains; a token that only a folded chain claimed comes back.
UnionRosters ==
    {[Base EXCEPT !.tokens = t]
        : t \in {<<{gpu}, {port}, {disk}, {gpu, port, disk}>>,
                 <<{gpu}, {port, disk}, {gpu, port}, {disk}>>,
                 <<{gpu}, {port}, {disk}, {gpu, disk}>>}}

\* Every way a bed can end, with and without a negative control.
VerdictRosters ==
    {[Base EXCEPT !.select = {1, 3}, !.expectedFail = n, !.kinds = Kinds \ {"setup"},
                  !.lanes = 2, !.cpus = 0] : n \in {{}, {3}}}

\* Beds that are not to run: iterations, host-local beds, excluded ones, or none at all.
SelectionRosters ==
    {[Base EXCEPT !.exclude = {1}, !.iterate = {2}, !.hostLocal = {3}, !.refuseHostLocal = r] : r \in BOOLEAN}

\* Hosts with room for no bed and for two beds.
MemoryRosters ==
    {[Base EXCEPT !.select = {1, 2, 3}, !.lanes = 4, !.cpus = 4, !.readable = TRUE, !.memory = m]
        : m \in {4, 13}}

\* Beds whose stderr is mirrored, beside each other or one after the other.
MirrorRosters ==
    {[Base EXCEPT !.select = {1, 2}, !.lanes = l, !.mirrored = {1, 2}, !.talks = {2},
                  !.kinds = {"pass", "panic"}]
        : l \in {1, 2}}

MCConfigs ==
    UnionRosters \cup VerdictRosters \cup SelectionRosters \cup MemoryRosters \cup MirrorRosters

=============================================================================
