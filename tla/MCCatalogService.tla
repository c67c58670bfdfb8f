-------------------------- MODULE MCCatalogService --------------------------
EXTENDS CatalogService, TLC

CONSTANTS p1, p2

\* Every catalog of two nodes, and only a change of the whole catalog.
AllCatalogs == {{p1}, {p2}, {p1, p2}}
TwoCatalogs == {{p1}, {p2}}

\* A configuration and what an edit of one field makes of it.
Base == [acct |-> 1, api |-> 1, set |-> 1, bind |-> 1]
MCConfigs == {Base, [Base EXCEPT !.acct = 2], [Base EXCEPT !.api = 2],
              [Base EXCEPT !.set = 2], [Base EXCEPT !.bind = 2]}
OneConfig == {Base}

Symmetry == Permutations(Proxies)
=============================================================================
