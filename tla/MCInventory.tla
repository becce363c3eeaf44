---------------------------- MODULE MCInventory ----------------------------
(* An instance of the inventory for TLC.                                   *)
EXTENDS Inventory, TLC

CONSTANTS auth, blankAuth, media, medias, cdn, billing, account, file

MCNames   == {auth, blankAuth, media, medias, cdn, billing}
MCStrip   == [n \in MCNames |-> IF n = blankAuth THEN auth ELSE n]

\* auth is an in-process provider, media a library of the app labelled cdn.
Plain == [entries |-> <<[name |-> auth, kind |-> "unset", subjects |-> {}],
                        [name |-> media, kind |-> "remote", subjects |-> {account, file}]>>,
          remote |-> {}, optOut |-> {}, types |-> {account, file},
          registrations |-> <<>>,
          providers |-> (auth :> {}),
          modules |-> (auth :> {account}) @@ (media :> {account, file}),
          aliases |-> (cdn :> media),
          roots |-> [export |-> <<>>, archive |-> <<>>, staging |-> <<>>, base |-> <<"srv">>,
                     alias |-> <<>>],
          served |-> {<<"srv", "media">>}]

Entries == {[name |-> n, kind |-> "unset", subjects |-> s] :
              n \in MCNames, s \in {{}, {account, file}}}
             \cup {[name |-> n, kind |-> k, subjects |-> {account, file}] :
              n \in {auth, media}, k \in {"local", "remote"}}

\* Every inventory of up to two entries, with media on two seams.
Inventories ==
    {[Plain EXCEPT !.entries = e, !.registrations = l] :
       e \in {<<>>} \cup {<<a>> : a \in Entries} \cup {<<a, b>> : a, b \in Entries},
       l \in {<<>>, (media :> {account, file})}}

\* Legacy services, opt-outs, hosts that forgot a subject type, and a provider
\* that leaves its subjects to the constants of its module.
Settings ==
    {[Plain EXCEPT !.entries = e, !.remote = r, !.optOut = o, !.types = t, !.modules[auth] = c] :
       e \in {Plain.entries, <<Head(Plain.entries)>>, Reverse(Plain.entries)},
       r \in {{}, {billing}, {media}}, o \in {{}, {media}}, t \in {{}, {account, file}},
       c \in {{account}, {account, file}}}

Paths == {<<>>, <<"data">>, <<"srv", "media", "x">>}

\* Every choice of roots over a sound inventory, with and without a store of their own
\* for the archives: a bucket, or a directory.
Rooted ==
    {[Plain EXCEPT !.roots = [export |-> e, archive |-> a, staging |-> s, base |-> b,
                              alias |-> <<>>],
                   !.served = {m, <<"static">>}] :
       e \in Paths, a \in Paths, s \in Paths, b \in {<<>>, <<"srv">>},
       m \in {<<"srv">>, <<"srv", "media">>}}

Aliased == {[Plain EXCEPT !.roots.alias = p] : p \in Paths \cup {<<"bucket">>}}

MCDeployments == Inventories \cup Settings \cup Rooted \cup Aliased
MCSimilar == {<<medias, media>>}
=============================================================================
