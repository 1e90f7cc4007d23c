-------------------------- MODULE MCProposalStore --------------------------
(* TLC instances of ProposalStore: command IDs, scenes, texts, agents and    *)
(* creators are interchangeable in the runs that check safety only.          *)
EXTENDS ProposalStore, TLC

Symmetry == Permutations(CommandIDs) \cup Permutations(Scenes)
              \cup Permutations(Texts) \cup Permutations(Agents)
              \cup Permutations(Creators)
=============================================================================
