\* Two calls and one decision, the clock running. No symmetry: one property is temporal.
SPECIFICATION FairSpec
CONSTANTS
  r1 = r1  r2 = r2
  Asks = {a1, a2}
  Requests = {r1, r2}
  Decisions = {d1}
  Scopes <- MCScopes
PROPERTIES KeepsPromise EveryAskReturns
