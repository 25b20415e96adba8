CONSTANTS
    Worker = {w1, w2}
    Character = {kart}
    PoolSizes = {1, 2}
    Mixes <- MCMixes
    Amount <- MCAmount
    MaxGold = 2
    MaxShop = 2
    MaxOutages = 1
SPECIFICATION FairSpec
INVARIANTS TypeOK PoolConserved NeverOverdrawn BooksBalance OneRowPerTemplate
PROPERTIES  Heals
