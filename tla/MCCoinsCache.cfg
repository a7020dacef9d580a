CONSTANTS
    coinbase = coinbase
    payment = payment
    Txid = {coinbase, payment}
    Output = {0, 1}
    Block = {1, 2}
    Coinbase = {coinbase}
    NoBlock = NoBlock
    NoEntry = NoEntry
    NoCoins = NoCoins
SPECIFICATION Spec
INVARIANTS FlagsAreSound NeverThrows
PROPERTIES ImplementsView
