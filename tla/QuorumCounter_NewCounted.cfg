CONSTANT acceptors = 3
SPECIFICATION CounterSpec
PROPERTY NewAcceptorIsCounted
